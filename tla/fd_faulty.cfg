\* Any callback may fail, any buffer may be too short; the build checks overflow.
SPECIFICATION Spec
CONSTANTS
  c1 = c1
  c2 = c2
  None = None
  Components <- OneComponent
  ImageSize <- OneSize
  DownloadRanges <- AnyRange
  MayFail <- AnyCall
  T1 = 1
  T2 = 1
  WorkTimes = {0, 2}
  InstanceIdCount = 3
  U32 = 64
  OverflowChecks = TRUE
  MaxPadding = 1
  DefaultXferSize = 4
  XferSizes = {2}
  ResponseCodes = {0, 6, 12}
  TransferResults = {0, 1, 17}
  VerifyResults = {0, 1}
  ApplyResults = {0, 2}
  Percents = {50, 100}
INVARIANTS
  TypeOK
  RequestMatchesState
  ImageReadyForPhase
  SuccessIsEarned
  TimeoutLeavesNoRequest
  ReasonMatchesHistory
  ChunkInWindow
  StatusFitsState
  UnmatchableIsResent
PROPERTIES
  RefusalChangesNothing
  FailedStaysFailed
  FinishedOnlyIfApplied
  TransferResultStable
  ImplementsFlow
\* A panic stops the device.
CHECK_DEADLOCK FALSE
