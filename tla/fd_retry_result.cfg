\* T2 retries of VerifyComplete and ApplyComplete.
SPECIFICATION Spec
CONSTANTS
  c1 = c1
  c2 = c2
  None = None
  Components <- OneComponent
  ImageSize <- OneSize
  DownloadRanges <- OneRange
  T1 = 1
  T2 = 1
  WorkTimes = {0, 2}
  InstanceIdCount = 3
  U32 = 64
  OverflowChecks = TRUE
  MaxPadding = 1
  DefaultXferSize = 4
  XferSizes = {2}
  ResponseCodes = {0, 6}
  TransferResults = {0, 1}
  VerifyResults = {0, 1}
  ApplyResults = {0, 2}
  Percents = {50, 100}
  MayFail = {}
INVARIANTS
  ReportsVerdict
