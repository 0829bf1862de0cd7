\* Two components, several ranges; a UA that may fall silent; cancel and verify may fail.
SPECIFICATION LiveSpec
CONSTANTS
  c1 = c1
  c2 = c2
  None = None
  Components <- TwoComponents
  ImageSize <- TwoSizes
  DownloadRanges <- ValidRanges
  T1 = 1
  T2 = 1
  WorkTimes = {0, 2}
  InstanceIdCount = 3
  U32 = 64
  OverflowChecks = TRUE
  MaxPadding = 1
  DefaultXferSize = 4
  XferSizes = {2}
  ResponseCodes = {0, 6}
  TransferResults = {0, 1}
  VerifyResults = {0, 1}
  ApplyResults = {0, 2}
  Percents = {50, 100}
  MayFail = {"cancel_update_component", "verify"}
INVARIANTS
  ActiveComponentOpen
PROPERTIES
  SilenceEndsOperation
