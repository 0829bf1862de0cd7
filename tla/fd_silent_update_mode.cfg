\* A UA that falls silent.
SPECIFICATION LiveSpec
CONSTANTS
  c1 = c1
  c2 = c2
  None = None
  Components <- OneComponent
  ImageSize <- OneSize
  DownloadRanges <- OneRange
  T1 = 1
  T2 = 1
  WorkTimes = {0}
  InstanceIdCount = 2
  U32 = 64
  OverflowChecks = TRUE
  MaxPadding = 1
  DefaultXferSize = 4
  XferSizes = {4}
  ResponseCodes = {0}
  TransferResults = {0}
  VerifyResults = {0}
  ApplyResults = {0}
  Percents = {50, 100}
  MayFail = {}
PROPERTIES
  SilenceEndsUpdateMode
