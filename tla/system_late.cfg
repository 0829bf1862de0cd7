\* A link that delivers late: in any order, and again.
SPECIFICATION SysSpec
CONSTANTS
  old = old
  new = new
  None = None
  Components <- Offered
  ImageSize <- Sizes
  DownloadRanges <- Ranges
  Offer <- Firmwares
  FirstTable <- FactoryTable
  Ordered = FALSE
  MaxRequests = 1
  MaxResponses = 2
  MaxComponentCount = 2
  ZeroKey = 0
  Unspecified = "UNSPECIFIED"
  T1 = 2
  T2 = 1
  WorkTimes = {0}
  InstanceIdCount = 4
  U32 = 64
  OverflowChecks = TRUE
  MaxPadding = 1
  DefaultXferSize = 4
  XferSizes = {1}
  ResponseCodes = {0, 2}
  TransferResults = {0}
  VerifyResults = {0}
  ApplyResults = {0}
  Percents = {100}
  MayFail = {}
INVARIANTS
  BytesInPlace
