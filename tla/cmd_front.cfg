\* Any request in a buffer of any length that makes a difference.
SPECIFICATION Spec
CONSTANTS
  None = None
  Capabilities <- Table
  Messages <- AnyMessage
  BufferLens = {0, 1, 3, 4, 5, 6, 9, 10, 13, 14, 37}
  FdCodes = {0, 2, 132}
  FdPanics = {"UpdateComponent", "GetFirmwareParameters"}
INVARIANTS
  TypeOK
  TidIsAcknowledged
  DiscoveryServed
  AnswerFitsRequest
  ReadyUnlessPanicked
