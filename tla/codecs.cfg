\* Every kind of message, with strings, descriptors and lists up to their limits
\* and, from a peer, beyond; any part of it may arrive.
SPECIFICATION Spec
CONSTANTS
  None = None
  Messages <- Built
  PeerMessages <- FromPeers
  BufferLens <- AnyLength
  PLDM_FWUP_IMAGE_SET_VER_STR_MAX_LEN = 2
  DESCRIPTOR_DATA_MAX_LEN = 2
  MAX_COMPONENT_COUNT = 2
  ADDITIONAL_DESCRIPTORS_MAX_COUNT = 2
  MAX_PORTION_DATA_SIZE = 3
  MAX_TRANSFER_SIZE = 2
INVARIANTS
  TypeOK
  RoundTrip
  CutIsNoticed
  NoPanic
  ReencodesToInput
\* An exchange ends.
CHECK_DEADLOCK FALSE
