\* UpdateComponent responses as update_component_rsp builds them.
SPECIFICATION Spec
CONSTANTS
  None = None
  Messages <- Echoed
  PeerMessages <- NoPeers
  BufferLens <- AnyLength
  PLDM_FWUP_IMAGE_SET_VER_STR_MAX_LEN = 2
  DESCRIPTOR_DATA_MAX_LEN = 2
  MAX_COMPONENT_COUNT = 2
  ADDITIONAL_DESCRIPTORS_MAX_COUNT = 2
  MAX_PORTION_DATA_SIZE = 3
  MAX_TRANSFER_SIZE = 2
INVARIANTS
  RoundTrip
\* An exchange ends.
CHECK_DEADLOCK FALSE
