\* Portions of up to three devices, cut anywhere or followed by something, read
\* by any mix of calls; devices of other origins.
SPECIFICATION Spec
CONSTANTS
  None = None
  Listings <- Lists
  Trailers <- Behinds
  Blobs <- Given
  Indices = {0, 1, 2}
  DESCRIPTOR_DATA_MAX_LEN = 2
INVARIANTS
  TypeOK
  WalkInOrder
  
  DescriptorsInOrder
PROPERTIES
  NoneMeansAll
\* A panic ends the caller.
CHECK_DEADLOCK FALSE
