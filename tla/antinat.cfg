SPECIFICATION Spec
CONSTANTS
  Conns = {c1, c2}
INVARIANTS
  ConfOutlivesUsers
  OneAfterStop
  ConnHandedOver
  DescriptorsHeld
PROPERTIES
  ClosesWhenPeerEnds
CHECK_DEADLOCK FALSE
