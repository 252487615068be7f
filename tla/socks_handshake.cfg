SPECIFICATION Spec
CONSTANTS
  Addresses = {"v4", "v6"}
  AddrLen = 6
  Payload = 3
INVARIANTS
  InSync
  UpIsConnected
  HeldAsStateSays
PROPERTIES
  EventsInOrder
  HandshakeEnds
CHECK_DEADLOCK FALSE
