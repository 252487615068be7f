SPECIFICATION Spec
CONSTANTS
  Ports = {p1, p2}
  Servers = {s4, s6}
  V6Servers = {s6}
  NoPort = NoPort
  MaxPackets = 2
  MaxReplies = 2
INVARIANTS
  ReplyToAsker
  NoStranger
PROPERTIES
  RepliesWritten
CHECK_DEADLOCK FALSE
