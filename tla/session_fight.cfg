CONSTANTS
  MaxGen = 2
  Rooms = {}
  Server = server
  Rotation = TRUE
  Interrupts = FALSE
  MaxPings = 0
SPECIFICATION Spec
INVARIANT DialExclusive
\* A panic or a SIGINT ends the process.
CHECK_DEADLOCK FALSE
