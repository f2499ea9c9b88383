CONSTANTS
  MaxGen = 2
  Rooms = {}
  Server = server
  Rotation = FALSE
  Interrupts = FALSE
  MaxPings = 0
SPECIFICATION FairSpec
PROPERTY FailureRedials
\* A panic or a SIGINT ends the process.
CHECK_DEADLOCK FALSE
