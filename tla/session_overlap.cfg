CONSTANTS
  MaxGen = 2
  Rooms = {}
  Server = server
  Rotation = TRUE
  Interrupts = FALSE
  MaxPings = 0
SPECIFICATION FairSpec
INVARIANTS WriterFollowsTalk TombAccounting
PROPERTIES ImplementsSlot BrokenSessionRedials
\* A panic or a SIGINT ends the process.
CHECK_DEADLOCK FALSE
