CONSTANTS
  MaxGen = 1
  Rooms = {r1}
  Server = server
  Rotation = TRUE
  Interrupts = TRUE
  MaxPings = 1
SPECIFICATION FairSpec
\* TombInv contains TypeOK and TombAccounting.
INVARIANTS TombInv FirstSessionCrashFree
PROPERTY InterruptExits
\* A panic or a SIGINT ends the process.
CHECK_DEADLOCK FALSE
