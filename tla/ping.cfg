CONSTANTS
  Delay = 3
  Connect = 1
  Splay = 2
  Answer = 2
  Horizon = 30
SPECIFICATION Spec
INVARIANTS NoFalseStall StallIsFound
\* The model stops at the horizon.
CHECK_DEADLOCK FALSE
