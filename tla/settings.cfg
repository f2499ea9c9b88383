CONSTANTS
  Chats = {c1, c2}
  Loops = {l1}
  Handlers = {h1, h2}
  OpenFails = TRUE
  ReadFails = FALSE
  Connected = TRUE
SPECIFICATION FairSpec
INVARIANTS TypeOK OnIsStored HandleKept SettingsCrashFree
PROPERTIES OnlyOffTurnsOff InterruptEnds
