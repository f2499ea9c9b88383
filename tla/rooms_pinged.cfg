\* One room and one person, who speaks.
SPECIFICATION FairSpec
CONSTANTS
  Rooms = {r1}
  People = {ann}
  Nick = aleesa
  Alias = alice
  MaxWire = 2
CHECK_DEADLOCK FALSE
PROPERTY IdleRoomIsPinged
