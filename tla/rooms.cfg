\* One room, with the general nick or one of its own, and two people.
SPECIFICATION Spec
CONSTANTS
  Rooms = {r1}
  People = {ann, bob}
  Nick = aleesa
  Alias = alice
  MaxWire = 2
CHECK_DEADLOCK FALSE
INVARIANTS TypeOK RosterSettles AdminRight OwnRoomsKnown
