\* The four locations of main.go:37-43 and files with up to two rooms.
SPECIFICATION Spec
CONSTANTS
  Locations = 4
  Ports = {5280}
  Delays = {60}
  Nick = "aleesa"
  Alias = "alice"
  MaxRooms = 2
INVARIANTS Sound PortFitsTransport
PROPERTY FirstFileDecides
CHECK_DEADLOCK FALSE
