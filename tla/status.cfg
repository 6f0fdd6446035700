SPECIFICATION Spec
CONSTANTS
  null = null
  room = room
  Null = null
  Readings <- MCReadings
  Rooms <- MCRooms
  Suctions <- MCSuctions
  HasUltra = FALSE
  MaxMessages = 3
  h1 = h1
  h2 = h2
  h3 = h3
  Handlers <- MCHandlers
SYMMETRY MCCalls
INVARIANTS DockAgrees ChosenKept OncePerChange ShowsLatest
PROPERTIES NotUndone
\* Without a message there is nothing to handle.
CHECK_DEADLOCK FALSE
