SPECIFICATION Spec
CONSTANTS
  null = null
  den = den
  Null = null
  CropPadding = 0
  SavedMaps <- MCSavedMaps
  LiveMaps <- MCLiveMaps
  Window = 2
  TrailMax = 2
  MaxPoints = 3
  MaxCleans = 2
  MaxTrouble = 1
  MaxFetches = 1
INVARIANTS RenderFaithful ColoursDiffer OnePath
PROPERTIES CatchesUp
\* Without a live map there is nothing to follow.
CHECK_DEADLOCK FALSE
