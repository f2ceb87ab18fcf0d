SPECIFICATION ImportSpec
CONSTANTS
  Keys = {k1, k2}
  Files <- MCFewFiles
  ChunkSize = 2
  MaxErrors = 1
  MaxLevel = 2
  Held = 1
INVARIANT SucceededAreStored
CHECK_DEADLOCK FALSE
