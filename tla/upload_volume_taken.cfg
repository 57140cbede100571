\* Others create the volume before the first chunk does.
CONSTANTS
  Requests = {"r1", "r2"}
  Keeper = "housekeeping"
  Setups <- VolumeTakenSetups
  Chunks = 2
  Size = 3
  Sizes = {1, 2}
  MaxArrivals = 3
  MaxFaults = 0
SPECIFICATION Spec
PROPERTIES ForeignKept
CHECK_DEADLOCK FALSE
