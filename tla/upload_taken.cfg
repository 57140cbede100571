\* The name is taken, and the request dies after it deleted the part file.
CONSTANTS
  Requests = {"r1", "r2"}
  Keeper = "housekeeping"
  Setups <- TakenSetups
  Chunks = 2
  Size = 3
  Sizes = {1, 2}
  MaxArrivals = 3
  MaxFaults = 1
SPECIFICATION Spec
INVARIANTS OwnImage
CHECK_DEADLOCK FALSE
