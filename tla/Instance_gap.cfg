CONSTANTS
  Procs = {p1, p2}
  NoProc = NoProc
  LastLooks = 5
  MaxCrashes = 0
  Overlap = TRUE
  Stop = FALSE
  Patience = TRUE
  Busy = FALSE
SPECIFICATION Spec
INVARIANT SingleOwner
CHECK_DEADLOCK FALSE
