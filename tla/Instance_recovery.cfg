CONSTANTS
  Procs = {p1, p2, p3, p4}
  NoProc = NoProc
  LastLooks = 5
  MaxCrashes = 3
  Overlap = FALSE
  Stop = TRUE
  Patience = FALSE
  Busy = TRUE
SPECIFICATION Spec
SYMMETRY ProcSymmetry
INVARIANTS SingleOwner OwnerIsFindable NoNeedlessFailure
CHECK_DEADLOCK FALSE
