CONSTANTS
  l1 = l1
  l2 = l2
  w1 = w1
  w2 = w2
  Launchers <- OneLauncher
  Workers <- TwoWorkers
  Procs <- OneLauncherProcs
  NoProc = NoProc
  LastLooks = 5
  MaxCrashes = 1
  Overlap = TRUE
  Stop = FALSE
  Patience = FALSE
  Busy = TRUE
SPECIFICATION LauncherSpec
INVARIANTS NoAbandonedLock SomebodyServes
PROPERTY EveryStartSettles
CHECK_DEADLOCK FALSE
