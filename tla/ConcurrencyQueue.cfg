CONSTANTS
  Calls = {c1, c2, c3, c4}
  Signals = {s1, s2}
  NoSignal = NoSignal
  MaxConcurrency = 2
  ReleaseOnAbort = TRUE
SPECIFICATION Spec
INVARIANTS SlotsAccounted QueueHoldsWaiters WaitersImplySaturated AbortReachesWaiters
PROPERTIES NoOvertaking CancelledNeverGranted ImplementsSemaphore EveryAcquireSettles
CHECK_DEADLOCK FALSE
