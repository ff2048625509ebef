CONSTANTS
  a = a
  b = b
  m = m
  Calls = {c1, c2, c3}
  Tools <- MCTools
  Mutexes <- MCMutexes
  NoCall = NoCall
  NoQueue = NoQueue
  Sequential <- OneMutex
  MaxConcurrency <- NoMaxConcurrency
  ServerLimit = 1
  Timed <- MCTools
  Wrapped <- MCTools
  Loose <- OnlyB
  Retries <- RetryA
  MaxDepth = 20
  Overrides = {"off"}
  McpRoute = TRUE
SPECIFICATION Spec
SYMMETRY CallSymmetry
INVARIANTS SlotsMatchCalls UnabortedWithinLimit AbortCascades
PROPERTIES AnswerIsFinal 
CHECK_DEADLOCK FALSE
