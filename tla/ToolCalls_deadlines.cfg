CONSTANTS
  a = a
  b = b
  m = m
  Calls = {c1, c2, c3}
  Tools <- MCTools
  Mutexes <- MCMutexes
  NoCall = NoCall
  NoQueue = NoQueue
  Sequential <- BothMutex
  MaxConcurrency <- NoMaxConcurrency
  ServerLimit = 0
  Timed <- MCTools
  Wrapped <- OnlyA
  Loose <- OnlyA
  Retries <- NoRetries
  MaxDepth = 20
  Overrides = {"off"}
  McpRoute = FALSE
SPECIFICATION Spec
PROPERTY EveryCallAnswered
CHECK_DEADLOCK FALSE
