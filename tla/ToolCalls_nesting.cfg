CONSTANTS
  a = a
  b = b
  m = m
  Calls = {c1, c2, c3}
  Tools <- MCTools
  Mutexes <- MCMutexes
  NoCall = NoCall
  NoQueue = NoQueue
  Sequential <- NoneSequential
  MaxConcurrency <- NoMaxConcurrency
  ServerLimit = 1
  Timed = {}
  Wrapped <- OnlyA
  Loose = {}
  Retries <- NoRetries
  MaxDepth = 20
  Overrides = {"off"}
  McpRoute = TRUE
SPECIFICATION CooperativeSpec
PROPERTY EveryCallAnswered
CHECK_DEADLOCK FALSE
