CONSTANTS
  c1 = c1
  c2 = c2
  c3 = c3
  t1 = t1
  t2 = t2
  k1 = k1
  k2 = k2
  k3 = k3
  m = m
  None = None
  Calls = {c1, c2, c3}
  Tools = {t1, t2}
  Keys = {k1, k2, k3}
  Load <- MCLoad
  ToolOf <- MCToolOf
  Ttl <- MCTtl
  MaxSize <- MCMaxSize
  Attempts <- MCAttempts
  Middlewares = {m}
  Filter <- MCFilter
  Own <- MCOwn
  MaxTime = 1
SPECIFICATION PipelineSpec
SYMMETRY Symmetry
INVARIANTS HandlerOncePerAttempt LeastRecentFirst RecordsAddUp
PROPERTY HitsAreFresh
CHECK_DEADLOCK FALSE
