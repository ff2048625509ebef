CONSTANTS
  a = a
  b = b
  shared = shared
  read = read
  write = write
  Nobody = Nobody
  Clients = {a, b}
  Keys = {shared}
  KeyOf <- MCKeyOf
  Max = 2
  Window = 4
  Second = 3
  Retries = 2
  Backoff = 1
  Factor = 2
  MaxBackoff = 3
  Jitter = TRUE
  Grants <- MCGrants
  Tools = {read, write}
  Scopes <- MCScopes
SPECIFICATION Spec
INVARIANTS BurstBounded RetryAdmitted
