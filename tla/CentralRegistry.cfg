CONSTANTS
  a1 = a1
  a2 = a2
  b1 = b1
  A = A
  B = B
  Servers <- MCServers
  Names <- MCNames
  NameOf <- MCNameOf
  Commands = {c1}
  Stopped = Stopped
  Absent = Absent
  Lasting = {b1}
  FixedPort = FALSE
SPECIFICATION Spec
SYMMETRY Symmetry
INVARIANTS LiveServerListed AnswersAreCurrent BystandersLive
CHECK_DEADLOCK FALSE
