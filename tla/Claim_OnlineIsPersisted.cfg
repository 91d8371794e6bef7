SPECIFICATION Spec
CONSTANTS
  Agent = {a1, a2}
  Conn = {k1, k2, k3}
  Port = {10000, 10001, 10002, 10003}
  FirstPort = 10000
  None = None
  Failures = FALSE
SYMMETRY RegistrySymmetry
INVARIANTS OnlineIsPersisted
CHECK_DEADLOCK FALSE
