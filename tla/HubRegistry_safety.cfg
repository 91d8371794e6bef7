SPECIFICATION Spec
CONSTANTS
  Agent = {a1, a2}
  Conn = {k1, k2, k3}
  Port = {9000, 10000, 10001, 10002, 10003}
  FirstPort = 10000
  None = None
  Failures = TRUE
SYMMETRY RegistrySymmetry
INVARIANTS TypeOK Routing FileAgrees ControlIsLive RegistryInv
PROPERTIES NewerSurvives ImplementsPortDirectory ImplementsAgentPresence
CHECK_DEADLOCK FALSE
