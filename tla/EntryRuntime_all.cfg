SPECIFICATION FairSpec
CONSTANTS
  Agent = {a1, a2}
  Conn = {c1}
  HostKey = HostKey
  None = None
  MaxStarts = 3
  InitHosts <- Files
INVARIANTS TypeOK SteadyAgent HostOnce HostFound NothingLeaks
PROPERTIES EndsTogether
CHECK_DEADLOCK FALSE
