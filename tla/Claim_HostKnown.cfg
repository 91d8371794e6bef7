SPECIFICATION Spec
CONSTANTS
  Agent = {a1, a2}
  Conn = {c1}
  HostKey = HostKey
  None = None
  MaxStarts = 3
  InitHosts <- Files
INVARIANT HostKnown

CHECK_DEADLOCK FALSE
