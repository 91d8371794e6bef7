SPECIFICATION Spec
CONSTANTS
  c1 = c1
  c2 = c2
  e1 = e1
  e2 = e2
  a1 = a1
  a2 = a2
  t1 = t1
  t2 = t2
  t3 = t3
  None = None
  SSHConn = {c1, c2}
  EntrySession = {e1}
  Tunnel = {t1, t2}
  Agent = {a1, a2}
  PortAgent <- Port
  Unsolicited = TRUE
SYMMETRY TunnelSymmetry
INVARIANTS RightPartner AlwaysOwned
CHECK_DEADLOCK FALSE
