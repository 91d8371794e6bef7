SPECIFICATION FairSpec
CONSTANTS
  c1 = c1
  c2 = c2
  e1 = e1
  e2 = e2
  a1 = a1
  a2 = a2
  t1 = t1
  t2 = t2
  t3 = t3
  None = None
  SSHConn = {c1}
  EntrySession = {e1}
  Tunnel = {t1, t2}
  Agent = {a1}
  PortAgent <- Port
  Unsolicited = FALSE
PROPERTIES EntryOfOfflineAgentEnds
CHECK_DEADLOCK FALSE
