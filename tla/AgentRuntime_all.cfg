SPECIFICATION FairSpec
CONSTANTS
  Open = {m1, m2}
  MaxRetries = 3
  None = None
INVARIANTS TypeOK NothingLeaks LoginHasTunnel
PROPERTIES EndsTogether Reconnects AnswersOpensInTime
CHECK_DEADLOCK FALSE
