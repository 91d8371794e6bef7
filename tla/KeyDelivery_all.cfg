SPECIFICATION Spec
CONSTANTS
  Proc = {p1, p2}
  Entry = {e1, e2}
  Key = {k1, k2}
  Conn = {d1, d2}
  Other = Other
  None = None
  InitFile <- Files
SYMMETRY Symmetry
INVARIANTS TypeOK KeyBeforeLogin NoDuplicates ServerOfHolder
PROPERTIES ImplementsAuthorizedKeys
CHECK_DEADLOCK FALSE
