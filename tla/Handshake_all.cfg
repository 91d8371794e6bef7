\* Every pair of session IDs of at most three characters.
CONSTANTS
  HexDigit <- Digit
  OtherChar <- Rest
  Value <- DigitValue
  Dash = "-"
  SessionIDs <- Strings
  Hash <- Hashed
  HashByte <- HashBytes
  Magic <- MagicBytes
  SIDSize = 1
  MaxPayload = 2
SPECIFICATION Spec
INVARIANTS
  TypeOK
  SameSession
  OnlyExactHeader
  PayloadIntact
CHECK_DEADLOCK FALSE
