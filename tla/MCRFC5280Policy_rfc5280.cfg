SPECIFICATION Spec
CONSTANTS
  Absent = Absent
  Undecodable = Undecodable
  NameMatches <- MCNameMatches
  Chain <- MCChains
  Time = {Absent, 0, 1, 2, 3, 4}
INVARIANTS
  TypeOK
  VerdictCorrect
CHECK_DEADLOCK FALSE
