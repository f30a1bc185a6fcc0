SPECIFICATION Spec
CONSTANTS
  Absent = Absent
  Undecodable = Undecodable
  Character <- MCCharacter
  Alphanumeric <- MCAlphanumeric
  LowerCase <- MCLowerCase
  Question <- Questions
INVARIANTS
  SlicesInRange
  IdentityCorrect
CHECK_DEADLOCK FALSE
