SPECIFICATION Spec
CONSTANTS
  Absent = Absent
  Repeated = Repeated
  Undecodable = Undecodable
  KeyPurposes <- MCKeyPurposes
  Chain <- Chains
INVARIANTS
  PurposesCorrect
CHECK_DEADLOCK FALSE
