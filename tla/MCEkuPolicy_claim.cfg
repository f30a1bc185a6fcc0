SPECIFICATION Spec
CONSTANTS
  Absent = Absent
  Repeated = Repeated
  Undecodable = Undecodable
  KeyPurposes <- ServerAuthOnly
  Chain <- CriticalChains
INVARIANTS
  ClaimEnforced
CHECK_DEADLOCK FALSE
