SPECIFICATION Spec
CONSTANTS
  absent = absent
  undecodable = undecodable
  Absent = absent
  Undecodable = undecodable
  RsaCrateMaximumBits = 4096
  Features <- MCFeatures
  Calls <- MCCalls
INVARIANTS
  VerifiedAsDeclared
  NoGenuineSignatureRefused
  BackendsNested
  DefaultDelegates
CHECK_DEADLOCK FALSE
