SPECIFICATION Spec
CONSTANTS
  Base = {"rfc5280", "eku", "pinned"}
  Chain = {"plain", "server", "expired"}
  Oid = {"basicConstraints", "keyUsage", "extKeyUsage"}
  BaseClaims <- MCBaseClaims
  BaseAccepts <- MCBaseAccepts
  Disabled = "alternative is disabled"
  MaxOperands = 3
  MaxCalls = 9
INVARIANTS
  VerdictsAsWritten
  ClaimsEnforced
  RejectionsExplained
CHECK_DEADLOCK FALSE
