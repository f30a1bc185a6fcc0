SPECIFICATION Spec
CONSTANTS
  Absent = Absent
  Undecodable = Undecodable
  Name <- OddName
  Cert <- OddCert
  Leaf <- OddLeaves
  RootInput <- OddRoots
  IntermediateInput <- OddIntermediates
  MaxPerSubject = 2
  DiagnosticModes = {TRUE}
  Policies = {"anything", "nothing", "short"}
  Policy <- Policies
  Backend = {"determined", "undetermined"}
  VerifySignature <- MCVerifySignature
  VerifyingCriticalExtensions <- MCVerifyingCriticalExtensions
  ChainMeetsPolicyRequirements <- MCChainMeetsPolicyRequirements
  Chains <- MCChains
INVARIANTS
  Sound
  DiagnosticsAgreeWithResult
PROPERTIES
  ImplementsService
