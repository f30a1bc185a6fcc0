SPECIFICATION Spec
CONSTANTS
  Absent = Absent
  Undecodable = Undecodable
  Name <- PathName
  Cert <- PathCert
  Leaf <- PathLeaves
  RootInput <- PathRoots
  IntermediateInput <- PathIntermediates
  MaxPerSubject = 3
  DiagnosticModes = {FALSE}
  Policies = {"anything", "nothing", "long", "named"}
  Policy <- Policies
  Backend = {"determined"}
  VerifySignature <- MCVerifySignature
  VerifyingCriticalExtensions <- MCVerifyingCriticalExtensions
  ChainMeetsPolicyRequirements <- MCChainMeetsPolicyRequirements
  Chains <- MCChains
INVARIANTS
  Sound
  Complete
  MostPreferred
  FailuresInOrder
  ChainLengthBounded
PROPERTIES
  EveryCallReturns
