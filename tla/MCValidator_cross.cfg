SPECIFICATION Spec
CONSTANTS
  Absent = Absent
  Undecodable = Undecodable
  Name <- CrossName
  Cert <- CrossCert
  Leaf <- CrossLeaves
  RootInput <- CrossRoots
  IntermediateInput <- CrossIntermediates
  MaxPerSubject = 2
  DiagnosticModes = {TRUE}
  Policies = {"anything", "nothing", "short", "named"}
  Policy <- Policies
  Backend = {"determined"}
  VerifySignature <- MCVerifySignature
  VerifyingCriticalExtensions <- MCVerifyingCriticalExtensions
  ChainMeetsPolicyRequirements <- MCChainMeetsPolicyRequirements
  Chains <- MCChains
INVARIANTS
  TypeOK
  Complete
  RejectionsJustified
  MostPreferred
  FailuresInOrder
  EveryCandidateAccountedFor
PROPERTIES
  ImplementsService
