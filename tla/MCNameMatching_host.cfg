SPECIFICATION Spec
CONSTANTS
  MAXIMUM_LABEL_LENGTH = 3
  MAXIMUM_NAME_LENGTH = 7
  Ipv6Text <- MCIpv6Text
  Questions <- MCQuestions
INVARIANTS
  HostConstraintNamesOneHost
CHECK_DEADLOCK FALSE
