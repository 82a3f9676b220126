CONSTANTS
  Policies <- MCPolicies
  Hosts <- MCHosts
  Answers <- MCAnswers
  None = None
SPECIFICATION Spec
INVARIANT ConnectedAllowed
INVARIANT TargetChecked
CHECK_DEADLOCK FALSE
