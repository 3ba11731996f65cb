SPECIFICATION FairSpec
CONSTANTS
  d1 = d1
  d2 = d2
  p1 = p1
  p2 = p2
  None = None
  Deployments <- MCDeployments
  Position <- MCPosition
  Pods <- OnePod
  NameOf <- MCNameOf
  Namespace <- MCNamespace
  LabelsOf <- MCLabelsOf
  Selects <- MCSelects
  NoPolicy <- MCNoPolicy
  Policies <- MCPolicies
  MaxReplicas = 1
  Requests = {a, b}
  MaxWrites = 1
  MaxFaults = 1
INVARIANTS TypeOK AnsweredMeansDown
PROPERTIES NoLostWrite OnlySimilarTouched GetsAnswer
CHECK_DEADLOCK FALSE
