SPECIFICATION Spec
CONSTANTS
  d1 = d1
  d2 = d2
  p1 = p1
  p2 = p2
  None = None
  Deployments <- MCDeployments
  Position <- MCPosition
  Pods <- MCPods
  NameOf <- MCNameOf
  Namespace <- MCNamespace
  LabelsOf <- MCLabelsOf
  Selects <- MCSelects
  NoPolicy <- MCNoPolicy
  Policies <- MCPolicies
  MaxReplicas = 1
  Requests = {a}
  MaxWrites = 1
  MaxFaults = 0
PROPERTIES AnswerTrue
CHECK_DEADLOCK FALSE
