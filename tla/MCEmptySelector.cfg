SPECIFICATION Spec
CONSTANTS
  d1 = d1
  d2 = d2
  p1 = p1
  p2 = p2
  None = None
  Deployments <- MCDeployments
  Position <- MCPosition
  Pods <- MCPods
  NameOf <- MCNameOf
  Namespace <- MCNamespace
  LabelsOf <- MCLabelsOf
  Selects <- MCSelects
  NoPolicy <- MCNoPolicy
  Policies <- MCZonePolicies
  MaxReplicas = 1
  Requests = {a}
  MaxWrites = 0
  MaxFaults = 0
INVARIANTS SimilarOnly
CHECK_DEADLOCK FALSE
