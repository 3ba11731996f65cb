SPECIFICATION Spec
CONSTANTS
  d1 = d1
  d2 = d2
  p1 = p1
  p2 = p2
  None = None
  Deployments <- One
  Late <- One
  Namespaces <- MCNamespaces
  NsOf <- MCNsOf
  Policies <- MCPolicies
  Specs <- MCSpecs
  Pods <- MCPods
  Replicas = 1
  Receivers = {r1}
  MaxVersion = 2
  MaxFaults = 1
  WatchGaps = FALSE
INVARIANTS TypeOK RestartedForPolicy RestartedWithoutPolicy
SYMMETRY PodSymmetry
CHECK_DEADLOCK FALSE
