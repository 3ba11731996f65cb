SPECIFICATION Spec
CONSTANTS
  d1 = d1
  d2 = d2
  p1 = p1
  p2 = p2
  None = None
  Deployments <- One
  Late <- Nobody
  Namespaces <- MCNamespaces
  NsOf <- MCNsOf
  Policies <- MCPolicies
  Specs <- MCSpecs
  Pods <- MCPods
  Replicas = 2
  Receivers = {r1}
  MaxVersion = 1
  MaxFaults = 0
  WatchGaps = FALSE
INVARIANTS PolicyTookEffect
SYMMETRY PodSymmetry
CHECK_DEADLOCK FALSE
