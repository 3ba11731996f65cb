SPECIFICATION Spec
CONSTANTS
  d1 = d1
  d2 = d2
  p1 = p1
  p2 = p2
  None = None
  Deployments <- One
  Late <- Nobody
  Namespaces <- MCNamespaces
  NsOf <- MCNsOf
  Policies <- MCPolicies
  Specs <- MCSpecs
  Pods <- Nobody
  Replicas = 1
  Receivers = {r1}
  MaxVersion = 2
  MaxFaults = 0
  WatchGaps = FALSE
INVARIANTS DeletedPolicyGone
CHECK_DEADLOCK FALSE
