SPECIFICATION FairSpec
CONSTANTS
  d1 = d1
  d2 = d2
  p1 = p1
  p2 = p2
  None = None
  Deployments <- Two
  Late <- Nobody
  Namespaces <- MCNamespaces
  NsOf <- MCNsOf
  Policies <- MCPolicies
  Specs <- MCSpecs
  Pods <- Nobody
  Replicas = 1
  Receivers = {r1}
  MaxVersion = 2
  MaxFaults = 1
  WatchGaps = TRUE
INVARIANTS NoLostUpdate PatchesApply Settled
PROPERTIES ImplementsReconcile TakesEffect PolicyStable PolicyForReason
CHECK_DEADLOCK FALSE
