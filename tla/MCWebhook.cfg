SPECIFICATION Spec
CONSTANTS
  d1 = d1
  d2 = d2
  p1 = p1
  p2 = p2
  p3 = p3
  None = None
  Deployments <- Two
  Late <- Nobody
  Namespaces <- MCNamespaces
  NsOf <- MCNsOf
  Pods <- MCPods
  Replicas = 2
  Policies <- MCPolicies
  Templates <- MCTemplates
  TemplatesOf <- MCTemplatesOf
  LabelsOf <- MCLabelsOf
  Selector <- MCSelector
  Asking <- MCAsking
  Ignored <- MCIgnored
  MaxFaults = 1
INVARIANTS TypeOK
PROPERTIES InjectedForReason NotMissed
SYMMETRY PodSymmetry
CHECK_DEADLOCK FALSE
