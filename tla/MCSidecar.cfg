SPECIFICATION FairSpec
CONSTANTS
  me = me
  twin = twin
  d1 = d1
  d2 = d2
  d3 = d3
  None = None
  Pods <- MCPods
  Me <- me
  Position <- MCPosition
  Deployments <- MCDeployments
  Namespace <- MCNamespace
  Selects <- MCSelects
  Policies = {x, y}
  Ports <- MCPorts
  Answering <- MCAnswering
  MaxConns = 2
  MaxPolicies = 1
  MaxFaults = 1
INVARIANTS TypeOK EnvironmentFromOwner
PROPERTIES ChecksGoOn
CHECK_DEADLOCK FALSE
