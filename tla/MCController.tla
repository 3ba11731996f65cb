---------------------------- MODULE MCController ----------------------------
(* Instances of Controller for TLC. *)
EXTENDS Controller, TLC

CONSTANTS d1, d2, p1, p2

One == {d1}
Two == {d1, d2}
Nobody == {}
MCNamespaces == {"default", "prod"}
MCNsOf == [d \in Deployments |-> "default"]
MCPolicies == {"quarantine", "none"}

A == [namespaces |-> <<>>, selects |-> Deployments, policy |-> "quarantine"]
B == [namespaces |-> <<"prod", "default">>, selects |-> {d1}, policy |-> "none"]
MCSpecs == {A, B}
MCPods == {p1, p2}
PodSymmetry == Permutations(MCPods)
=============================================================================
