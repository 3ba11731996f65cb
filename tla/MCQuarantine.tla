---------------------------- MODULE MCQuarantine ----------------------------
(* Instances of Quarantine for TLC. *)
EXTENDS Quarantine, TLC

CONSTANTS d1, d2, p1, p2

\* The API server lists by name.  The two Deployments of an application are
\* told apart by their tier; a Pod has the label of its ReplicaSet too.
MCPosition == (d1 :> 1) @@ (d2 :> 2)
MCDeployments == {d1, d2}
MCPods == {p1, p2}
OnePod == {p2}
MCNameOf == [p \in Pods |-> IF p = p1 THEN "web-1" ELSE "db-1"]
MCNamespace == [x \in Deployments \cup Pods |-> "default"]
MCLabelsOf ==
  (d1 :> [app |-> "shop", tier |-> "web"]) @@
  (d2 :> [app |-> "shop", tier |-> "db", zone |-> "a"]) @@
  (p1 :> [app |-> "shop", tier |-> "web", hash |-> "1"]) @@
  (p2 :> [app |-> "shop", tier |-> "db", hash |-> "2"])
MCSelects == (d1 :> Pods \cap {p1}) @@ (d2 :> Pods \cap {p2})
MCNoPolicy == [action |-> "", group |-> {}]
MCPolicies == {[action |-> "quarantine", group |-> {"app"}], [action |-> "none", group |-> {}]}
MCZonePolicies == {[action |-> "quarantine", group |-> {"zone"}]}
=============================================================================
