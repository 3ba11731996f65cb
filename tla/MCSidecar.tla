------------------------------ MODULE MCSidecar ------------------------------
(* Instances of Sidecar for TLC. *)
EXTENDS Sidecar, TLC

CONSTANTS me, twin, d1, d2, d3

\* Two Pods of one name, in two namespaces; the other one is listed first.
MCPods == {me, twin}
MCDeployments == {d1, d2, d3}
MCPosition == (twin :> 1) @@ (me :> 2) @@ (d3 :> 1) @@ (d1 :> 2) @@ (d2 :> 3)
MCNamespace ==
  (twin :> "apps") @@ (d3 :> "apps") @@
  [x \in {me, d1, d2} |-> "default"]
MCSelects == (d1 :> {}) @@ (d2 :> {me}) @@ (d3 :> {me, twin})
MCPorts == (me :> 2) @@ (twin :> 1)
MCAnswering == (me :> {2}) @@ (twin :> {})
=============================================================================
