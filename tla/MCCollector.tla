----------------------------- MODULE MCCollector -----------------------------
(* Instances of Collector for TLC. *)
EXTENDS Collector

CONSTANTS p1, p2

MCPods == {p1, p2}
MCPosition == (p1 :> 1) @@ (p2 :> 2)
=============================================================================
