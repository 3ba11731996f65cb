----------------------------- MODULE MCDelivery -----------------------------
(* Instances of Delivery for TLC. *)
EXTENDS Delivery

CONSTANTS a, b, x, y

MCDestinations == {a, b}
\* Two Receivers, one of which is not always there.
MCLists == {<<a, b>>, <<b>>}

\* Records of different lengths.
MCRecord == (x :> <<1>>) @@ (y :> <<2, 3>>)
MCCsv ==
  [l \in Logs |-> FoldLeft(LAMBDA text, e : text \o MCRecord[e], <<>>, l)]
\* A form with two long records is too large.
MCFitting == {l \in Logs : Len(MCCsv[l]) <= 3}
=============================================================================
