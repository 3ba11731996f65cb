------------------------------- MODULE Mirror --------------------------------
(***************************************************************************)
(* What shipping a log promises: the source only grows, each copy is moved *)
(* to longer and longer beginnings of it, and catches up with it in the    *)
(* end.  Once the source has been damaged or a copy's keeper has stopped   *)
(* nothing is promised any more.                                           *)
(***************************************************************************)
EXTENDS Sequences, SequencesExt

CONSTANT Copies

VARIABLES source,   \* the text of the log
          copy,     \* what each copy has of it
          intact    \* nothing has happened that ends the promise

vars == <<source, copy, intact>>

Init ==
  /\ source = <<>>
  /\ copy = [c \in Copies |-> <<>>]
  /\ intact = TRUE

Grow ==
  /\ IsPrefix(source, source')
  /\ UNCHANGED copy

Advance(c) ==
  /\ \E n \in Len(copy[c]) + 1 .. Len(source) :
       copy' = [copy EXCEPT ![c] = SubSeq(source, 1, n)]
  /\ UNCHANGED source

Next == intact' => intact /\ (Grow \/ \E c \in Copies : Advance(c))

Spec ==
  /\ Init /\ [][Next]_vars
  /\ \A c \in Copies : WF_copy(intact /\ Advance(c))
=============================================================================
