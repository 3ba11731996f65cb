------------------------------ MODULE Reconcile ------------------------------
(***************************************************************************)
(* What a level-triggered controller promises its users: whatever the      *)
(* latest state of an object is, the handler gets to see it.  States in    *)
(* between may be skipped, a state may be seen twice, and after a restart  *)
(* everything is seen again.                                               *)
(***************************************************************************)
CONSTANTS Keys,     \* the keys of the objects
          Values,   \* the states an object may have
          Gone(_)   \* the state an object is in once it is deleted

VARIABLES latest,   \* the state of each object
          seen      \* the state each object had when the handler last read it

vars == <<latest, seen>>

Init ==
  /\ latest \in [Keys -> Values]
  /\ seen = latest

Change(k) ==
  /\ latest' \in [Keys -> Values]
  /\ \A j \in Keys \ {k} : latest'[j] = latest[j]
  /\ UNCHANGED seen

Handle(k) ==
  /\ seen[k] # latest[k]
  /\ seen' = [seen EXCEPT ![k] = latest[k]]
  /\ UNCHANGED latest

\* The controller starts again: it has seen none of the objects there are.
Reset ==
  /\ latest' \in [Keys -> Values]
  /\ seen' = [k \in Keys |-> Gone(latest'[k])]

Next ==
  \/ Reset
  \/ \E k \in Keys : Change(k) \/ Handle(k)

Spec == Init /\ [][Next]_vars /\ \A k \in Keys : WF_vars(Handle(k))
=============================================================================
