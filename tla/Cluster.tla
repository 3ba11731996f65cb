------------------------------- MODULE Cluster -------------------------------
(***************************************************************************)
(* The objects of the API server that the controller works on: the         *)
(* annotations of the Deployments and the Pods they own.  The API server   *)
(* and the Deployment, ReplicaSet and kubelet controllers are outside this *)
(* repository; their actions are what the code in src/ relies on.          *)
(*                                                                         *)
(* Annotations are abstracted to what the code tells apart: the policy     *)
(* (the keys inject, Action, GroupLabel and LogFrequency, which are always *)
(* written and removed together) and whether any annotation of somebody    *)
(* else is there (the Deployment controller's revision annotation).        *)
(***************************************************************************)
EXTENDS Integers, FiniteSets

CONSTANTS Deployments,   \* the names of the Deployments
          Late,          \* those that users create in the course of time
          Namespaces,    \* the namespaces
          NsOf,          \* the namespace of each Deployment
          Pods,          \* the names of Pods; a name is used once
          Replicas,      \* the number of Pods a Deployment asks for
          Policies,      \* values of (Action, GroupLabel, LogFrequency)
          None           \* no value

ASSUME ClusterAssumption ==
  /\ NsOf \in [Deployments -> Namespaces]
  /\ Late \in SUBSET Deployments
  /\ Replicas \in Nat
  /\ None \notin Deployments \cup Policies

VARIABLES deps,   \* the Deployments that exist
          ann,    \* the annotations of each Deployment
          pod     \* the state of each Pod

clusterVars == <<deps, ann, pod>>

Annotations == [foreign : BOOLEAN, policy : Policies \cup {None}]

\* A nil annotation map: the field is absent from the object's JSON.
NoAnnotations == [foreign |-> FALSE, policy |-> None]

Phases == {"unborn", "running", "terminating", "gone"}

PodStates ==
  [phase    : Phases,
   of       : Deployments \cup {None},
   injected : BOOLEAN,   \* the status annotation of the webhook is "injected"
   covered  : BOOLEAN]   \* history: its Deployment had a policy when the Pod was stored

UnbornPod == [phase |-> "unborn", of |-> None, injected |-> FALSE, covered |-> FALSE]

ClusterTypeOK ==
  /\ deps \in SUBSET Deployments
  /\ ann \in [Deployments -> Annotations]
  /\ pod \in [Pods -> PodStates]
  /\ \A p \in Pods : pod[p].phase = "running" => pod[p].of \in Deployments

ClusterInit ==
  /\ deps = Deployments \ Late
  /\ ann = [d \in Deployments |-> NoAnnotations]
  /\ pod = [p \in Pods |-> UnbornPod]

HasPolicy(d) == ann[d].policy # None

\* What a List of the Deployment's Pods returns: terminating Pods included.
PodsOf(d) == {p \in Pods : pod[p].of = d /\ pod[p].phase \in {"running", "terminating"}}

Running(d) == {p \in PodsOf(d) : pod[p].phase = "running"}

-----------------------------------------------------------------------------
(* JSON patches.  CreatePatch diffs the Deployment as it was listed (seen) *)
(* with the edited copy; the API server applies the difference to the      *)
(* annotations a the Deployment has by then, whatever its resourceVersion. *)

\* No annotations were seen: the patch adds the whole map, over whatever is
\* there.  Otherwise it adds each key, which needs a map to add it to.
AddPolicyApplies(seen, a) == seen = NoAnnotations \/ a # NoAnnotations

AddPolicy(seen, a, policy) ==
  IF seen = NoAnnotations
  THEN [foreign |-> FALSE, policy |-> policy]
  ELSE [a EXCEPT !.policy = policy]

\* Only policy keys were seen: the copy's map is empty, is omitted from the
\* JSON, and the patch removes the whole map.  Otherwise the patch removes
\* each key; removing what is not there is an error.
RemovePolicyApplies(seen, a) ==
  IF seen.foreign THEN a.policy # None ELSE a # NoAnnotations

RemovePolicy(seen, a) ==
  IF seen.foreign THEN [a EXCEPT !.policy = None] ELSE NoAnnotations

-----------------------------------------------------------------------------
(* The environment. *)

CreateDeployment(d) ==
  /\ d \notin deps
  /\ deps' = deps \cup {d}
  /\ UNCHANGED <<ann, pod>>

\* The Deployment controller writes its revision annotation.
SetRevision(d) ==
  /\ d \in deps
  /\ ~ann[d].foreign
  /\ ann' = [ann EXCEPT ![d].foreign = TRUE]
  /\ UNCHANGED <<deps, pod>>

\* The ReplicaSet controller creates a Pod.  Whether the admission webhook
\* injects the sidecar is left open here; what it goes by are the annotations
\* it read at some earlier moment, not those of `covered'.
CreatePod(p, d) ==
  /\ d \in deps
  /\ pod[p].phase = "unborn"
  /\ Cardinality(Running(d)) < Replicas
  /\ \E injected \in BOOLEAN :
       pod' = [pod EXCEPT ![p] = [phase |-> "running", of |-> d,
                                  injected |-> injected, covered |-> HasPolicy(d)]]
  /\ UNCHANGED <<deps, ann>>

\* A Pod is deleted by somebody else: an eviction, a drain, a scale-down.
EvictPod(p) ==
  /\ pod[p].phase = "running"
  /\ pod' = [pod EXCEPT ![p].phase = "terminating"]
  /\ UNCHANGED <<deps, ann>>

\* The grace period ends.
RemovePod(p) ==
  /\ pod[p].phase = "terminating"
  /\ pod' = [pod EXCEPT ![p].phase = "gone"]
  /\ UNCHANGED <<deps, ann>>

ClusterNext ==
  \/ \E d \in Deployments : CreateDeployment(d) \/ SetRevision(d)
  \/ \E p \in Pods : EvictPod(p) \/ RemovePod(p)
  \/ \E p \in Pods, d \in Deployments : CreatePod(p, d)
=============================================================================
