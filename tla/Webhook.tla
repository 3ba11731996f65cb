------------------------------- MODULE Webhook -------------------------------
(***************************************************************************)
(* The admission webhook (webhook/webhook.go).  The API server asks it     *)
(* about every Pod before the Pod is stored, and it adds the sidecar or    *)
(* not.  To find out to which Deployment the new Pod belongs it lists the  *)
(* stored Pods with the same labels, then the Deployments, then the Pods   *)
(* of each annotated Deployment, while the controller puts policies on and *)
(* takes them off, Deployments are rolled out, Pods come and go, and other *)
(* Pods are being admitted.  One step is one call to the API server.       *)
(*                                                                         *)
(* Cluster creates a Pod in one step that leaves open whether it gets the  *)
(* sidecar; here this is what admission decides.                           *)
(***************************************************************************)
EXTENDS Cluster

CONSTANTS Templates,    \* the Pod templates of the Deployments' ReplicaSets
          TemplatesOf,  \* those of each Deployment
          LabelsOf,     \* the labels of each template
          Selector,     \* the labels each Deployment selects its Pods by
          Asking,       \* templates that ask for the sidecar by annotation
          Ignored,      \* ignoredNamespaces
          MaxFaults     \* bound: failed calls and timeouts

ASSUME WebhookAssumption ==
  /\ \A d \in Deployments : TemplatesOf[d] \in (SUBSET Templates) \ {{}}
  /\ Asking \in SUBSET Templates
  /\ Ignored \in SUBSET Namespaces
  /\ MaxFaults \in Nat
  /\ IsFiniteSet(Pods)
  /\ None \notin Templates \cup Pods

VARIABLES template,   \* the template of each Deployment now
          adm,        \* the admission of each Pod
          view,       \* history: what could be seen during the admission
          faults      \* faults so far

vars == <<clusterVars, template, adm, view, faults>>

\* pc is the next call to be made; required, siblings (pods.Items), sibling
\* (p) and dps (dps.Items) are the variables of mutationRequired.
Frames ==
  [pc       : {"unborn", "siblings", "deployments", "pods", "answer", "stored"},
   of       : Deployments \cup {None},
   template : Templates \cup {None},
   required : BOOLEAN,
   siblings : SUBSET Pods,
   sibling  : Pods \cup {None},
   dps      : SUBSET Deployments,
   calm     : BOOLEAN]   \* history: no call has failed, no timeout

Unborn == [pc |-> "unborn", of |-> None, template |-> None, required |-> FALSE,
           siblings |-> {}, sibling |-> None, dps |-> {}, calm |-> TRUE]

\* Pairs of a stored Pod and a Deployment tell the webhook to inject: whether
\* there was one at some moment of the admission, those that were there all
\* the time, and whether the Pod's own Deployment had a policy all the time.
Views == [ever : BOOLEAN, always : SUBSET (Pods \X Deployments), covered : BOOLEAN]

Unseen == [ever |-> FALSE, always |-> Pods \X Deployments, covered |-> TRUE]

Pending == {p \in Pods : adm[p].pc \notin {"unborn", "stored"}}

PendingOf(d) == {p \in Pending : adm[p].of = d}

\* What a List of the Pods of a namespace by labels returns.
Stored(ns, labels) ==
  {p \in Pods : /\ pod[p].phase \in {"running", "terminating"}
                /\ NsOf[adm[p].of] = ns
                /\ labels \subseteq LabelsOf[adm[p].template]}

\* setSelector: the stored Pods with all of the labels of p.
Siblings(p) == Stored(NsOf[adm[p].of], LabelsOf[adm[p].template])

\* setPodSelector: the stored Pods of Deployment d.
Selected(d) == Stored(NsOf[d], Selector[d])

\* The Deployments of a namespace that have the inject annotation.
Annotated(ns) == {d \in deps : NsOf[d] = ns /\ HasPolicy(d)}

Telling(p) ==
  UNION {(Siblings(p) \cap Selected(d)) \X {d} : d \in Annotated(NsOf[adm[p].of])}

Init ==
  /\ ClusterInit
  /\ template \in [Deployments -> Templates]
  /\ \A d \in Deployments : template[d] \in TemplatesOf[d]
  /\ adm = [p \in Pods |-> Unborn]
  /\ view = [p \in Pods |-> Unseen]
  /\ faults = 0

-----------------------------------------------------------------------------
(* Everybody else. *)

\* The controller patches a Deployment.
PutPolicy(d) ==
  /\ d \in deps /\ ~HasPolicy(d)
  /\ \E policy \in Policies : ann' = [ann EXCEPT ![d].policy = policy]
  /\ UNCHANGED <<deps, pod, template, adm, faults>>

TakePolicy(d) ==
  /\ HasPolicy(d)
  /\ ann' = [ann EXCEPT ![d].policy = None]
  /\ UNCHANGED <<deps, pod, template, adm, faults>>

\* A user changes the template of a Deployment.
Rollout(d) ==
  /\ d \in deps
  /\ \E t \in TemplatesOf[d] \ {template[d]} : template' = [template EXCEPT ![d] = t]
  /\ UNCHANGED <<clusterVars, adm, faults>>

\* To the webhook a Deployment that is not yet created is like one nobody has
\* done anything with, and the annotations of others do not matter.
Others ==
  \/ \E d \in Deployments : PutPolicy(d) \/ TakePolicy(d) \/ Rollout(d)
  \/ /\ \E p \in Pods : EvictPod(p) \/ RemovePod(p)
     /\ UNCHANGED <<template, adm, faults>>

-----------------------------------------------------------------------------
(* mutationRequired and mutate *)

Step(p, frame) ==
  /\ adm' = [adm EXCEPT ![p] = frame]
  /\ UNCHANGED <<clusterVars, template, faults>>

\* A call fails, and the handler goes on with the frame.
Fail(p, frame) ==
  /\ faults < MaxFaults
  /\ faults' = faults + 1
  /\ adm' = [adm EXCEPT ![p] = [frame EXCEPT !.calm = FALSE]]
  /\ UNCHANGED <<clusterVars, template>>

\* The ReplicaSet controller asks for a Pod.  Special namespaces are skipped;
\* a template may ask for the sidecar itself.
Admit(p, d) ==
  /\ d \in deps
  /\ adm[p].pc = "unborn"
  /\ Cardinality(Running(d)) + Cardinality(PendingOf(d)) < Replicas
  /\ Step(p, [Unborn EXCEPT !.pc = IF NsOf[d] \in Ignored THEN "answer" ELSE "siblings",
                            !.of = d, !.template = template[d],
                            !.required = NsOf[d] \notin Ignored /\ template[d] \in Asking])

\* Mutant: only a match ends the loop.
NextSiblingAlways(frame) ==
  [frame EXCEPT !.pc = IF frame.required THEN "answer" ELSE "deployments",
                !.sibling = None, !.dps = {}]

\* The loop over the siblings goes on, or mutationRequired returns.
NextSibling(frame) ==
  [frame EXCEPT !.pc = IF frame.required \/ frame.siblings = {} THEN "answer" ELSE "deployments",
                !.sibling = None, !.dps = {}]

\* The loop over the Deployments goes on, or the one over the siblings does.
NextDeployment(frame) ==
  IF frame.dps = {} THEN NextSibling(frame) ELSE [frame EXCEPT !.pc = "pods"]

\* After an error the list is empty.
ListSiblings(p) ==
  LET Listed(found) == [adm[p] EXCEPT !.siblings = found,
                                      !.pc = IF found = {} THEN "answer" ELSE "deployments"]
  IN /\ adm[p].pc = "siblings"
     /\ Step(p, Listed(Siblings(p))) \/ Fail(p, Listed({}))

\* An error ends mutationRequired.
ListDeployments(p, q) ==
  /\ adm[p].pc = "deployments"
  /\ q \in adm[p].siblings
  /\ \/ Step(p, NextDeployment([adm[p] EXCEPT !.sibling = q, !.siblings = @ \ {q},
                                              !.dps = Annotated(NsOf[adm[p].of])]))
     \/ Fail(p, [adm[p] EXCEPT !.pc = "answer"])

\* Mutant: the Deployment has Pods, whichever they are.
QualifiesAny(p, d) == Selected(d) # {}

\* One of the Deployment's Pods is the sibling.
Qualifies(p, d) == adm[p].sibling \in Selected(d)

\* Mutant: the first annotated Deployment decides.
AfterPodsFirst(p, d, found) ==
  NextSibling([adm[p] EXCEPT !.required = @ \/ found, !.dps = {}])

\* Both loops end once it is known that the sidecar is required.
AfterPods(p, d, found) ==
  IF found \/ adm[p].required
  THEN NextSibling([adm[p] EXCEPT !.required = TRUE])
  ELSE NextDeployment([adm[p] EXCEPT !.dps = @ \ {d}])

\* An error goes on with the next Deployment.
ListPods(p, d) ==
  /\ adm[p].pc = "pods"
  /\ d \in adm[p].dps
  /\ \/ Step(p, AfterPods(p, d, Qualifies(p, d)))
     \/ Fail(p, NextDeployment([adm[p] EXCEPT !.dps = @ \ {d}]))

\* What is left of the admission once the Pod is stored; `covered' is about this
\* moment, not about when the Deployments were listed.
Store(p, injected) ==
  /\ adm' = [adm EXCEPT ![p] = [Unborn EXCEPT !.pc = "stored", !.of = adm[p].of,
                                               !.template = adm[p].template]]
  /\ pod' = [pod EXCEPT ![p] = [phase |-> "running", of |-> adm[p].of,
                                injected |-> injected, covered |-> HasPolicy(adm[p].of)]]
  /\ UNCHANGED <<deps, ann, template>>

\* The answer has a patch with the sidecar if it is required, and the API
\* server stores the patched Pod.
Answer(p) ==
  /\ adm[p].pc = "answer"
  /\ Store(p, adm[p].required)
  /\ UNCHANGED faults

\* No answer comes in time: the Pod is stored as it is (failurePolicy Ignore).
TimeOut(p) ==
  /\ p \in Pending
  /\ faults < MaxFaults
  /\ faults' = faults + 1
  /\ Store(p, FALSE)

Handle(p) ==
  \/ \E d \in Deployments : Admit(p, d)
  \/ ListSiblings(p)
  \/ \E q \in adm[p].siblings : ListDeployments(p, q)
  \/ \E d \in adm[p].dps : ListPods(p, d)
  \/ Answer(p)
  \/ TimeOut(p)

\* While Pod p is being admitted its view is what the cluster shows.
Seen(p) ==
  [ever    |-> view[p].ever \/ Telling(p)' # {},
   always  |-> view[p].always \cap Telling(p)',
   covered |-> view[p].covered /\ HasPolicy(adm[p].of)']

Next ==
  /\ Others \/ \E p \in Pods : Handle(p)
  /\ view' = [p \in Pods |-> IF p \in Pending' THEN Seen(p) ELSE Unseen]

Spec == Init /\ [][Next]_vars

-----------------------------------------------------------------------------
(* Properties. *)

\* The types of the variables.  Exactly the Pods that went through admission
\* are stored, and a handler in one of its loops has something left to look
\* at, so that it gets to its end (webhook.go:147-195).
TypeOK ==
  /\ ClusterTypeOK
  /\ template \in [Deployments -> Templates]
  /\ adm \in [Pods -> Frames]
  /\ view \in [Pods -> Views]
  /\ faults \in Nat
  /\ \A p \in Pods :
       /\ adm[p].pc # "unborn" => adm[p].of \in Deployments /\ adm[p].template \in Templates
       /\ adm[p].pc = "stored" <=> pod[p].phase # "unborn"
       /\ adm[p].pc = "deployments" => adm[p].siblings # {}
       /\ adm[p].pc = "pods" => adm[p].dps # {} /\ adm[p].sibling \in Pods

\* The webhook reads the siblings, the Deployments and their Pods at three
\* moments.  Still, a Pod that gets the sidecar and did not ask for it is one
\* that had, at one and the same moment of its admission, a stored sibling
\* that an annotated Deployment selected (webhook.go:137-191).
InjectedForReason ==
  [][\A p \in Pods : pod'[p].injected /\ ~pod[p].injected =>
        adm[p].template \in Asking \/ view[p].ever]_vars

\* The webhook answers for Pod p, no call has failed, and the namespace is
\* not one of those that are left alone.
Answered(p) ==
  /\ p \in Pending \ Pending'
  /\ adm[p].calm /\ faults' = faults
  /\ NsOf[adm[p].of] \notin Ignored

\* A Pod with a sibling that an annotated Deployment selects all the time of
\* the admission gets the sidecar if no call fails, whatever else the two
\* loops come across, and so does one that asks for it (webhook.go:124-195).
NotMissed ==
  [][\A p \in Pods : Answered(p) /\ (adm[p].template \in Asking \/ view[p].always # {})
        => pod'[p].injected]_vars

\* "A sidecar will be injected to all the matching pods" (Readme.md:32): a
\* Pod whose Deployment has a policy during the whole admission gets it.
AllMatchingInjected ==
  [][\A p \in Pods : Answered(p) /\ view[p].covered => pod'[p].injected]_vars
=============================================================================
