------------------------------ MODULE Quarantine ------------------------------
(***************************************************************************)
(* The endpoint's POST /action (takeAction, logger/endpoint/endpoint.go):  *)
(* given the name of a Pod, scale the Deployments similar to it to zero.   *)
(* Every request runs in a goroutine of its own, and what it does to a     *)
(* Deployment is a Get followed by an Update of the whole object, so it    *)
(* meets other requests and everybody else who writes Deployments.  One    *)
(* step is one call to the API server with the local work after it.        *)
(***************************************************************************)
EXTENDS Integers

CONSTANTS Deployments,   \* the Deployments of all namespaces
          Position,      \* their places in what the API server lists
          Pods,          \* the Pods of all namespaces
          NameOf,        \* the name of each Pod: namespaces may repeat one
          Namespace,     \* the namespace of each Deployment and each Pod
          LabelsOf,      \* the labels of each Deployment and Pod: key -> value
          Selects,       \* the Pods each Deployment's selector matches
          Policies,      \* what the annotations may say: [action, group]
          NoPolicy,      \* no annotations
          MaxReplicas,   \* bound: the replicas others ask for
          Requests,      \* the requests
          MaxWrites,     \* bound: writes of others
          MaxFaults,     \* bound: failed calls
          None           \* no value

Keys == UNION {DOMAIN LabelsOf[x] : x \in Deployments \cup Pods}

ASSUME QuarantineAssumption ==
  /\ Position \in [Deployments -> Nat]
  /\ NameOf \in [Pods -> STRING]
  /\ \A p \in Policies \cup {NoPolicy} : p.group \in SUBSET Keys
  /\ NoPolicy.action = "" /\ NoPolicy.group = {}
  /\ MaxReplicas \in Nat /\ MaxWrites \in Nat /\ MaxFaults \in Nat
  /\ None \notin Deployments \cup Pods

VARIABLES dep,      \* the Deployments in the API server
          alive,    \* the Pods there are
          req,      \* what each request is doing
          writes,   \* writes of others so far
          faults    \* failed calls so far

vars == <<dep, alive, req, writes, faults>>

\* A Deployment: rest stands for everything but its replicas and annotations.
\* One that is deleted keeps what it had.
DepObjects ==
  [live : BOOLEAN, rv : Nat, replicas : Nat,
   policy : Policies \cup {NoPolicy}, rest : Nat]

ASSUME NoneAssumption == None \notin DepObjects

\* dps.Items: a Deployment as it was listed.
Items == [name : Deployments, policy : Policies \cup {NoPolicy}]

Frames ==
  [pc      : {"new", "list", "pods", "targets", "get", "update", "answered"},
   name    : STRING \cup {None},
   dps     : SUBSET Items,                \* dps.Items that are left
   pod     : Pods \cup {None},
   group   : SUBSET Keys,                 \* labels, the keys to compare
   targets : SUBSET Deployments,          \* targetDps.Items that are left
   target  : Deployments \cup {None},     \* targetDp
   got     : DepObjects \cup {None},      \* result
   resp    : SUBSET Deployments,
   calm    : BOOLEAN]  \* history: nobody else has written and no call has failed

NewFrame == [pc |-> "new", name |-> None, dps |-> {}, pod |-> None, group |-> {},
             targets |-> {}, target |-> None, got |-> None, resp |-> {}, calm |-> TRUE]

Init ==
  /\ \E policy \in [Deployments -> Policies \cup {NoPolicy}] :
       dep = [d \in Deployments |->
                [live |-> TRUE, rv |-> 0, replicas |-> MaxReplicas,
                 policy |-> policy[d], rest |-> 0]]
  /\ alive = Pods
  /\ req = [r \in Requests |-> NewFrame]
  /\ writes = 0
  /\ faults = 0

Existing == {d \in Deployments : dep[d].live}

\* The members of S that the API server lists before the others.
First(S) == {d \in S : \A e \in S : Position[d] <= Position[e]}

-----------------------------------------------------------------------------
(* Everybody else. *)

Disturbed == [r \in Requests |-> [req[r] EXCEPT !.calm = FALSE]]

\* A user, an autoscaler, the controller of this repository or one of the
\* cluster's writes Deployment d.
Write(d, object) ==
  /\ writes < MaxWrites
  /\ writes' = writes + 1
  /\ dep[d].live
  /\ object # dep[d]
  /\ dep' = [dep EXCEPT ![d] = [object EXCEPT !.rv = @ + 1]]
  /\ req' = Disturbed
  /\ UNCHANGED <<alive, faults>>

Scale(d) == Write(d, [dep[d] EXCEPT !.replicas = MaxReplicas])

Edit(d) == Write(d, [dep[d] EXCEPT !.rest = @ + 1])

SetPolicy(d) ==
  \E p \in Policies \cup {NoPolicy} : Write(d, [dep[d] EXCEPT !.policy = p])

DeleteDeployment(d) == Write(d, [dep[d] EXCEPT !.live = FALSE])

\* A Pod ends.  (A new one has another name, which no request asks for yet.)
EndPod(p) ==
  /\ p \in alive
  /\ alive' = alive \ {p}
  /\ UNCHANGED <<dep, req, writes, faults>>

Others ==
  \/ \E d \in Deployments : Scale(d) \/ Edit(d) \/ SetPolicy(d) \/ DeleteDeployment(d)
  \/ \E p \in Pods : EndPod(p)

-----------------------------------------------------------------------------
(* takeAction *)

Step(r, frame) ==
  /\ req' = [req EXCEPT ![r] = frame]
  /\ UNCHANGED <<dep, alive, writes, faults>>

\* A call fails, and the request goes on with the frame.
Fail(r, frame) ==
  /\ faults < MaxFaults
  /\ faults' = faults + 1
  /\ req' = [req EXCEPT ![r] = [frame EXCEPT !.calm = FALSE]]
  /\ UNCHANGED <<dep, alive, writes>>

Answer(frame) == [frame EXCEPT !.pc = "answered"]

Ask(r, name) ==
  /\ req[r].pc = "new"
  /\ Step(r, [req[r] EXCEPT !.pc = "list", !.name = name, !.calm = TRUE])

\* The next Deployment is searched for the Pod, or there is none left.
SearchFrom(frame, dps) ==
  [frame EXCEPT !.dps = dps, !.pc = IF dps = {} THEN "answered" ELSE "pods"]

\* An error is logged, and the list that comes with it is empty.
ListDeployments(r) ==
  /\ req[r].pc = "list"
  /\ \/ Step(r, SearchFrom(req[r], {[name |-> d, policy |-> dep[d].policy] : d \in Existing}))
     \/ Fail(r, SearchFrom(req[r], {}))

\* The Pods of all namespaces that the selector matches are searched.
Found(r, d) == {p \in alive \cap Selects[d] : NameOf[p] = req[r].name}

ActionOf(policy) == IF policy.action = "" THEN "quarantine" ELSE policy.action

GroupOf(policy, p) == IF policy.group = {} THEN DOMAIN LabelsOf[p] ELSE policy.group

\* The first Deployment with a Pod of that name decides by its annotations.
ListPods(r, dp) ==
  /\ req[r].pc = "pods"
  /\ dp.name \in First({other.name : other \in req[r].dps})
  /\ \/ Found(r, dp.name) = {} /\ Step(r, SearchFrom(req[r], req[r].dps \ {dp}))
     \/ \E p \in Found(r, dp.name) :
          \/ /\ ActionOf(dp.policy) = "quarantine"
             /\ Step(r, [req[r] EXCEPT !.pc = "targets", !.pod = p,
                                       !.group = GroupOf(dp.policy, p)])
          \/ ActionOf(dp.policy) # "quarantine" /\ Step(r, Answer(req[r]))
     \/ Fail(r, SearchFrom(req[r], req[r].dps \ {dp}))

\* Mutant: one label in common is enough.
SelectedByOne(p, group, d) ==
  /\ Namespace[d] = Namespace[p]
  /\ \E k \in group \cap DOMAIN LabelsOf[p] \cap DOMAIN LabelsOf[d] :
       LabelsOf[d][k] = LabelsOf[p][k]

\* The label selector made of those keys of the group that the Pod has: with
\* none of them it is empty, and selects everything in the Pod's namespace.
SelectedBy(p, group, d) ==
  /\ Namespace[d] = Namespace[p]
  /\ \A k \in group \cap DOMAIN LabelsOf[p] :
       k \in DOMAIN LabelsOf[d] /\ LabelsOf[d][k] = LabelsOf[p][k]

\* The next target is scaled down, or the answer is sent.
TargetFrom(frame, targets) ==
  [frame EXCEPT !.targets = targets, !.target = None, !.got = None,
                !.pc = IF targets = {} THEN "answered" ELSE "get"]

ListTargets(r) ==
  /\ req[r].pc = "targets"
  /\ \/ Step(r, TargetFrom(req[r], {d \in Existing : SelectedBy(req[r].pod, req[r].group, d)}))
     \/ Fail(r, TargetFrom(req[r], {}))

\* Get: after an error the result is an empty object.
GetTarget(r, d) ==
  /\ req[r].pc = "get"
  /\ d \in First(req[r].targets)
  /\ LET Got(object) == [req[r] EXCEPT !.pc = "update", !.target = d, !.got = object]
     IN \/ dep[d].live /\ Step(r, Got(dep[d]))
        \/ ~dep[d].live /\ Step(r, Got(None))
        \/ Fail(r, Got(None))

\* Mutant: the object is sent without its resourceVersion.
FreshAlways(r) == req[r].got # None /\ dep[req[r].target].live

\* The API server takes the object only if nobody has written it since.
Fresh(r) ==
  /\ req[r].got # None
  /\ dep[req[r].target].live
  /\ dep[req[r].target].rv = req[r].got.rv

\* A write that changes nothing is not one.
ScaledDown(object) == IF object.replicas = 0 THEN object
                      ELSE [object EXCEPT !.replicas = 0, !.rv = @ + 1]

Reported(r) == [req[r] EXCEPT !.resp = @ \cup {req[r].target}]

\* Mutant: the first conflict ends the loop.
ReportUntilConflict(r) ==
  TargetFrom(Reported(r), IF Fresh(r) THEN req[r].targets \ {req[r].target} ELSE {})

\* Mutant: a conflict is retried until the Update succeeds.
ReportOrRetry(r) ==
  IF Fresh(r) THEN TargetFrom(Reported(r), req[r].targets \ {req[r].target})
              ELSE TargetFrom(req[r], req[r].targets)

\* Mutant: the name of the result is appended, which is empty after an error.
ReportResult(r) ==
  TargetFrom([req[r] EXCEPT !.resp = @ \cup {IF req[r].got = None THEN "" ELSE req[r].target}],
             req[r].targets \ {req[r].target})

\* The name is put in the answer whatever came of the Update.
Report(r) == TargetFrom(Reported(r), req[r].targets \ {req[r].target})

\* The Update, which may take effect although its answer is lost.
UpdateTarget(r) ==
  /\ req[r].pc = "update"
  /\ \/ /\ Fresh(r)
        /\ dep' = [dep EXCEPT ![req[r].target] = ScaledDown(req[r].got)]
        /\ \/ req' = [req EXCEPT ![r] = Report(r)] /\ UNCHANGED faults
           \/ /\ faults < MaxFaults /\ faults' = faults + 1
              /\ req' = [req EXCEPT ![r] = [Report(r) EXCEPT !.calm = FALSE]]
        /\ UNCHANGED <<alive, writes>>
     \/ ~Fresh(r) /\ Step(r, Report(r))
     \/ Fail(r, Report(r))

Handle(r) ==
  \/ ListDeployments(r)
  \/ \E dp \in req[r].dps : ListPods(r, dp)
  \/ ListTargets(r)
  \/ \E d \in req[r].targets : GetTarget(r, d)
  \/ UpdateTarget(r)

Next ==
  \/ \E r \in Requests : Handle(r)
  \/ \E r \in Requests, p \in Pods : Ask(r, NameOf[p])
  \/ Others

Spec == Init /\ [][Next]_vars

\* Every request has its goroutine, and every call is answered in the end.
FairSpec == Spec /\ \A r \in Requests : WF_vars(Handle(r))

-----------------------------------------------------------------------------
(* Properties. *)

\* The types of the variables.  A request has got a target of its list when it
\* updates it, and knows the Pod by then (endpoint.go:180-198).
TypeOK ==
  /\ dep \in [Deployments -> DepObjects]
  /\ alive \in SUBSET Pods
  /\ req \in [Requests -> Frames]
  /\ writes \in Nat
  /\ faults \in Nat
  /\ \A r \in Requests :
       /\ req[r].pc \in {"targets", "get", "update"} => req[r].pod # None
       /\ req[r].pc = "update" <=> req[r].target # None
       /\ req[r].target # None => req[r].target \in req[r].targets

\* A request that read a Deployment before somebody else wrote it does not
\* undo what was written: of all that is stored requests change nothing but
\* the number of replicas, although each sends back a whole object it got in
\* an earlier call (endpoint.go:184-192).
NoLostWrite ==
  [][writes' = writes => \A d \in Deployments :
        dep'[d] # dep[d] => /\ dep'[d].replicas = 0
                            /\ dep'[d] = ScaledDown(dep[d])]_vars

\* The Deployments a Pod's group label is about.
Similar(p, group) == {d \in Deployments : dep[d].live /\ SelectedBy(p, group, d)}

\* What a request for a name has to have done if Deployment d decides on Pod p.
Done(r, p, d) ==
  /\ NameOf[p] = req[r].name
  /\ dep[d].live /\ p \in Selects[d]
  /\ req[r].resp = IF ActionOf(dep[d].policy) = "quarantine"
                   THEN Similar(p, GroupOf(dep[d].policy, p))
                   ELSE {}

\* Concurrent requests do not get in each other's way: if nobody else has
\* written a Deployment and no call of the request has failed, then a request
\* for a Pod that still runs is answered with all the Deployments its group
\* label selects, and every one of them is at zero, whoever of the requests
\* won the race for it (endpoint.go:116-209).
AnsweredMeansDown ==
  \A r \in Requests : req[r].pc = "answered" /\ req[r].calm =>
    /\ \A d \in req[r].resp : dep[d].replicas = 0
    /\ \A p \in alive, d \in Deployments :
         NameOf[p] = req[r].name /\ dep[d].live /\ p \in Selects[d] =>
           \E q \in Pods, o \in Deployments : Done(r, q, o)

\* The request of a frame may scale Deployment d down: it has found a Pod of the
\* name asked for, the labels it compares are those of a policy that
\* quarantines, and d has them as the Pod has, in the Pod's namespace.
MayScale(frame, d) ==
  LET p == frame.pod
      Tells(policy) == ActionOf(policy) = "quarantine" /\ frame.group = GroupOf(policy, p)
  IN /\ p # None /\ NameOf[p] = frame.name
     /\ \E o \in Deployments : p \in Selects[o]
     /\ \E policy \in Policies \cup {NoPolicy} : Tells(policy)
     /\ Namespace[d] = Namespace[p]
     /\ \A k \in frame.group \cap DOMAIN LabelsOf[p] :
          k \in DOMAIN LabelsOf[d] /\ LabelsOf[d][k] = LabelsOf[p][k]

\* No Deployment is scaled down or reported that the request was not about,
\* whatever fails, ends or is written between the lists, the Get and the Update:
\* an error leaves nothing behind in a list or an object that the loops go on
\* with (endpoint.go:116-198).
OnlySimilarTouched ==
  [][/\ writes' = writes => \A d \in Deployments : dep'[d] # dep[d] =>
          \E r \in Requests : req[r].target = d /\ MayScale(req[r], d)
     /\ \A r \in Requests : \A d \in req'[r].resp \ req[r].resp : MayScale(req[r], d)]_vars

\* Every request is answered, whatever fails, conflicts or is deleted
\* meanwhile (endpoint.go:93-210).
GetsAnswer ==
  \A r \in Requests : req[r].pc = "list" ~> req[r].pc = "answered"

\* "similar pods (specified by groupLabel)" (endpoint.go:150): a Deployment
\* that is scaled to zero is the Pod's own, or has one of the group's labels in
\* common with it.
SimilarOnly ==
  \A r \in Requests : \A d \in req[r].resp :
    dep[d].replicas = 0 =>
      \/ req[r].pod \in Selects[d]
      \/ \E k \in req[r].group \cap DOMAIN LabelsOf[req[r].pod] \cap DOMAIN LabelsOf[d] :
           LabelsOf[d][k] = LabelsOf[req[r].pod][k]

\* "send back the list of pods which have been quarantined" (endpoint.go:205):
\* a Deployment that is put in the answer is at zero then, or gone.
AnswerTrue ==
  [][\A r \in Requests : \A d \in req'[r].resp \ req[r].resp :
        dep'[d].live => dep'[d].replicas = 0]_vars
=============================================================================
