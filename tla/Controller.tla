----------------------------- MODULE Controller -----------------------------
(***************************************************************************)
(* The custom resource controller (CustomResource/main.go, controller.go,  *)
(* handler.go).  Two goroutines share the API server's objects:            *)
(*                                                                         *)
(*   listener  the informer's notification loop.  It calls AddFunc,        *)
(*             UpdateFunc and DeleteFunc, one notification at a time, and  *)
(*             runs ObjectDeleted to its end inside DeleteFunc;            *)
(*   worker    runWorker.  It takes keys from the work queue and runs      *)
(*             ObjectCreated for the keys the informer's cache still has.  *)
(*                                                                         *)
(* A handler is a nest of loops over what the API server listed: the       *)
(* namespaces, their Deployments, a Deployment's Pods.  Each API call is   *)
(* one step and everything between two calls is local, so one step here is *)
(* one call with the local work that follows it.                           *)
(***************************************************************************)
EXTENDS Cluster, WorkQueue

CONSTANTS Receivers,    \* the keys of the custom resources
          Specs,        \* the specs a Receiver may have
          MaxVersion,   \* bound: versions the users write
          MaxFaults,    \* bound: failed API calls, crashes and relists
          WatchGaps     \* the watch may break and miss events

ASSUME ControllerAssumption ==
  /\ "default" \in Namespaces
  /\ Specs # {}
  /\ \A s \in Specs : /\ s.namespaces \in Seq(Namespaces \cup {""})
                      /\ s.selects \in SUBSET Deployments
                      /\ s.policy \in Policies
  /\ MaxVersion \in Nat
  /\ MaxFaults \in Nat
  /\ WatchGaps \in BOOLEAN
  /\ IsFiniteSet(Receivers)
  /\ None \notin Receivers \cup Specs

VARIABLES recv,       \* the Receivers in the API server
          version,    \* the last resourceVersion given out
          indexer,    \* the informer's cache
          notif,      \* the notifications the listener has not taken yet
          run,        \* what each goroutine is doing
          handled,    \* history: what the worker last read from the cache
          faults,     \* faults so far
          clean       \* history: no call found its object gone or failed, no crash

ctlVars == <<recv, version, indexer, notif, run, handled, faults, clean>>
vars == <<clusterVars, queueVars, ctlVars>>

\* A Receiver as the API server or the cache has it.  A deleted one keeps the
\* version and the spec it had.
Objects == [ver : Nat, live : BOOLEAN, spec : Specs]

Notifications ==
  [type : {"add", "update", "delete", "tombstone"}, key : Receivers, old : Objects, new : Objects]

Handlers == {"listener", "worker"}

\* dps.Items: the Deployments of one List call, with their annotations then.
Items == [name : Deployments, ann : Annotations]

\* The state of a goroutine.  nss, todo and victims are what is left of the
\* loops over namespaces, Deployments and Pods.
Frames ==
  [pc      : {"idle", "lookup", "loop", "pods"},
   key     : Receivers \cup {None},
   spec    : Specs \cup {None},
   nss     : Seq(Namespaces \cup {""}),
   todo    : SUBSET Items,
   target  : Deployments \cup {None},
   victims : SUBSET Pods]

Idle == [pc |-> "idle", key |-> None, spec |-> None, nss |-> <<>>,
         todo |-> {}, target |-> None, victims |-> {}]

Absent == [ver |-> 0, live |-> FALSE, spec |-> CHOOSE s \in Specs : TRUE]

\* What is left of an object that is deleted.
Gone(object) == [object EXCEPT !.live = FALSE]

\* Mutant: the namespace "default" is forgotten.
NoDefaultNamespace(spec) == spec.namespaces

\* The namespaces a handler iterates over.
NamespacesOf(spec) == IF spec.namespaces = <<>> THEN <<"default">> ELSE spec.namespaces

\* Mutant: the selector is not passed on.
ListedAll(spec, ns) ==
  {[name |-> d, ann |-> ann[d]] : d \in {x \in deps : NsOf[x] = ns}}

\* What List returns for the selector of a spec in one namespace.
Listed(spec, ns) ==
  {[name |-> d, ann |-> ann[d]] : d \in {x \in deps \cap spec.selects : NsOf[x] = ns}}

Init ==
  /\ ClusterInit
  /\ QueueInit
  /\ recv = [r \in Receivers |-> Absent]
  /\ version = 0
  /\ indexer = recv
  /\ handled = recv
  /\ notif = <<>>
  /\ run = [h \in Handlers |-> Idle]
  /\ faults = 0
  /\ clean = TRUE

-----------------------------------------------------------------------------
(* The users of the API server. *)

\* The cache has not caught up with Receiver r.
Behind(r) ==
  \/ recv[r].live # indexer[r].live
  \/ recv[r].live /\ recv[r].ver # indexer[r].ver

\* Events of one Receiver reach the cache one by one unless the watch breaks.
UserWrites(r, object) ==
  /\ WatchGaps \/ ~Behind(r)
  /\ recv' = [recv EXCEPT ![r] = object]
  /\ UNCHANGED <<clusterVars, queueVars, indexer, notif, run, handled, faults, clean>>

UserApplies(r, s) ==
  /\ version < MaxVersion
  /\ recv[r].live => recv[r].spec # s
  /\ version' = version + 1
  /\ UserWrites(r, [ver |-> version', live |-> TRUE, spec |-> s])

UserDeletes(r) ==
  /\ recv[r].live
  /\ UNCHANGED version
  /\ UserWrites(r, Gone(recv[r]))

-----------------------------------------------------------------------------
(* The informer: the cache is updated first, the listener told later. *)

Notify(type, r, old, new) ==
  notif' = Append(notif, [type |-> type, key |-> r, old |-> old, new |-> new])

\* A relist after a watch gap finds the object gone but not the event: the
\* notification carries a DeletedFinalStateUnknown instead of the object.
Observe(r) ==
  /\ Behind(r)
  /\ \/ recv[r].live /\ ~indexer[r].live /\ Notify("add", r, indexer[r], recv[r])
     \/ recv[r].live /\ indexer[r].live /\ Notify("update", r, indexer[r], recv[r])
     \/ /\ ~recv[r].live
        /\ recv[r].ver = indexer[r].ver
        /\ Notify("delete", r, indexer[r], recv[r])
     \/ ~recv[r].live /\ WatchGaps /\ Notify("tombstone", r, indexer[r], recv[r])
  /\ indexer' = [indexer EXCEPT ![r] = recv[r]]
  /\ UNCHANGED <<clusterVars, queueVars, recv, version, run, handled, faults, clean>>

\* A relist that finds nothing new is announced as an update all the same.
Relist(r) ==
  /\ WatchGaps
  /\ faults < MaxFaults
  /\ indexer[r].live
  /\ ~Behind(r)
  /\ Notify("update", r, indexer[r], indexer[r])
  /\ faults' = faults + 1
  /\ UNCHANGED <<clusterVars, queueVars, recv, version, indexer, run, handled, clean>>

\* The process dies and starts again: the cache is filled from a list of the
\* Receivers there are, and each of them is announced as added.
Restart ==
  /\ indexer' = recv
  /\ LET live == {r \in Receivers : recv[r].live}
         n    == Cardinality(live)
     IN \E order \in [1..n -> live] :
          /\ \A r \in live : \E i \in 1..n : order[i] = r
          /\ notif' = [i \in 1..n |-> [type |-> "add", key |-> order[i],
                                       old |-> Absent, new |-> recv[order[i]]]]
  /\ queue' = <<>>
  /\ dirty' = {}
  /\ processing' = {}
  /\ run' = [h \in Handlers |-> Idle]
  /\ handled' = [r \in Receivers |-> Gone(recv[r])]
  /\ clean' = FALSE
  /\ UNCHANGED <<clusterVars, recv, version>>

Crash ==
  /\ faults < MaxFaults
  /\ faults' = faults + 1
  /\ Restart

-----------------------------------------------------------------------------
(* The listener's callbacks. *)

Enter(h, k, spec) ==
  run' = [run EXCEPT ![h] = [Idle EXCEPT !.pc = "loop", !.key = k, !.spec = spec,
                                         !.nss = NamespacesOf(spec)]]

Take(type) ==
  /\ run["listener"].pc = "idle"
  /\ notif # <<>>
  /\ Head(notif).type = type
  /\ notif' = Tail(notif)

OnAdd ==
  /\ Take("add")
  /\ QueueAdd(Head(notif).key)
  /\ UNCHANGED <<clusterVars, recv, version, indexer, run, handled, faults, clean>>

OnUpdate ==
  /\ Take("update")
  /\ IF Head(notif).new.ver = Head(notif).old.ver
     THEN UNCHANGED queueVars
     ELSE QueueAdd(Head(notif).key)
  /\ UNCHANGED <<clusterVars, recv, version, indexer, run, handled, faults, clean>>

OnDelete ==
  /\ Take("delete")
  /\ Enter("listener", Head(notif).key, Head(notif).old.spec)
  /\ UNCHANGED <<clusterVars, queueVars, recv, version, indexer, handled, faults, clean>>

\* ObjectDeleted asserts that it is given a *v1alpha1.Receiver; it is not, and
\* the panic ends the process.
OnTombstone ==
  /\ run["listener"].pc = "idle"
  /\ notif # <<>>
  /\ Head(notif).type = "tombstone"
  /\ Restart
  /\ UNCHANGED faults

-----------------------------------------------------------------------------
(* The worker takes a key. *)

Get ==
  /\ run["worker"].pc = "idle"
  /\ queue # <<>>
  /\ QueueGet(Head(queue))
  /\ run' = [run EXCEPT !["worker"] = [Idle EXCEPT !.pc = "lookup", !.key = Head(queue)]]
  /\ UNCHANGED <<clusterVars, recv, version, indexer, notif, handled, faults, clean>>

\* GetByKey, and for a key that is gone Forget and Done.
Lookup ==
  LET k == run["worker"].key IN
  /\ run["worker"].pc = "lookup"
  /\ handled' = [handled EXCEPT ![k] = indexer[k]]
  /\ IF indexer[k].live
     THEN Enter("worker", k, indexer[k].spec) /\ UNCHANGED queueVars
     ELSE run' = [run EXCEPT !["worker"] = Idle] /\ QueueDone(k)
  /\ UNCHANGED <<clusterVars, recv, version, indexer, notif, faults, clean>>

-----------------------------------------------------------------------------
(* The loops of ObjectCreated (worker) and ObjectDeleted (listener). *)

\* Mutant: neither Done nor Add is called.
ReturnQuietly(h) == run' = [run EXCEPT ![h] = Idle] /\ UNCHANGED queueVars

\* The handler returns.  The worker is Done with its key whatever happened;
\* the listener queues the key of the deleted Receiver.
Return(h) ==
  /\ run' = [run EXCEPT ![h] = Idle]
  /\ IF h = "worker" THEN QueueDone(run[h].key) ELSE QueueAdd(run[h].key)

\* An API call fails, and the handler returns or goes on.
Fault ==
  /\ faults < MaxFaults
  /\ faults' = faults + 1
  /\ clean' = FALSE

\* The handler is between two Deployments, with none left of this namespace.
AtNamespace(h) ==
  run[h].pc = "loop" /\ run[h].victims = {} /\ run[h].todo = {}

\* The loop over the namespaces breaks at an empty string.
HasNamespace(h) == run[h].nss # <<>> /\ Head(run[h].nss) # ""

Finish(h) ==
  /\ AtNamespace(h)
  /\ ~HasNamespace(h)
  /\ Return(h)
  /\ UNCHANGED <<clusterVars, recv, version, indexer, notif, handled, faults, clean>>

\* Mutant: annotated Deployments are annotated again.
WorkForAll(h, items) == items

\* Mutant: Deployments with annotations of any kind are skipped.
WorkForBare(h, items) ==
  IF h = "worker" THEN {i \in items : i.ann = NoAnnotations} ELSE items

\* Deployments that have the policy's annotations already are skipped.
WorkFor(h, items) ==
  IF h = "worker" THEN {i \in items : i.ann.policy = None} ELSE items

ListDeployments(h) ==
  /\ AtNamespace(h)
  /\ HasNamespace(h)
  /\ \/ /\ run' = [run EXCEPT ![h].todo = WorkFor(h, Listed(run[h].spec, Head(run[h].nss))),
                              ![h].nss = Tail(@)]
        /\ UNCHANGED <<queueVars, faults, clean>>
     \/ Fault /\ Return(h)
  /\ UNCHANGED <<clusterVars, recv, version, indexer, notif, handled>>

\* The Deployment of item i has been patched: its Pods are next.
ToPods(h, i) ==
  run' = [run EXCEPT ![h].pc = "pods", ![h].target = i.name, ![h].todo = @ \ {i}]

\* A Patch call whose effect would be a: it succeeds, or fails and may have
\* taken effect before the answer was lost.
PatchTo(h, i, a) ==
  \/ /\ ann' = [ann EXCEPT ![i.name] = a]
     /\ ToPods(h, i)
     /\ UNCHANGED <<queueVars, faults, clean>>
  \/ /\ Fault
     /\ \/ UNCHANGED ann
        \/ ann' = [ann EXCEPT ![i.name] = a]
     /\ Return(h)

\* The API server cannot apply the patch to the annotations there are by now.
PatchRejected(h) ==
  /\ Return(h)
  /\ UNCHANGED <<ann, faults, clean>>

PatchCreated(i) ==
  LET now == ann[i.name] IN
  /\ run["worker"].pc = "loop" /\ run["worker"].victims = {}
  /\ i \in run["worker"].todo
  /\ IF AddPolicyApplies(i.ann, now)
     THEN PatchTo("worker", i, AddPolicy(i.ann, now, run["worker"].spec.policy))
     ELSE PatchRejected("worker")
  /\ UNCHANGED <<deps, pod, recv, version, indexer, notif, handled>>

\* The first Deployment that was listed without the annotations ends it all.
PatchDeleted(i) ==
  LET now == ann[i.name] IN
  /\ run["listener"].pc = "loop" /\ run["listener"].victims = {}
  /\ i \in run["listener"].todo
  /\ \/ /\ i.ann.policy = None
        /\ Return("listener")
        /\ UNCHANGED <<ann, faults, clean>>
     \/ /\ i.ann.policy # None
        /\ IF RemovePolicyApplies(i.ann, now)
           THEN PatchTo("listener", i, RemovePolicy(i.ann, now))
           ELSE PatchRejected("listener")
  /\ UNCHANGED <<deps, pod, recv, version, indexer, notif, handled>>

\* Mutant: the conditions of the two handlers are swapped.
ToRestartSwapped(h, p) == IF h = "worker" THEN pod[p].injected ELSE ~pod[p].injected

\* ObjectCreated restarts the Pods without the sidecar, ObjectDeleted the
\* Pods with it.
ToRestart(h, p) == IF h = "worker" THEN ~pod[p].injected ELSE pod[p].injected

\* An error is logged, and an empty list iterated over.
ListPods(h) ==
  /\ run[h].pc = "pods"
  /\ \E found \in {{p \in PodsOf(run[h].target) : ToRestart(h, p)}, {}} :
       /\ run' = [run EXCEPT ![h].pc = "loop", ![h].target = None, ![h].victims = found]
       /\ \/ /\ found = {p \in PodsOf(run[h].target) : ToRestart(h, p)}
             /\ UNCHANGED <<faults, clean>>
          \/ found = {} /\ Fault
  /\ UNCHANGED <<clusterVars, queueVars, recv, version, indexer, notif, handled>>

Terminate(p) == pod' = [pod EXCEPT ![p].phase = "terminating"]

\* A Pod that is gone since it was listed is an error like any other, and an
\* error ends the handler.
DeletePod(h, p) ==
  /\ run[h].pc = "loop"
  /\ p \in run[h].victims
  /\ \/ /\ pod[p].phase # "gone"
        /\ Terminate(p)
        /\ run' = [run EXCEPT ![h].victims = @ \ {p}]
        /\ UNCHANGED <<queueVars, faults, clean>>
     \/ /\ pod[p].phase = "gone"
        /\ clean' = FALSE
        /\ Return(h)
        /\ UNCHANGED <<pod, faults>>
     \/ /\ Fault
        /\ UNCHANGED pod \/ (pod[p].phase # "gone" /\ Terminate(p))
        /\ Return(h)
  /\ UNCHANGED <<deps, ann, recv, version, indexer, notif, handled>>

-----------------------------------------------------------------------------

HandlerStep(h) ==
  \/ Finish(h)
  \/ ListDeployments(h)
  \/ ListPods(h)
  \/ \E p \in run[h].victims : DeletePod(h, p)

WorkerStep ==
  \/ Get
  \/ Lookup
  \/ HandlerStep("worker")
  \/ \E i \in run["worker"].todo : PatchCreated(i)

ListenerStep ==
  \/ OnAdd \/ OnUpdate \/ OnDelete \/ OnTombstone
  \/ HandlerStep("listener")
  \/ \E i \in run["listener"].todo : PatchDeleted(i)

Environment ==
  \/ ClusterNext /\ UNCHANGED <<queueVars, ctlVars>>
  \/ \E r \in Receivers, s \in Specs : UserApplies(r, s)
  \/ \E r \in Receivers : UserDeletes(r) \/ Relist(r)
  \/ Crash

Next ==
  \/ WorkerStep
  \/ ListenerStep
  \/ \E r \in Receivers : Observe(r)
  \/ Environment

Spec == Init /\ [][Next]_vars

\* The goroutines and the watch keep running; users, the cluster and faults
\* need not do anything.
Fairness ==
  /\ WF_vars(WorkerStep)
  /\ WF_vars(ListenerStep)
  /\ \A r \in Receivers : WF_vars(Observe(r))

FairSpec == Spec /\ Fairness
-----------------------------------------------------------------------------
(* Properties. *)

QueueTypeOK ==
  /\ queue \in Seq(Receivers)
  /\ dirty \in SUBSET Receivers
  /\ processing \in SUBSET Receivers

InformerTypeOK ==
  /\ recv \in [Receivers -> Objects]
  /\ version \in Nat
  /\ indexer \in [Receivers -> Objects]
  /\ notif \in Seq(Notifications)
  /\ handled \in [Receivers -> Objects]
  /\ faults \in Nat
  /\ clean \in BOOLEAN

\* Get and Done come in pairs: the key being processed is the worker's.
RunTypeOK ==
  /\ run \in [Handlers -> Frames]
  /\ \A h \in Handlers : run[h].pc \in {"loop", "pods"} => run[h].spec \in Specs
  /\ \A h \in Handlers : run[h].pc = "idle" <=> run[h].key = None
  /\ processing = {run["worker"].key} \ {None}

\* The types of the variables, and the bracket of Get and Done around what
\* the worker does on every path through ObjectCreated (controller.go:58-64).
TypeOK == ClusterTypeOK /\ QueueTypeOK /\ InformerTypeOK /\ RunTypeOK

\* A notification that will make the listener queue its key.
Wakes(n) == n.type = "update" => n.new.ver # n.old.ver

\* Receiver r will be looked up in the cache again: it is announced, or its
\* deletion is being handled, or it is dirty, or the worker has just got it.
Woken(r) ==
  \/ \E i \in DOMAIN notif : notif[i].key = r /\ Wakes(notif[i])
  \/ run["listener"].pc # "idle" /\ run["listener"].key = r
  \/ r \in dirty
  \/ run["worker"].pc = "lookup" /\ run["worker"].key = r

\* A Receiver whose state in the cache is not the one the worker last read
\* is on its way to the worker, across every interleaving of the informer,
\* the callbacks, Get, GetByKey and Done, and across restarts: no change of a
\* custom resource is forgotten (main.go:95-134, controller.go:58-94).
NoLostUpdate ==
  /\ QueueOK
  /\ \A r \in Receivers : handled[r] # indexer[r] => Woken(r)

\* The policy on a Deployment is never exchanged for another one, only put
\* on a Deployment without one or taken off, although ObjectCreated decides
\* from a list that may be old by the time it patches: "update function only
\* adds policy details" (main.go:103, handler.go:163-171).
PolicyStable ==
  [][\A d \in Deployments : ann[d].policy # ann'[d].policy =>
        ann[d].policy = None \/ ann'[d].policy = None]_vars

\* A patch is made from the annotations a Deployment had when it was listed, and
\* sent after other patches, Pod deletions and writes of the Deployment
\* controller: the API server can apply it all the same, so that no handler
\* ends half way because of what the other one did (handler.go:194-197, 336-340).
PatchesApply ==
  /\ \A i \in run["worker"].todo : AddPolicyApplies(i.ann, ann[i.name])
  /\ \A i \in run["listener"].todo :
       i.ann.policy # None => RemovePolicyApplies(i.ann, ann[i.name])

\* Everything the users did has been handled, and nothing is running.
Quiet ==
  /\ \A r \in Receivers : ~Behind(r)
  /\ notif = <<>> /\ queue = <<>>
  /\ \A h \in Handlers : run[h].pc = "idle"

\* The Deployments a spec is about: those it selects, in the namespaces it
\* names or else in the default one.
Targets(spec) ==
  LET named == {spec.namespaces[i] : i \in DOMAIN spec.namespaces}
      nss   == IF named = {} THEN {"default"} ELSE named
  IN {d \in deps \cap spec.selects : NsOf[d] \in nss}

Wanted(d) == \E r \in Receivers : recv[r].live /\ d \in Targets(recv[r].spec)

\* Why Deployment d may get a policy: the worker processes a Receiver that was
\* there when it read the cache, which asks for that policy on d.
AddedFor(d, policy) ==
  \E r \in Receivers : /\ run["worker"].key = r
                       /\ handled[r].live
                       /\ d \in Targets(handled[r].spec)
                       /\ policy = handled[r].spec.policy

\* Why it may lose one: the listener handles the deletion of a Receiver that was
\* about d.
RemovedFor(d) ==
  \E r \in Receivers : run["listener"].key = r /\ d \in Targets(run["listener"].spec)

\* No Deployment gets or loses a policy that no Receiver gave a reason for,
\* although the handlers go through lists, namespaces and Pods in many steps
\* and the cache and the other handler move on meanwhile (handler.go:98-240,
\* 242-382).
PolicyForReason ==
  [][\A d \in Deployments : ann'[d].policy # ann[d].policy =>
        IF ann'[d].policy # None THEN AddedFor(d, ann'[d].policy) ELSE RemovedFor(d)]_vars

\* Nothing is left undone: once everything is quiet and no call has failed,
\* every Deployment that a Receiver asks a policy for has one, whatever was
\* applied, deleted and applied again on the way and however the two handlers
\* overlapped.  (A Deployment created after its Receiver was handled is not
\* noticed.)  The states in which TakesEffect comes to rest (main.go:95-134,
\* controller.go:54-127, handler.go:98-240).
Settled ==
  Quiet /\ clean => \A d \in Deployments \ Late : Wanted(d) => HasPolicy(d)

\* p runs, and the worker is still going to restart it.
ToBeRestarted(h, p) ==
  \/ p \in run[h].victims
  \/ run[h].pc = "pods" /\ run[h].target = pod[p].of

\* As long as no call fails, no Pod slips through ObjectCreated: a running
\* Pod without the sidecar that was stored before its Deployment got its
\* policy is one the worker is about to restart.  (One that is stored after the
\* patch, but whose admission read the annotations before it, is not looked
\* after by anybody: handler.go:193-236.)
RestartedForPolicy ==
  clean => \A p \in Pods :
    pod[p].phase = "running" /\ HasPolicy(pod[p].of) /\ ~pod[p].covered /\ ~pod[p].injected
      => ToBeRestarted("worker", p)

\* As long as no call fails, no Pod slips through ObjectDeleted: a running
\* Pod that was stored with the sidecar under a policy that has been taken off
\* is one the listener is about to restart (handler.go:336-376).
RestartedWithoutPolicy ==
  clean => \A p \in Pods :
    pod[p].phase = "running" /\ ~HasPolicy(pod[p].of) /\ pod[p].covered /\ pod[p].injected
      => ToBeRestarted("listener", p)

\* "deletion has to be taken care of before adding to queue" (main.go:128):
\* once everything is quiet no policy is left of a deleted Receiver.
DeletedPolicyGone ==
  Quiet => \A d \in deps : HasPolicy(d) => Wanted(d)

\* "restart the pods in the deployment [...] it is necessary to restart pod
\* for changes to take effect" (handler.go:206-208): once everything is quiet
\* no Pod that was stored before the policy runs without the sidecar.
PolicyTookEffect ==
  Quiet => \A p \in Pods :
    pod[p].phase = "running" /\ HasPolicy(pod[p].of) => pod[p].covered \/ pod[p].injected

\* The controller as a level-triggered reconciler: the states of the
\* Receivers in the cache reach the worker, those in between may be skipped.
Abstract == INSTANCE Reconcile WITH
  Keys <- Receivers, Values <- Objects, latest <- indexer, seen <- handled

\* Every step of the controller is a step of the reconciler or none, and under
\* the scheduling fairness the reconciler's own fairness holds: no state of a
\* Receiver is announced, queued, processed and still never read
\* (main.go:94-136, controller.go:54-94).
ImplementsReconcile == Abstract!Spec

\* A custom resource takes effect: while a Receiver asks for a policy on a
\* Deployment and no call has failed, the Deployment gets it sooner or later
\* (controller.go:45-127, handler.go:126-204).
TakesEffect ==
  \A d \in Deployments : []<>(clean /\ Wanted(d) => HasPolicy(d))
=============================================================================
