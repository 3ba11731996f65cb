--------------------------- MODULE ControllerProofs ---------------------------
(***************************************************************************)
(* Theorems about the custom resource controller, for every number of      *)
(* Deployments, Pods and Receivers and every bound.                        *)
(***************************************************************************)
EXTENDS Controller, FiniteSetTheorems, SequenceTheorems, TLAPS

-----------------------------------------------------------------------------
(* What the helpers return. *)

LEMMA AbsentType == Absent \in Objects
BY ControllerAssumption DEF Absent, Objects

LEMMA IdleType == Idle \in Frames
BY DEF Idle, Frames

LEMMA SingletonSeq ==
  ASSUME NEW S, NEW x \in S
  PROVE  <<x>> \in Seq(S)
OBVIOUS

LEMMA NamespacesOfType ==
  ASSUME NEW spec \in Specs
  PROVE  NamespacesOf(spec) \in Seq(Namespaces \cup {""})
<1>1. spec.namespaces \in Seq(Namespaces \cup {""})
  BY ControllerAssumption
<1>2. <<"default">> \in Seq(Namespaces \cup {""})
  BY ControllerAssumption, SingletonSeq
<1>3. QED
  BY <1>1, <1>2 DEF NamespacesOf

LEMMA ListedType ==
  ASSUME ClusterTypeOK, NEW spec, NEW ns
  PROVE  Listed(spec, ns) \subseteq Items
<1>1. SUFFICES ASSUME NEW d \in deps
               PROVE  [name |-> d, ann |-> ann[d]] \in Items
  BY DEF Listed
<1>2. d \in Deployments /\ ann[d] \in Annotations
  BY DEF ClusterTypeOK
<1>3. QED
  BY <1>2 DEF Items

LEMMA AddPolicyType ==
  ASSUME NEW seen \in Annotations, NEW a \in Annotations, NEW policy \in Policies
  PROVE  AddPolicy(seen, a, policy) \in Annotations
BY DEF AddPolicy, Annotations

LEMMA RemovePolicyType ==
  ASSUME NEW seen \in Annotations, NEW a \in Annotations
  PROVE  RemovePolicy(seen, a) \in Annotations
BY DEF RemovePolicy, Annotations, NoAnnotations
-----------------------------------------------------------------------------
(* Type correctness. *)

LEMMA QueueTypes ==
  ASSUME QueueTypeOK, NEW k \in Receivers
  PROVE  QueueAdd(k) \/ QueueGet(k) \/ QueueDone(k) => QueueTypeOK'
<1>1. CASE QueueAdd(k)
  BY <1>1 DEF QueueAdd, QueueTypeOK, queueVars
<1>2. CASE QueueGet(k)
  BY <1>2 DEF QueueGet, QueueTypeOK
<1>3. CASE QueueDone(k)
  BY <1>3 DEF QueueDone, QueueTypeOK
<1>4. QED
  BY <1>1, <1>2, <1>3

\* A busy goroutine has the key of a Receiver, and the worker's is the one
\* that is being processed.
LEMMA BusyKey ==
  ASSUME RunTypeOK, NEW h \in Handlers, run[h].pc # "idle"
  PROVE  /\ run[h].key \in Receivers
         /\ h = "worker" => processing = {run[h].key}
BY DEF RunTypeOK, Frames

LEMMA IdleRun ==
  ASSUME RunTypeOK
  PROVE  [h \in Handlers |-> Idle] \in [Handlers -> Frames]
BY IdleType

\* Whichever goroutine returns, the other one goes on, and Done is called if
\* the worker returns.
LEMMA ReturnTypes ==
  ASSUME QueueTypeOK, RunTypeOK, NEW h \in Handlers, run[h].pc # "idle", Return(h)
  PROVE  QueueTypeOK' /\ RunTypeOK'
<1>1. run[h].key \in Receivers
  BY BusyKey
<1>2. QueueTypeOK'
  BY <1>1, QueueTypes DEF Return
<1>3. run' = [run EXCEPT ![h] = Idle] /\ Idle \in Frames
  BY IdleType DEF Return
<1>4. run' \in [Handlers -> Frames]
  BY <1>3 DEF RunTypeOK
<1>5. /\ \A g \in Handlers : run'[g].pc = "idle" <=> run'[g].key = None
      /\ \A g \in Handlers : run'[g].pc \in {"loop", "pods"} => run'[g].spec \in Specs
  BY <1>3 DEF RunTypeOK, Idle
<1>6. CASE h = "worker"
  <2>1. processing' = {}
    BY <1>6, BusyKey DEF Return, QueueDone
  <2>2. run'["worker"].key = None
    BY <1>6, <1>3 DEF RunTypeOK, Idle
  <2>3. QED
    BY <2>1, <2>2, <1>4, <1>5, <1>2 DEF RunTypeOK
<1>7. CASE h = "listener"
  <2>1. processing' = processing
    BY <1>7 DEF Return, QueueAdd, queueVars
  <2>2. run'["worker"] = run["worker"]
    BY <1>7, <1>3 DEF RunTypeOK, Handlers
  <2>3. QED
    BY <2>1, <2>2, <1>4, <1>5, <1>2 DEF RunTypeOK
<1>8. QED
  BY <1>6, <1>7 DEF Handlers

\* A goroutine goes on with its key, or the listener with a new one.
LEMMA FrameTypes ==
  ASSUME RunTypeOK, NEW h \in Handlers, NEW f \in Frames,
         f.pc # "idle", f.pc # "lookup" => f.spec \in Specs,
         f.key # None, f.key = run[h].key \/ h = "listener",
         run' = [run EXCEPT ![h] = f], processing' = processing
  PROVE  RunTypeOK'
<1>1. run' \in [Handlers -> Frames]
  BY DEF RunTypeOK
<1>2. /\ \A g \in Handlers : run'[g].pc = "idle" <=> run'[g].key = None
      /\ \A g \in Handlers : run'[g].pc \in {"loop", "pods"} => run'[g].spec \in Specs
  BY DEF RunTypeOK
<1>3. run'["worker"].key = run["worker"].key
  BY DEF RunTypeOK, Handlers
<1>4. QED
  BY <1>1, <1>2, <1>3 DEF RunTypeOK

LEMMA EnterTypes ==
  ASSUME RunTypeOK, NEW h \in Handlers, NEW k \in Receivers, NEW spec \in Specs,
         k = run[h].key \/ h = "listener", Enter(h, k, spec), processing' = processing
  PROVE  RunTypeOK'
<1> DEFINE f == [Idle EXCEPT !.pc = "loop", !.key = k, !.spec = spec,
                             !.nss = NamespacesOf(spec)]
<1>1. f \in Frames
  BY IdleType, NamespacesOfType DEF Frames
<1>2. f.pc = "loop" /\ f.key = k /\ k # None /\ f.spec \in Specs
  BY ControllerAssumption DEF Idle
<1>3. run' = [run EXCEPT ![h] = f]
  BY DEF Enter
<1> HIDE DEF f
<1>4. QED
  BY <1>1, <1>2, <1>3, FrameTypes

LEMMA PhaseTypes ==
  ASSUME ClusterTypeOK, NEW p \in Pods, NEW phase \in {"terminating", "gone"},
         pod' = [pod EXCEPT ![p].phase = phase], UNCHANGED <<deps, ann>>
  PROVE  ClusterTypeOK'
<1>1. [pod[p] EXCEPT !.phase = phase] \in PodStates
  BY DEF ClusterTypeOK, PodStates, Phases
<1>2. pod' \in [Pods -> PodStates]
  BY <1>1 DEF ClusterTypeOK
<1>3. \A q \in Pods : pod'[q].phase = "running" => pod'[q] = pod[q]
  BY <1>1 DEF ClusterTypeOK, PodStates
<1>4. QED
  BY <1>2, <1>3 DEF ClusterTypeOK

\* What the cluster does is nobody else's business.
LEMMA ClusterTypes ==
  ASSUME ClusterTypeOK, ClusterNext
  PROVE  ClusterTypeOK'
<1>1. ASSUME NEW d \in Deployments, CreateDeployment(d)
      PROVE  ClusterTypeOK'
  BY <1>1 DEF CreateDeployment, ClusterTypeOK
<1>2. ASSUME NEW d \in Deployments, SetRevision(d)
      PROVE  ClusterTypeOK'
  <2>1. [ann[d] EXCEPT !.foreign = TRUE] \in Annotations
    BY DEF ClusterTypeOK, Annotations
  <2>2. QED
    BY <1>2, <2>1 DEF SetRevision, ClusterTypeOK
<1>3. ASSUME NEW p \in Pods, EvictPod(p) \/ RemovePod(p)
      PROVE  ClusterTypeOK'
  BY <1>3, PhaseTypes DEF EvictPod, RemovePod
<1>4. ASSUME NEW p \in Pods, NEW d \in Deployments, CreatePod(p, d)
      PROVE  ClusterTypeOK'
  <2>1. PICK injected \in BOOLEAN :
          pod' = [pod EXCEPT ![p] = [phase |-> "running", of |-> d,
                                     injected |-> injected, covered |-> HasPolicy(d)]]
    BY <1>4 DEF CreatePod
  <2>2. [phase |-> "running", of |-> d, injected |-> injected, covered |-> HasPolicy(d)]
          \in PodStates
    BY DEF PodStates, Phases, HasPolicy
  <2>3. QED
    BY <1>4, <2>1, <2>2 DEF CreatePod, ClusterTypeOK
<1>5. QED
  BY <1>1, <1>2, <1>3, <1>4 DEF ClusterNext

LEMMA ReceiverTypes ==
  ASSUME InformerTypeOK, NEW r \in Receivers
  PROVE  /\ recv[r] \in Objects /\ indexer[r] \in Objects
         /\ Gone(recv[r]) \in Objects
BY DEF InformerTypeOK, Objects, Gone

LEMMA UserTypes ==
  ASSUME InformerTypeOK, NEW r \in Receivers,
         UserDeletes(r) \/ \E s \in Specs : UserApplies(r, s)
  PROVE  InformerTypeOK'
<1>1. ASSUME NEW object \in Objects, UserWrites(r, object), version' \in Nat
      PROVE  InformerTypeOK'
  BY <1>1 DEF UserWrites, InformerTypeOK, ctlVars
<1>2. CASE UserDeletes(r)
  BY <1>1, <1>2, ReceiverTypes DEF UserDeletes, InformerTypeOK
<1>3. ASSUME NEW s \in Specs, UserApplies(r, s)
      PROVE  InformerTypeOK'
  <2>1. version' \in Nat
    BY <1>3 DEF UserApplies, InformerTypeOK
  <2>2. [ver |-> version', live |-> TRUE, spec |-> s] \in Objects
    BY <2>1 DEF Objects
  <2>3. QED
    BY <1>1, <1>3, <2>1, <2>2 DEF UserApplies
<1>4. QED
  BY <1>2, <1>3

LEMMA NotifyTypes ==
  ASSUME InformerTypeOK, NEW type \in {"add", "update", "delete", "tombstone"},
         NEW r \in Receivers, NEW old \in Objects, NEW new \in Objects, Notify(type, r, old, new)
  PROVE  notif' \in Seq(Notifications)
<1>1. [type |-> type, key |-> r, old |-> old, new |-> new] \in Notifications
  BY DEF Notifications
<1>2. QED
  BY <1>1 DEF Notify, InformerTypeOK

LEMMA ObserveTypes ==
  ASSUME InformerTypeOK, NEW r \in Receivers, Observe(r) \/ Relist(r)
  PROVE  InformerTypeOK'
<1>1. notif' \in Seq(Notifications)
  BY NotifyTypes, ReceiverTypes DEF Observe, Relist
<1>2. indexer' \in [Receivers -> Objects]
  BY ReceiverTypes DEF Observe, Relist, InformerTypeOK
<1>3. faults' \in Nat /\ UNCHANGED <<recv, version, handled, clean>>
  BY DEF Observe, Relist, InformerTypeOK
<1>4. QED
  BY <1>1, <1>2, <1>3 DEF InformerTypeOK

\* What the listener is told after a restart.
LEMMA RestartNotifies ==
  ASSUME InformerTypeOK, Restart
  PROVE  /\ notif' \in Seq(Notifications)
         /\ \A r \in Receivers : recv[r].live =>
              \E i \in DOMAIN notif' : notif'[i].type = "add" /\ notif'[i].key = r
<1> DEFINE live == {r \in Receivers : recv[r].live}
           n    == Cardinality(live)
<1>1. n \in Nat
  <2>1. IsFiniteSet(live)
    BY ControllerAssumption, FS_Subset
  <2>2. QED
    BY <2>1, FS_CardinalityType
<1>2. PICK order \in [1..n -> live] :
        /\ \A r \in live : \E i \in 1..n : order[i] = r
        /\ notif' = [i \in 1..n |-> [type |-> "add", key |-> order[i],
                                     old |-> Absent, new |-> recv[order[i]]]]
  BY DEF Restart
<1> HIDE DEF n
<1>3. ASSUME NEW i \in 1..n
      PROVE  [type |-> "add", key |-> order[i], old |-> Absent, new |-> recv[order[i]]]
               \in Notifications
  <2>1. order[i] \in Receivers /\ recv[order[i]] \in Objects
    BY DEF InformerTypeOK
  <2>2. QED
    BY <2>1, AbsentType DEF Notifications
<1>4. notif' \in [1..n -> Notifications]
  BY <1>2, <1>3
<1>5. notif' \in Seq(Notifications)
  BY <1>1, <1>4
<1>6. \A i \in 1..n : notif'[i].type = "add" /\ notif'[i].key = order[i]
  BY <1>2
<1>7. DOMAIN notif' = 1..n
  BY <1>2
<1>8. QED
  BY <1>2, <1>5, <1>6, <1>7

LEMMA RestartTypes ==
  ASSUME TypeOK, Restart, faults' \in Nat
  PROVE  TypeOK'
<1>1. ClusterTypeOK'
  BY DEF Restart, clusterVars, TypeOK, ClusterTypeOK
<1>2. QueueTypeOK'
  BY DEF Restart, QueueTypeOK
<1>3. InformerTypeOK'
  <2>1. handled' \in [Receivers -> Objects]
    BY ReceiverTypes DEF Restart, TypeOK
  <2>2. QED
    BY <2>1, RestartNotifies DEF Restart, TypeOK, InformerTypeOK
<1>4. RunTypeOK'
  BY IdleType DEF Restart, RunTypeOK, Idle, Handlers
<1>5. QED
  BY <1>1, <1>2, <1>3, <1>4 DEF TypeOK

LEMMA TakeTypes ==
  ASSUME InformerTypeOK, NEW type, Take(type)
  PROVE  /\ Head(notif) \in Notifications
         /\ notif' \in Seq(Notifications)
BY DEF Take, InformerTypeOK

LEMMA CallbackTypes ==
  ASSUME TypeOK, OnAdd \/ OnUpdate \/ OnDelete
  PROVE  TypeOK'
<1>1. /\ Head(notif) \in Notifications
      /\ notif' \in Seq(Notifications)
  BY TakeTypes DEF OnAdd, OnUpdate, OnDelete, TypeOK
<1>2. /\ Head(notif).key \in Receivers
      /\ Head(notif).old \in Objects /\ Head(notif).old.spec \in Specs
  BY <1>1 DEF Notifications, Objects
<1>3. InformerTypeOK'
  BY <1>1 DEF OnAdd, OnUpdate, OnDelete, TypeOK, InformerTypeOK
<1>4. ClusterTypeOK'
  BY DEF OnAdd, OnUpdate, OnDelete, TypeOK, ClusterTypeOK, clusterVars
<1>5. CASE OnAdd \/ OnUpdate
  <2>1. QueueAdd(Head(notif).key) \/ UNCHANGED queueVars
    BY <1>5 DEF OnAdd, OnUpdate
  <2>2. QueueTypeOK'
    BY <2>1, <1>2, QueueTypes DEF TypeOK, queueVars, QueueTypeOK
  <2>3. UNCHANGED <<processing, run>>
    BY <2>1, <1>5 DEF OnAdd, OnUpdate, QueueAdd, queueVars
  <2>4. RunTypeOK'
    BY <2>3 DEF TypeOK, RunTypeOK
  <2>5. QED
    BY <2>2, <2>4, <1>3, <1>4 DEF TypeOK
<1>6. CASE OnDelete
  <2>1. UNCHANGED queueVars
    BY <1>6 DEF OnDelete
  <2>2. QueueTypeOK'
    BY <2>1 DEF TypeOK, QueueTypeOK, queueVars
  <2>3. RunTypeOK'
    BY <2>1, <1>2, <1>6, EnterTypes DEF OnDelete, TypeOK, queueVars, Handlers
  <2>4. QED
    BY <2>2, <2>3, <1>3, <1>4 DEF TypeOK
<1>7. QED
  BY <1>5, <1>6

LEMMA GetTypes ==
  ASSUME TypeOK, Get
  PROVE  TypeOK'
<1> DEFINE k == Head(queue)
           f == [Idle EXCEPT !.pc = "lookup", !.key = k]
<1>1. k \in Receivers /\ k # None
  <2>1. queue # <<>> /\ queue \in Seq(Receivers)
    BY DEF Get, TypeOK, QueueTypeOK
  <2>2. k \in Receivers
    BY <2>1, HeadTailProperties
  <2>3. QED
    BY <2>2, ControllerAssumption
<1>2. QueueTypeOK'
  BY <1>1, QueueTypes DEF Get, TypeOK
<1>3. processing' = {k}
  <2>1. processing = {}
    BY DEF Get, TypeOK, RunTypeOK, Handlers
  <2>2. QED
    BY <2>1 DEF Get, QueueGet
<1>4. f \in Frames /\ f.pc = "lookup" /\ f.key = k
  BY <1>1, IdleType DEF Frames, Idle
<1>5. run' = [run EXCEPT !["worker"] = f]
  BY DEF Get
<1> HIDE DEF f
<1>6. RunTypeOK'
  <2>1. run' \in [Handlers -> Frames]
    BY <1>4, <1>5 DEF TypeOK, RunTypeOK
  <2>2. /\ \A h \in Handlers : run'[h].pc = "idle" <=> run'[h].key = None
        /\ \A h \in Handlers : run'[h].pc \in {"loop", "pods"} => run'[h].spec \in Specs
    BY <1>1, <1>4, <1>5 DEF TypeOK, RunTypeOK
  <2>3. run'["worker"].key = k
    BY <1>4, <1>5 DEF TypeOK, RunTypeOK, Handlers
  <2>4. QED
    BY <2>1, <2>2, <2>3, <1>1, <1>3 DEF RunTypeOK
<1>7. ClusterTypeOK' /\ InformerTypeOK'
  BY DEF Get, TypeOK, ClusterTypeOK, InformerTypeOK, clusterVars
<1>8. QED
  BY <1>2, <1>6, <1>7 DEF TypeOK

LEMMA LookupTypes ==
  ASSUME TypeOK, Lookup
  PROVE  TypeOK'
<1> DEFINE k == run["worker"].key
<1>1. k \in Receivers /\ processing = {k}
  BY BusyKey DEF Lookup, TypeOK, Handlers
<1>2. indexer[k] \in Objects /\ indexer[k].spec \in Specs
  BY <1>1 DEF TypeOK, InformerTypeOK, Objects
<1>3. ClusterTypeOK' /\ InformerTypeOK'
  BY <1>1, <1>2 DEF Lookup, TypeOK, ClusterTypeOK, InformerTypeOK, clusterVars
<1>4. CASE indexer[k].live
  <2>1. Enter("worker", k, indexer[k].spec) /\ UNCHANGED queueVars
    BY <1>4 DEF Lookup
  <2>2. RunTypeOK'
    BY <2>1, <1>1, <1>2, EnterTypes DEF TypeOK, queueVars, Handlers
  <2>3. QED
    BY <2>1, <2>2, <1>3 DEF TypeOK, QueueTypeOK, queueVars
<1>5. CASE ~indexer[k].live
  <2>1. Return("worker") /\ run["worker"].pc # "idle"
    BY <1>5 DEF Lookup, Return
  <2>2. QED
    BY <2>1, <1>3, ReturnTypes DEF TypeOK, Handlers
<1>6. QED
  BY <1>4, <1>5

\* A handler's step leaves the informer alone, except for the history.
InformerKept == UNCHANGED <<recv, version, indexer, notif, handled>>

LEMMA FaultTypes ==
  ASSUME InformerTypeOK, InformerKept, Fault \/ (faults' = faults /\ clean' \in BOOLEAN)
  PROVE  InformerTypeOK'
<1>1. faults' \in Nat
  BY DEF InformerTypeOK, Fault
<1>2. clean' \in BOOLEAN
  BY DEF Fault
<1>3. QED
  BY <1>1, <1>2 DEF InformerTypeOK, InformerKept

\* The steps of a handler in its loops keep the types when each of them either
\* returns or goes on with another frame for the same key.
LEMMA HandlerTypes ==
  ASSUME TypeOK, NEW h \in Handlers, run[h].pc \in {"loop", "pods"},
         ClusterTypeOK', InformerTypeOK',
         \/ Return(h)
         \/ /\ UNCHANGED queueVars
            /\ \E f \in Frames : /\ f.pc # "idle" /\ f.key = run[h].key
                                 /\ f.spec = run[h].spec
                                 /\ run' = [run EXCEPT ![h] = f]
  PROVE  TypeOK'
<1>1. CASE Return(h)
  BY <1>1, ReturnTypes DEF TypeOK
<1>2. CASE UNCHANGED queueVars /\ ~Return(h)
  <2>1. PICK f \in Frames : /\ f.pc # "idle" /\ f.key = run[h].key
                            /\ f.spec = run[h].spec
                            /\ run' = [run EXCEPT ![h] = f]
    BY <1>2
  <2>2. f.key # None /\ f.spec \in Specs
    BY <2>1, BusyKey, ControllerAssumption DEF TypeOK, RunTypeOK
  <2>3. RunTypeOK'
    BY <1>2, <2>1, <2>2, FrameTypes DEF TypeOK, queueVars
  <2>4. QueueTypeOK'
    BY <1>2 DEF TypeOK, QueueTypeOK, queueVars
  <2>5. QED
    BY <2>3, <2>4 DEF TypeOK
<1>3. QED
  BY <1>1, <1>2

LEMMA FinishTypes ==
  ASSUME TypeOK, NEW h \in Handlers, Finish(h)
  PROVE  TypeOK'
<1>1. run[h].pc = "loop" /\ Return(h)
  BY DEF Finish, AtNamespace
<1>2. ClusterTypeOK' /\ InformerTypeOK'
  BY DEF Finish, TypeOK, ClusterTypeOK, InformerTypeOK, clusterVars
<1>3. QED
  BY <1>1, <1>2, HandlerTypes

LEMMA ListDeploymentsTypes ==
  ASSUME TypeOK, NEW h \in Handlers, ListDeployments(h)
  PROVE  TypeOK'
<1> DEFINE todo == WorkFor(h, Listed(run[h].spec, Head(run[h].nss)))
           f == [run[h] EXCEPT !.todo = todo, !.nss = Tail(@)]
<1>1. run[h] \in Frames /\ run[h].pc = "loop" /\ run[h].nss # <<>>
  BY DEF ListDeployments, AtNamespace, HasNamespace, TypeOK, RunTypeOK
<1>2. Tail(run[h].nss) \in Seq(Namespaces \cup {""})
  BY <1>1, HeadTailProperties DEF Frames
<1>3. todo \subseteq Items
  BY ListedType DEF WorkFor, TypeOK
<1>4. f \in Frames /\ f.pc = "loop" /\ f.key = run[h].key /\ f.spec = run[h].spec
  BY <1>1, <1>2, <1>3 DEF Frames
<1>5. \/ Return(h)
      \/ /\ UNCHANGED queueVars
         /\ run' = [run EXCEPT ![h] = f]
  BY DEF ListDeployments
<1>6. ClusterTypeOK' /\ InformerTypeOK'
  <2>1. ClusterTypeOK'
    BY DEF ListDeployments, TypeOK, ClusterTypeOK, clusterVars
  <2>2. InformerTypeOK'
    BY FaultTypes DEF ListDeployments, TypeOK, InformerTypeOK, InformerKept
  <2>3. QED
    BY <2>1, <2>2
<1> HIDE DEF f
<1>7. QED
  BY <1>1, <1>4, <1>5, <1>6, HandlerTypes

\* A Patch call, whichever way it ends.
LEMMA PatchTypes ==
  ASSUME TypeOK, NEW h \in Handlers, NEW i \in Items, NEW a \in Annotations,
         run[h].pc = "loop", PatchTo(h, i, a) \/ PatchRejected(h),
         UNCHANGED <<deps, pod>>, InformerKept
  PROVE  TypeOK'
<1> DEFINE f == [run[h] EXCEPT !.pc = "pods", !.target = i.name, !.todo = @ \ {i}]
<1>1. f \in Frames /\ f.pc = "pods" /\ f.key = run[h].key /\ f.spec = run[h].spec
  <2>1. run[h] \in Frames /\ i.name \in Deployments
    BY DEF TypeOK, RunTypeOK, Items
  <2>2. run[h].todo \ {i} \in SUBSET Items
    BY <2>1 DEF Frames
  <2>3. QED
    BY <2>1, <2>2 DEF Frames
<1>2. ClusterTypeOK'
  BY DEF PatchTo, PatchRejected, TypeOK, ClusterTypeOK, Items
<1>3. InformerTypeOK'
  BY FaultTypes DEF PatchTo, PatchRejected, TypeOK, InformerTypeOK
<1>4. \/ Return(h)
      \/ UNCHANGED queueVars /\ run' = [run EXCEPT ![h] = f]
  BY DEF PatchTo, PatchRejected, ToPods
<1> HIDE DEF f
<1>5. QED
  BY <1>1, <1>2, <1>3, <1>4, HandlerTypes

LEMMA PatchCreatedTypes ==
  ASSUME TypeOK, NEW i \in run["worker"].todo, PatchCreated(i)
  PROVE  TypeOK'
<1>1. /\ run["worker"] \in Frames /\ run["worker"].pc = "loop"
      /\ i \in Items
  BY DEF PatchCreated, TypeOK, RunTypeOK, Frames, Handlers
<1>2. run["worker"].spec.policy \in Policies
  BY <1>1, ControllerAssumption DEF TypeOK, RunTypeOK, Handlers
<1>3. i.ann \in Annotations /\ ann[i.name] \in Annotations
  BY <1>1 DEF Items, TypeOK, ClusterTypeOK
<1>4. AddPolicy(i.ann, ann[i.name], run["worker"].spec.policy) \in Annotations
  BY <1>2, <1>3, AddPolicyType
<1>5. QED
  BY <1>1, <1>4, PatchTypes DEF PatchCreated, InformerKept, Handlers

LEMMA PatchDeletedTypes ==
  ASSUME TypeOK, NEW i \in run["listener"].todo, PatchDeleted(i)
  PROVE  TypeOK'
<1>1. /\ run["listener"] \in Frames /\ run["listener"].pc = "loop"
      /\ i \in Items
  BY DEF PatchDeleted, TypeOK, RunTypeOK, Frames, Handlers
<1>2. i.ann \in Annotations /\ ann[i.name] \in Annotations
  BY <1>1 DEF Items, TypeOK, ClusterTypeOK
<1>3. RemovePolicy(i.ann, ann[i.name]) \in Annotations
  BY <1>2, RemovePolicyType
<1>4. CASE Return("listener") /\ UNCHANGED <<ann, faults, clean>>
  <2>1. ClusterTypeOK' /\ InformerTypeOK'
    BY <1>4 DEF PatchDeleted, TypeOK, ClusterTypeOK, InformerTypeOK
  <2>2. QED
    BY <1>1, <1>4, <2>1, HandlerTypes DEF Handlers
<1>5. CASE \/ PatchTo("listener", i, RemovePolicy(i.ann, ann[i.name]))
           \/ PatchRejected("listener")
  BY <1>1, <1>3, <1>5, PatchTypes DEF PatchDeleted, InformerKept, Handlers
<1>6. QED
  BY <1>4, <1>5 DEF PatchDeleted

LEMMA ListPodsTypes ==
  ASSUME TypeOK, NEW h \in Handlers, ListPods(h)
  PROVE  TypeOK'
<1>1. run[h] \in Frames /\ run[h].pc = "pods"
  BY DEF ListPods, TypeOK, RunTypeOK
<1>2. PICK found \in SUBSET Pods :
        run' = [run EXCEPT ![h].pc = "loop", ![h].target = None, ![h].victims = found]
  BY DEF ListPods, PodsOf
<1> DEFINE f == [run[h] EXCEPT !.pc = "loop", !.target = None, !.victims = found]
<1>3. /\ f \in Frames /\ f.pc = "loop" /\ f.key = run[h].key /\ f.spec = run[h].spec
      /\ run' = [run EXCEPT ![h] = f]
  BY <1>1, <1>2 DEF Frames
<1>4. ClusterTypeOK' /\ UNCHANGED queueVars
  BY DEF ListPods, TypeOK, ClusterTypeOK, clusterVars
<1>5. InformerTypeOK'
  BY FaultTypes DEF ListPods, TypeOK, InformerTypeOK, InformerKept
<1> HIDE DEF f
<1>6. QED
  BY <1>1, <1>3, <1>4, <1>5, HandlerTypes

LEMMA DeletePodTypes ==
  ASSUME TypeOK, NEW h \in Handlers, NEW p \in run[h].victims, DeletePod(h, p)
  PROVE  TypeOK'
<1> DEFINE f == [run[h] EXCEPT !.victims = @ \ {p}]
<1>1. run[h] \in Frames /\ run[h].pc = "loop" /\ p \in Pods
  BY DEF DeletePod, TypeOK, RunTypeOK, Frames
<1>2. f \in Frames /\ f.pc = "loop" /\ f.key = run[h].key /\ f.spec = run[h].spec
  BY <1>1 DEF Frames
<1>3. \/ Return(h)
      \/ UNCHANGED queueVars /\ run' = [run EXCEPT ![h] = f]
  BY DEF DeletePod
<1>4. ClusterTypeOK'
  <2>1. UNCHANGED <<deps, ann>> /\ (Terminate(p) \/ pod' = pod)
    BY DEF DeletePod
  <2>2. CASE Terminate(p)
    BY <1>1, <2>1, <2>2, PhaseTypes DEF Terminate, TypeOK
  <2>3. CASE pod' = pod
    BY <2>1, <2>3 DEF TypeOK, ClusterTypeOK
  <2>4. QED
    BY <2>1, <2>2, <2>3
<1>5. InformerTypeOK'
  BY FaultTypes DEF DeletePod, TypeOK, InformerTypeOK, InformerKept
<1> HIDE DEF f
<1>6. QED
  BY <1>1, <1>2, <1>3, <1>4, <1>5, HandlerTypes

LEMMA HandlerStepTypes ==
  ASSUME TypeOK, NEW h \in Handlers, HandlerStep(h)
  PROVE  TypeOK'
BY FinishTypes, ListDeploymentsTypes, ListPodsTypes, DeletePodTypes DEF HandlerStep

LEMMA EnvironmentTypes ==
  ASSUME TypeOK, \/ ClusterNext /\ UNCHANGED <<queueVars, ctlVars>>
                 \/ \E r \in Receivers, s \in Specs : UserApplies(r, s)
                 \/ \E r \in Receivers : UserDeletes(r) \/ Relist(r) \/ Observe(r)
  PROVE  TypeOK'
<1>1. CASE ClusterNext /\ UNCHANGED <<queueVars, ctlVars>>
  <2>1. ClusterTypeOK'
    BY <1>1, ClusterTypes DEF TypeOK
  <2>2. QED
    BY <1>1, <2>1 DEF TypeOK, QueueTypeOK, InformerTypeOK, RunTypeOK, queueVars, ctlVars
<1>2. ASSUME NEW r \in Receivers,
             UserDeletes(r) \/ (\E s \in Specs : UserApplies(r, s)) \/ Relist(r) \/ Observe(r)
      PROVE  TypeOK'
  <2>1. InformerTypeOK'
    BY <1>2, UserTypes, ObserveTypes DEF TypeOK
  <2>2. UNCHANGED <<clusterVars, queueVars, run>>
    BY <1>2 DEF UserDeletes, UserApplies, UserWrites, Relist, Observe
  <2>3. QED
    BY <2>1, <2>2 DEF TypeOK, ClusterTypeOK, QueueTypeOK, RunTypeOK, clusterVars, queueVars
<1>3. QED
  BY <1>1, <1>2

LEMMA TypeInit == Init => TypeOK
<1> SUFFICES ASSUME Init PROVE TypeOK
  OBVIOUS
<1>1. ClusterTypeOK
  BY ClusterAssumption DEF Init, ClusterInit, ClusterTypeOK, Annotations, NoAnnotations,
     PodStates, Phases, UnbornPod
<1>2. QueueTypeOK
  BY DEF Init, QueueInit, QueueTypeOK
<1>3. InformerTypeOK
  BY AbsentType DEF Init, InformerTypeOK
<1>4. RunTypeOK
  BY IdleType DEF Init, QueueInit, RunTypeOK, Idle, Handlers
<1>5. QED
  BY <1>1, <1>2, <1>3, <1>4 DEF TypeOK

LEMMA TypeStep == TypeOK /\ [Next]_vars => TypeOK'
<1> SUFFICES ASSUME TypeOK, [Next]_vars PROVE TypeOK'
  OBVIOUS
<1>1. CASE WorkerStep
  BY <1>1, GetTypes, LookupTypes, HandlerStepTypes, PatchCreatedTypes DEF WorkerStep, Handlers
<1>2. CASE ListenerStep
  <2>1. CASE OnTombstone
    <3>1. Restart /\ faults' \in Nat
      BY <2>1 DEF OnTombstone, TypeOK, InformerTypeOK
    <3>2. QED
      BY <3>1, RestartTypes
  <2>2. QED
    BY <1>2, <2>1, CallbackTypes, HandlerStepTypes, PatchDeletedTypes DEF ListenerStep, Handlers
<1>3. CASE Crash
  <2>1. Restart /\ faults' \in Nat
    BY <1>3 DEF Crash, TypeOK, InformerTypeOK
  <2>2. QED
    BY <2>1, RestartTypes
<1>4. CASE \/ Environment /\ ~Crash
           \/ \E r \in Receivers : Observe(r)
  BY <1>4, EnvironmentTypes DEF Environment
<1>5. CASE UNCHANGED vars
  BY <1>5 DEF vars, clusterVars, queueVars, ctlVars, TypeOK, ClusterTypeOK, QueueTypeOK,
     InformerTypeOK, RunTypeOK
<1>6. QED
  BY <1>1, <1>2, <1>3, <1>4, <1>5 DEF Next

\* The variables have their types, whatever the goroutines, the watch, the
\* cluster and the faults do, and what the worker does for a key is between
\* Get and Done of that key on every path (controller.go:58-64).
THEOREM Typing == Spec => []TypeOK
<1>1. QED
  BY TypeInit, TypeStep, PTL DEF Spec

-----------------------------------------------------------------------------
(* What one step of a handler changes. *)

\* Goroutine h goes on with frame f, for the same Receiver.
Moves(h, f) ==
  /\ run' = [run EXCEPT ![h] = f]
  /\ f.pc \in {"loop", "pods"} /\ f.key = run[h].key /\ f.spec = run[h].spec
  /\ UNCHANGED queueVars

\* It has listed the Deployments of one more namespace.
Lists(h, f) ==
  /\ AtNamespace(h) /\ HasNamespace(h)
  /\ Moves(h, f)
  /\ f.todo = WorkFor(h, Listed(run[h].spec, Head(run[h].nss)))
  /\ f.nss = Tail(run[h].nss)
  /\ clean' = clean

\* It has gone on with the Pods of a Deployment.
Restarts(h, f) == Moves(h, f) /\ f.todo = run[h].todo /\ f.nss = run[h].nss

\* It has patched the Deployment of item i.
Patches(h, f, i) ==
  /\ Moves(h, f)
  /\ f.todo = run[h].todo \ {i} /\ f.nss = run[h].nss
  /\ clean' = clean

LEMMA ListEffect ==
  ASSUME TypeOK, NEW h \in Handlers, ListDeployments(h)
  PROVE  (Return(h) /\ ~clean') \/ \E f : Lists(h, f)
<1> DEFINE f == [run[h] EXCEPT !.todo = WorkFor(h, Listed(run[h].spec, Head(run[h].nss))),
                               !.nss = Tail(@)]
<1>1. run[h] \in Frames /\ run[h].pc = "loop"
  BY DEF ListDeployments, AtNamespace, TypeOK, RunTypeOK
<1>2. /\ f.pc = "loop" /\ f.key = run[h].key /\ f.spec = run[h].spec
      /\ f.todo = WorkFor(h, Listed(run[h].spec, Head(run[h].nss)))
      /\ f.nss = Tail(run[h].nss)
  BY <1>1 DEF Frames
<1>3. \/ Return(h) /\ clean' = FALSE
      \/ run' = [run EXCEPT ![h] = f] /\ UNCHANGED queueVars /\ clean' = clean
  BY DEF ListDeployments, Fault
<1> HIDE DEF f
<1>4. QED
  BY <1>2, <1>3 DEF ListDeployments, Lists, Moves

LEMMA PodsEffect ==
  ASSUME TypeOK, NEW h \in Handlers, ListPods(h) \/ \E p \in run[h].victims : DeletePod(h, p)
  PROVE  (Return(h) /\ ~clean') \/ \E f : Restarts(h, f)
<1>1. run[h] \in Frames
  BY DEF TypeOK, RunTypeOK
<1>2. ASSUME NEW found, run' = [run EXCEPT ![h].pc = "loop", ![h].target = None,
                                           ![h].victims = found],
             UNCHANGED queueVars
      PROVE  \E f : Restarts(h, f)
  <2> DEFINE f == [run[h] EXCEPT !.pc = "loop", !.target = None, !.victims = found]
  <2>1. /\ f.pc = "loop" /\ f.key = run[h].key /\ f.spec = run[h].spec
        /\ f.todo = run[h].todo /\ f.nss = run[h].nss
    BY <1>1 DEF Frames
  <2>2. run' = [run EXCEPT ![h] = f]
    BY <1>2
  <2> HIDE DEF f
  <2>3. QED
    BY <1>2, <2>1, <2>2 DEF Restarts, Moves
<1>3. ASSUME NEW p, run[h].pc = "loop", run' = [run EXCEPT ![h].victims = @ \ {p}],
             UNCHANGED queueVars
      PROVE  \E f : Restarts(h, f)
  <2> DEFINE f == [run[h] EXCEPT !.victims = @ \ {p}]
  <2>1. /\ f.pc = "loop" /\ f.key = run[h].key /\ f.spec = run[h].spec
        /\ f.todo = run[h].todo /\ f.nss = run[h].nss
    BY <1>1, <1>3 DEF Frames
  <2>2. run' = [run EXCEPT ![h] = f]
    BY <1>3
  <2> HIDE DEF f
  <2>3. QED
    BY <1>3, <2>1, <2>2 DEF Restarts, Moves
<1>4. CASE ListPods(h)
  BY <1>2, <1>4 DEF ListPods
<1>5. ASSUME NEW p \in run[h].victims, DeletePod(h, p)
      PROVE  (Return(h) /\ ~clean') \/ \E f : Restarts(h, f)
  BY <1>3, <1>5 DEF DeletePod, Fault
<1>6. QED
  BY <1>4, <1>5

\* Nothing but the goroutine's own frame, the queue and the Pods changes.
LEMMA HandlerEffect ==
  ASSUME TypeOK, NEW h \in Handlers, HandlerStep(h)
  PROVE  /\ run[h].pc \in {"loop", "pods"}
         /\ UNCHANGED <<deps, ann, recv, version, indexer, notif, handled>>
         /\ \/ Return(h) /\ (Finish(h) \/ ~clean')
            \/ \E f : Lists(h, f) \/ Restarts(h, f)
<1>1. run[h].pc \in {"loop", "pods"}
  BY DEF HandlerStep, Finish, ListDeployments, AtNamespace, ListPods, DeletePod
<1>2. UNCHANGED <<deps, ann, recv, version, indexer, notif, handled>>
  BY DEF HandlerStep, Finish, ListDeployments, ListPods, DeletePod, clusterVars
<1>3. Finish(h) => Return(h)
  BY DEF Finish
<1>4. QED
  BY <1>1, <1>2, <1>3, ListEffect, PodsEffect DEF HandlerStep

\* What the two patches have in common.
LEMMA ToPodsEffect ==
  ASSUME TypeOK, NEW h \in Handlers, NEW i, ToPods(h, i), UNCHANGED <<queueVars, clean>>
  PROVE  \E f : Patches(h, f, i)
<1> DEFINE f == [run[h] EXCEPT !.pc = "pods", !.target = i.name, !.todo = @ \ {i}]
<1>1. run[h] \in Frames
  BY DEF TypeOK, RunTypeOK
<1>2. /\ f.pc = "pods" /\ f.key = run[h].key /\ f.spec = run[h].spec
      /\ f.todo = run[h].todo \ {i} /\ f.nss = run[h].nss
  BY <1>1 DEF Frames
<1>3. run' = [run EXCEPT ![h] = f]
  BY DEF ToPods
<1> HIDE DEF f
<1>4. QED
  BY <1>2, <1>3 DEF Patches, Moves

\* The annotations of the Deployment of item i become a, or nothing is patched.
PatchOutcome(h, i, a) ==
  \/ ann' = [ann EXCEPT ![i.name] = a] /\ \E f : Patches(h, f, i)
  \/ ann' = [ann EXCEPT ![i.name] = a] /\ Return(h) /\ ~clean'
  \/ ann' = ann /\ Return(h)

LEMMA PatchCreatedOutcome ==
  ASSUME TypeOK, NEW i \in run["worker"].todo, PatchCreated(i)
  PROVE  /\ run["worker"].pc = "loop"
         /\ UNCHANGED <<deps, pod, recv, version, indexer, notif, handled>>
         /\ PatchOutcome("worker", i,
                         AddPolicy(i.ann, ann[i.name], run["worker"].spec.policy))
         /\ AddPolicyApplies(i.ann, ann[i.name]) /\ clean' =>
              \E f : /\ Patches("worker", f, i)
                     /\ ann' = [ann EXCEPT ![i.name] =
                                 AddPolicy(i.ann, ann[i.name], run["worker"].spec.policy)]
<1> DEFINE a == AddPolicy(i.ann, ann[i.name], run["worker"].spec.policy)
<1>1. \/ /\ AddPolicyApplies(i.ann, ann[i.name])
         /\ \/ /\ ann' = [ann EXCEPT ![i.name] = a]
               /\ ToPods("worker", i) /\ UNCHANGED <<queueVars, clean>>
            \/ /\ ann' = ann \/ ann' = [ann EXCEPT ![i.name] = a]
               /\ Return("worker") /\ ~clean'
      \/ ~AddPolicyApplies(i.ann, ann[i.name]) /\ Return("worker") /\ ann' = ann
  BY DEF PatchCreated, PatchTo, PatchRejected, Fault
<1>2. /\ run["worker"].pc = "loop"
      /\ UNCHANGED <<deps, pod, recv, version, indexer, notif, handled>>
  BY DEF PatchCreated
<1> HIDE DEF a
<1>3. ToPods("worker", i) /\ UNCHANGED <<queueVars, clean>> => \E f : Patches("worker", f, i)
  BY ToPodsEffect DEF Handlers
<1>4. QED
  BY <1>1, <1>2, <1>3 DEF PatchOutcome, a

LEMMA PatchDeletedOutcome ==
  ASSUME TypeOK, NEW i \in run["listener"].todo, PatchDeleted(i)
  PROVE  /\ run["listener"].pc = "loop"
         /\ UNCHANGED <<deps, pod, recv, version, indexer, notif, handled>>
         /\ PatchOutcome("listener", i, RemovePolicy(i.ann, ann[i.name]))
         /\ ann' = ann \/ i.ann.policy # None
<1> DEFINE a == RemovePolicy(i.ann, ann[i.name])
<1>1. \/ /\ i.ann.policy # None
         /\ \/ /\ ann' = [ann EXCEPT ![i.name] = a]
               /\ ToPods("listener", i) /\ UNCHANGED <<queueVars, clean>>
            \/ /\ ann' = ann \/ ann' = [ann EXCEPT ![i.name] = a]
               /\ Return("listener") /\ ~clean'
      \/ Return("listener") /\ ann' = ann
  BY DEF PatchDeleted, PatchTo, PatchRejected, Fault
<1>2. /\ run["listener"].pc = "loop"
      /\ UNCHANGED <<deps, pod, recv, version, indexer, notif, handled>>
  BY DEF PatchDeleted
<1> HIDE DEF a
<1>3. ToPods("listener", i) /\ UNCHANGED <<queueVars, clean>> => \E f : Patches("listener", f, i)
  BY ToPodsEffect DEF Handlers
<1>4. QED
  BY <1>1, <1>2, <1>3 DEF PatchOutcome, a

-----------------------------------------------------------------------------
(* Facts about sequences. *)

LEMMA TailKeeps ==
  ASSUME NEW S, NEW s \in Seq(S), s # <<>>, NEW i \in DOMAIN s
  PROVE  s[i] = Head(s) \/ \E j \in DOMAIN Tail(s) : Tail(s)[j] = s[i]
<1>1. CASE i = 1
  BY <1>1
<1>2. CASE i # 1
  <2>1. i - 1 \in DOMAIN Tail(s) /\ Tail(s)[i - 1] = s[i]
    BY <1>2
  <2>2. QED
    BY <2>1
<1>3. QED
  BY <1>1, <1>2

LEMMA TailIndex ==
  ASSUME NEW S, NEW s \in Seq(S), s # <<>>, NEW i \in DOMAIN Tail(s)
  PROVE  i + 1 \in DOMAIN s /\ Tail(s)[i] = s[i + 1] /\ Head(s) = s[1] /\ 1 \in DOMAIN s
         /\ i \in Nat \ {0}
OBVIOUS

LEMMA HeadIndex ==
  ASSUME NEW S, NEW s \in Seq(S), s # <<>>
  PROVE  1 \in DOMAIN s /\ Head(s) = s[1]
<1>1. Len(s) \in Nat /\ DOMAIN s = 1..Len(s) /\ Len(s) # 0
  BY EmptySeq
<1>2. QED
  BY <1>1

LEMMA AppendKeeps ==
  ASSUME NEW S, NEW s \in Seq(S), NEW x \in S
  PROVE  /\ \A i \in DOMAIN s : i \in DOMAIN Append(s, x) /\ Append(s, x)[i] = s[i]
         /\ \E i \in DOMAIN Append(s, x) : Append(s, x)[i] = x
<1>1. Append(s, x)[Len(s) + 1] = x /\ Len(s) + 1 \in DOMAIN Append(s, x)
  OBVIOUS
<1>2. QED
  BY <1>1

LEMMA AppendIndex ==
  ASSUME NEW S, NEW s \in Seq(S), NEW x \in S, NEW i \in DOMAIN Append(s, x)
  PROVE  \/ i \in DOMAIN s /\ Append(s, x)[i] = s[i]
         \/ i = Len(s) + 1 /\ i \notin DOMAIN s /\ Append(s, x)[i] = x
OBVIOUS

-----------------------------------------------------------------------------
(* The work queue: a dirty key is in line once, or being processed. *)

LEMMA AppendQueueOK ==
  ASSUME QueueTypeOK, QueueOK, NEW k \in Receivers,
         \A i \in DOMAIN queue : queue[i] # k,
         queue' = Append(queue, k),
         dirty' \ processing' = (dirty \ processing) \cup {k}
  PROVE  QueueOK'
<1>1. queue \in Seq(Receivers)
  BY DEF QueueTypeOK
<1>2. \A i \in DOMAIN queue' : queue'[i] \in dirty' \ processing'
  BY <1>1, AppendIndex DEF QueueOK
<1>3. \A x \in dirty' \ processing' : \E i \in DOMAIN queue' : queue'[i] = x
  BY <1>1, AppendKeeps DEF QueueOK
<1>4. \A i, j \in DOMAIN queue' : queue'[i] = queue'[j] => i = j
  BY <1>1, AppendIndex DEF QueueOK
<1>5. QED
  BY <1>2, <1>3, <1>4 DEF QueueOK

LEMMA QueueAddOK ==
  ASSUME QueueTypeOK, QueueOK, NEW k \in Receivers, QueueAdd(k)
  PROVE  /\ QueueOK'
         /\ dirty' = dirty \cup {k}
<1>1. CASE k \in dirty
  BY <1>1 DEF QueueAdd, QueueOK, queueVars
<1>2. CASE k \notin dirty /\ k \in processing
  BY <1>2 DEF QueueAdd, QueueOK
<1>3. CASE k \notin dirty /\ k \notin processing
  <2>1. \A i \in DOMAIN queue : queue[i] # k
    BY <1>3 DEF QueueOK
  <2>2. /\ queue' = Append(queue, k) /\ dirty' = dirty \cup {k}
        /\ dirty' \ processing' = (dirty \ processing) \cup {k}
    BY <1>3 DEF QueueAdd
  <2>3. QED
    BY <2>1, <2>2, AppendQueueOK
<1>4. QED
  BY <1>1, <1>2, <1>3

LEMMA QueueGetOK ==
  ASSUME QueueTypeOK, QueueOK, NEW k, QueueGet(k)
  PROVE  /\ QueueOK'
         /\ k \in Receivers
         /\ dirty' = dirty \ {k}
<1>1. queue \in Seq(Receivers) /\ queue # <<>> /\ k = Head(queue)
  BY DEF QueueGet, QueueTypeOK
<1>2. k \in Receivers
  BY <1>1, HeadTailProperties
<1>3. /\ queue' = Tail(queue) /\ dirty' = dirty \ {k}
      /\ dirty' \ processing' = (dirty \ processing) \ {k}
  BY DEF QueueGet
<1>4. \A i \in DOMAIN queue' : queue'[i] \in dirty' \ processing'
  BY <1>1, <1>3, TailIndex DEF QueueOK
<1>5. \A x \in dirty' \ processing' : \E i \in DOMAIN queue' : queue'[i] = x
  BY <1>1, <1>3, TailKeeps DEF QueueOK
<1>6. \A i, j \in DOMAIN queue' : queue'[i] = queue'[j] => i = j
  BY <1>1, <1>3, TailIndex DEF QueueOK
<1>7. QED
  BY <1>2, <1>3, <1>4, <1>5, <1>6 DEF QueueOK

LEMMA QueueDoneOK ==
  ASSUME QueueTypeOK, QueueOK, NEW k \in processing, QueueDone(k)
  PROVE  QueueOK' /\ dirty' = dirty
<1>1. CASE k \in dirty
  <2>1. \A i \in DOMAIN queue : queue[i] # k
    BY DEF QueueOK
  <2>2. /\ queue' = Append(queue, k) /\ dirty' = dirty /\ k \in Receivers
        /\ dirty' \ processing' = (dirty \ processing) \cup {k}
    BY <1>1 DEF QueueDone, QueueTypeOK
  <2>3. QED
    BY <2>1, <2>2, AppendQueueOK
<1>2. CASE k \notin dirty
  BY <1>2 DEF QueueDone, QueueOK
<1>3. QED
  BY <1>1, <1>2

-----------------------------------------------------------------------------
(* A Receiver stays woken until the worker reads it. *)

\* Every announcement that wakes is still there, or its key is dirty now, or
\* its deletion is being handled.
NotifKept ==
  \A i \in DOMAIN notif : Wakes(notif[i]) =>
    \/ \E j \in DOMAIN notif' : notif'[j] = notif[i]
    \/ notif[i].key \in dirty'
    \/ run'["listener"].pc # "idle" /\ run'["listener"].key = notif[i].key

ListenerKept ==
  run["listener"].pc # "idle" =>
    \/ run'["listener"].pc # "idle" /\ run'["listener"].key = run["listener"].key
    \/ run["listener"].key \in dirty'

Queued(r) == r \in dirty \/ (run["worker"].pc = "lookup" /\ run["worker"].key = r)

LookupKept(r) == Queued(r) => Queued(r)'

LEMMA WokenKept ==
  ASSUME NEW r \in Receivers, Woken(r), NotifKept, ListenerKept, LookupKept(r)
  PROVE  Woken(r)'
<1>1. ASSUME NEW i \in DOMAIN notif, notif[i].key = r, Wakes(notif[i])
      PROVE  Woken(r)'
  BY <1>1 DEF NotifKept, Woken, Wakes
<1>2. CASE run["listener"].pc # "idle" /\ run["listener"].key = r
  BY <1>2 DEF ListenerKept, Woken
<1>3. CASE r \in dirty \/ (run["worker"].pc = "lookup" /\ run["worker"].key = r)
  BY <1>3 DEF LookupKept, Queued, Woken
<1>4. QED
  BY <1>1, <1>2, <1>3 DEF Woken

\* What wakes a Receiver is kept, and the two states compared are.
WakersKept ==
  /\ QueueOK' /\ NotifKept /\ ListenerKept
  /\ \A r \in Receivers : LookupKept(r)
  /\ UNCHANGED <<indexer, handled>>

LEMMA NothingLost ==
  ASSUME NoLostUpdate, WakersKept
  PROVE  NoLostUpdate'
BY WokenKept DEF NoLostUpdate, WakersKept

LEMMA NotifSame == ASSUME notif' = notif PROVE NotifKept
BY DEF NotifKept

LEMMA ListenerSame == ASSUME run'["listener"] = run["listener"] PROVE ListenerKept
BY DEF ListenerKept

LEMMA LookupSame ==
  ASSUME NEW r, run'["worker"] = run["worker"] \/ run["worker"].pc # "lookup",
         dirty \subseteq dirty'
  PROVE  LookupKept(r)
BY DEF LookupKept, Queued

\* Returning: the listener queues its key, the worker is Done with its own.
LEMMA ReturnKeeps ==
  ASSUME TypeOK, NoLostUpdate, NEW h \in Handlers, run[h].pc \in {"loop", "pods"}, Return(h),
         UNCHANGED <<indexer, handled, notif>>
  PROVE  WakersKept
<1>1. run[h].key \in Receivers
  BY BusyKey DEF TypeOK
<1>2. /\ run' = [run EXCEPT ![h] = Idle]
      /\ \A g \in Handlers \ {h} : run'[g] = run[g]
  BY DEF Return, TypeOK, RunTypeOK
<1>3. CASE h = "worker"
  <2>1. run["worker"].key \in processing
    BY <1>3, BusyKey DEF TypeOK
  <2>2. QueueOK' /\ dirty' = dirty
    BY <1>3, <2>1, QueueDoneOK DEF Return, NoLostUpdate, TypeOK
  <2>3. ListenerKept /\ \A r \in Receivers : LookupKept(r)
    BY <1>2, <1>3, <2>2, ListenerSame, LookupSame DEF Handlers
  <2>4. QED
    BY <2>2, <2>3, NotifSame DEF WakersKept
<1>4. CASE h = "listener"
  <2>1. QueueOK' /\ dirty' = dirty \cup {run["listener"].key}
    BY <1>1, <1>4, QueueAddOK DEF Return, NoLostUpdate, TypeOK
  <2>2. ListenerKept /\ \A r \in Receivers : LookupKept(r)
    BY <1>2, <1>4, <2>1, LookupSame DEF ListenerKept, Handlers
  <2>3. QED
    BY <2>1, <2>2, NotifSame DEF WakersKept
<1>5. QED
  BY <1>3, <1>4 DEF Handlers

\* Going on in the loops.
LEMMA MovesKeeps ==
  ASSUME TypeOK, NoLostUpdate, NEW h \in Handlers, NEW f, run[h].pc \in {"loop", "pods"},
         Moves(h, f), UNCHANGED <<indexer, handled, notif>>
  PROVE  WakersKept
<1>1. run'[h] = f /\ \A g \in Handlers \ {h} : run'[g] = run[g]
  BY DEF Moves, TypeOK, RunTypeOK
<1>2. QueueOK' /\ dirty' = dirty
  BY DEF Moves, NoLostUpdate, QueueOK, queueVars
<1>3. ListenerKept /\ \A r \in Receivers : LookupKept(r)
  BY <1>1, <1>2, LookupSame DEF Moves, ListenerKept, Handlers
<1>4. QED
  BY <1>2, <1>3, NotifSame DEF WakersKept

LEMMA HandlerKeeps ==
  ASSUME TypeOK, NoLostUpdate, NEW h \in Handlers, HandlerStep(h)
  PROVE  WakersKept
BY HandlerEffect, ReturnKeeps, MovesKeeps DEF Lists, Restarts

LEMMA PatchKeeps ==
  ASSUME TypeOK, NoLostUpdate,
         \/ \E i \in run["worker"].todo : PatchCreated(i)
         \/ \E i \in run["listener"].todo : PatchDeleted(i)
  PROVE  WakersKept
<1>1. ASSUME NEW h \in Handlers, NEW i, NEW a, run[h].pc = "loop", PatchOutcome(h, i, a),
             UNCHANGED <<indexer, handled, notif>>
      PROVE  WakersKept
  BY <1>1, ReturnKeeps, MovesKeeps DEF PatchOutcome, Patches
<1>2. QED
  BY <1>1, PatchCreatedOutcome, PatchDeletedOutcome DEF Handlers

LEMMA GetKeeps ==
  ASSUME TypeOK, NoLostUpdate, Get
  PROVE  WakersKept
<1> DEFINE k == Head(queue)
<1>1. QueueOK' /\ dirty' = dirty \ {k} /\ k \in Receivers
  BY QueueGetOK DEF Get, TypeOK, NoLostUpdate
<1>2. /\ run'["listener"] = run["listener"]
      /\ run'["worker"].pc = "lookup" /\ run'["worker"].key = k
      /\ run["worker"].pc = "idle"
  BY DEF Get, TypeOK, RunTypeOK, Idle, Handlers
<1>3. \A r \in Receivers : LookupKept(r)
  BY <1>1, <1>2 DEF LookupKept, Queued
<1>4. QED
  BY <1>1, <1>2, <1>3, ListenerSame, NotifSame DEF Get, WakersKept

\* Reading the cache is what the Receiver was woken for.
LEMMA LookupNoLoss ==
  ASSUME TypeOK, NoLostUpdate, Lookup
  PROVE  /\ NoLostUpdate'
         /\ \A r \in Receivers : r # run["worker"].key /\ Woken(r) => Woken(r)'
<1> DEFINE k == run["worker"].key
<1>1. k \in Receivers /\ k \in processing
  BY BusyKey DEF Lookup, TypeOK, Handlers
<1>2. QueueOK' /\ dirty' = dirty
  <2>1. CASE UNCHANGED queueVars
    BY <2>1 DEF NoLostUpdate, QueueOK, queueVars
  <2>2. CASE QueueDone(k)
    BY <1>1, <2>2, QueueDoneOK DEF NoLostUpdate, TypeOK
  <2>3. QED
    BY <2>1, <2>2 DEF Lookup
<1>3. run'["listener"] = run["listener"]
  BY DEF Lookup, Enter, TypeOK, RunTypeOK, Handlers
<1>4. handled'[k] = indexer'[k]
  BY <1>1 DEF Lookup, TypeOK, InformerTypeOK
<1>5. ASSUME NEW r \in Receivers, r # k, Woken(r)
      PROVE  Woken(r)'
  <2>1. LookupKept(r)
    BY <1>2, <1>5 DEF LookupKept, Queued
  <2>2. QED
    BY <1>3, <1>5, <2>1, NotifSame, ListenerSame, WokenKept DEF Lookup
<1>6. ASSUME NEW r \in Receivers, r # k, handled'[r] # indexer'[r]
      PROVE  Woken(r)
  BY <1>6 DEF Lookup, NoLostUpdate, TypeOK, InformerTypeOK
<1>7. QED
  BY <1>2, <1>4, <1>5, <1>6 DEF NoLostUpdate

LEMMA TakeKeeps ==
  ASSUME InformerTypeOK, NEW type, Take(type)
  PROVE  /\ Head(notif) \in Notifications
         /\ \A i \in DOMAIN notif :
              notif[i] = Head(notif) \/ \E j \in DOMAIN notif' : notif'[j] = notif[i]
<1>1. notif \in Seq(Notifications) /\ notif # <<>> /\ notif' = Tail(notif)
  BY DEF Take, InformerTypeOK
<1>2. QED
  BY <1>1, TailKeeps, HeadTailProperties

LEMMA CallbackKeeps ==
  ASSUME TypeOK, NoLostUpdate, OnAdd \/ OnUpdate \/ OnDelete
  PROVE  WakersKept
<1> DEFINE n == Head(notif)
<1>1. /\ n \in Notifications /\ n.key \in Receivers
      /\ \A i \in DOMAIN notif : notif[i] = n \/ \E j \in DOMAIN notif' : notif'[j] = notif[i]
  BY TakeKeeps DEF OnAdd, OnUpdate, OnDelete, TypeOK, Notifications
<1>2. UNCHANGED <<indexer, handled>> /\ run["listener"].pc = "idle"
  BY DEF OnAdd, OnUpdate, OnDelete, Take
<1>3. ListenerKept
  BY <1>2 DEF ListenerKept
<1>4. QueueOK' /\ dirty \subseteq dirty'
  <2>1. CASE UNCHANGED queueVars
    BY <2>1 DEF NoLostUpdate, QueueOK, queueVars
  <2>2. CASE QueueAdd(n.key)
    BY <1>1, <2>2, QueueAddOK DEF NoLostUpdate, TypeOK
  <2>3. QED
    BY <2>1, <2>2 DEF OnAdd, OnUpdate, OnDelete
<1>5. run'["worker"] = run["worker"]
  BY DEF OnAdd, OnUpdate, OnDelete, Enter, TypeOK, RunTypeOK, Handlers
<1>6. \A r \in Receivers : LookupKept(r)
  BY <1>4, <1>5, LookupSame
<1>7. NotifKept
  <2>1. CASE OnAdd \/ OnUpdate
    <3>1. Wakes(n) => QueueAdd(n.key)
      BY <2>1 DEF OnAdd, OnUpdate, Take, Wakes
    <3>2. Wakes(n) => n.key \in dirty'
      BY <1>1, <3>1, QueueAddOK DEF NoLostUpdate, TypeOK
    <3>3. QED
      BY <1>1, <3>2 DEF NotifKept
  <2>2. CASE OnDelete
    <3>1. run'["listener"].pc # "idle" /\ run'["listener"].key = n.key
      BY <2>2 DEF OnDelete, Enter, TypeOK, RunTypeOK, Idle, Handlers
    <3>2. QED
      BY <1>1, <3>1 DEF NotifKept
  <2>3. QED
    BY <2>1, <2>2
<1>8. QED
  BY <1>2, <1>3, <1>4, <1>6, <1>7 DEF WakersKept

\* The cache changes only together with an announcement that wakes.
LEMMA ObserveNoLoss ==
  ASSUME TypeOK, NoLostUpdate, NEW r \in Receivers, Observe(r) \/ Relist(r)
  PROVE  /\ NoLostUpdate'
         /\ \A x \in Receivers : Woken(x) => Woken(x)'
<1>1. PICK type \in {"add", "update", "delete", "tombstone"}, new \in Objects :
        /\ Notify(type, r, indexer[r], new)
        /\ Observe(r) => new = recv[r] /\ (type = "update" => new.ver # indexer[r].ver)
  <2>1. recv[r] \in Objects /\ indexer[r] \in Objects
    BY ReceiverTypes DEF TypeOK
  <2>2. CASE Relist(r) /\ ~Observe(r)
    BY <2>1, <2>2 DEF Relist
  <2>3. CASE Observe(r)
    <3>1. recv[r].live /\ indexer[r].live => recv[r].ver # indexer[r].ver
      BY <2>3 DEF Observe, Behind
    <3>2. CASE Notify("update", r, indexer[r], recv[r]) /\ recv[r].live /\ indexer[r].live
      BY <2>1, <3>1, <3>2
    <3>3. CASE \E type \in {"add", "delete", "tombstone"} : Notify(type, r, indexer[r], recv[r])
      BY <2>1, <3>3
    <3>4. QED
      BY <2>3, <3>2, <3>3 DEF Observe
  <2>4. QED
    BY <2>2, <2>3
<1> DEFINE n == [type |-> type, key |-> r, old |-> indexer[r], new |-> new]
<1>2. n \in Notifications /\ notif \in Seq(Notifications) /\ notif' = Append(notif, n)
  BY <1>1, ReceiverTypes DEF Notify, TypeOK, InformerTypeOK, Notifications
<1>3. NotifKept
  BY <1>2, AppendKeeps DEF NotifKept
<1>4. PICK i \in DOMAIN notif' : notif'[i] = n
  BY <1>2, AppendKeeps
<1>5. UNCHANGED <<queueVars, run, handled>>
  BY DEF Observe, Relist
<1>6. QueueOK' /\ ListenerKept /\ \A x \in Receivers : LookupKept(x)
  BY <1>5, ListenerSame, LookupSame DEF NoLostUpdate, QueueOK, queueVars
<1>7. \A x \in Receivers : Woken(x) => Woken(x)'
  BY <1>3, <1>6, WokenKept
<1>8. CASE Observe(r)
  <2>1. Wakes(n) /\ n.key = r
    BY <1>1, <1>8 DEF Wakes
  <2>2. Woken(r)'
    BY <1>4, <2>1 DEF Woken, Wakes
  <2>3. \A x \in Receivers : x # r => indexer'[x] = indexer[x]
    BY <1>8 DEF Observe, TypeOK, InformerTypeOK
  <2>4. QED
    BY <1>5, <1>6, <1>7, <2>2, <2>3 DEF NoLostUpdate
<1>9. CASE Relist(r)
  <2>1. UNCHANGED <<indexer, handled>>
    BY <1>9 DEF Relist
  <2>2. WakersKept
    BY <1>3, <1>6, <2>1 DEF WakersKept
  <2>3. QED
    BY <1>7, <2>2, NothingLost
<1>10. QED
  BY <1>8, <1>9, <1>7

\* After a restart every Receiver that exists is announced again.
LEMMA RestartNoLoss ==
  ASSUME TypeOK, Restart
  PROVE  NoLostUpdate'
<1>1. QueueOK'
  BY DEF Restart, QueueOK
<1>2. ASSUME NEW r \in Receivers, handled'[r] # indexer'[r]
      PROVE  Woken(r)'
  <2>1. handled'[r] = Gone(recv[r]) /\ indexer'[r] = recv[r]
    BY DEF Restart
  <2>2. recv[r].live
    BY <1>2, <2>1 DEF Gone, TypeOK, InformerTypeOK, Objects
  <2>3. PICK i \in DOMAIN notif' : notif'[i].type = "add" /\ notif'[i].key = r
    BY <2>2, RestartNotifies DEF TypeOK
  <2>4. QED
    BY <2>3 DEF Woken, Wakes
<1>3. QED
  BY <1>1, <1>2 DEF NoLostUpdate

LEMMA NoLossInit == Init => NoLostUpdate
BY DEF Init, QueueInit, NoLostUpdate, QueueOK

\* Restarts apart, a step keeps what wakes the Receivers, announces a new state
\* of one, or is the worker reading the cache.
LEMMA WakingStep ==
  ASSUME TypeOK, NoLostUpdate, [Next]_vars
  PROVE  \/ WakersKept
         \/ \E r \in Receivers : Observe(r) \/ Relist(r)
         \/ Lookup
         \/ Restart
<1>1. CASE WorkerStep /\ ~Lookup
  BY <1>1, GetKeeps, HandlerKeeps, PatchKeeps DEF WorkerStep, Handlers
<1>2. CASE ListenerStep /\ ~OnTombstone
  BY <1>2, CallbackKeeps, HandlerKeeps, PatchKeeps DEF ListenerStep, Handlers
<1>3. CASE \/ ClusterNext /\ UNCHANGED <<queueVars, ctlVars>>
           \/ \E r \in Receivers : UserDeletes(r) \/ \E s \in Specs : UserApplies(r, s)
           \/ UNCHANGED vars
  <2>1. UNCHANGED <<queueVars, run, notif, indexer, handled>>
    BY <1>3 DEF UserDeletes, UserApplies, UserWrites, vars, ctlVars
  <2>2. QueueOK' /\ ListenerKept /\ \A r \in Receivers : LookupKept(r)
    BY <2>1, ListenerSame, LookupSame DEF NoLostUpdate, QueueOK, queueVars
  <2>3. QED
    BY <2>1, <2>2, NotifSame DEF WakersKept
<1>4. QED
  BY <1>1, <1>2, <1>3 DEF Next, Environment, OnTombstone, Crash

LEMMA NoLossStep == TypeOK /\ NoLostUpdate /\ [Next]_vars => NoLostUpdate'
BY WakingStep, NothingLost, ObserveNoLoss, LookupNoLoss, RestartNoLoss

\* No change of a custom resource is lost: if the worker has not read the
\* state of a Receiver that is in the cache, then something is on its way
\* that makes it read it, through every interleaving of the informer, the
\* callbacks and the worker, and through crashes (main.go:95-134,
\* controller.go:58-94).
THEOREM UpdatesReachTheWorker == Spec => []NoLostUpdate
<1>1. QED
  BY NoLossInit, NoLossStep, Typing, PTL DEF Spec

-----------------------------------------------------------------------------
(* The controller implements the level-triggered reconciler. *)

LEMMA AbstractStep == TypeOK /\ [Next]_vars => [Abstract!Next]_(Abstract!vars)
<1> SUFFICES ASSUME TypeOK, [Next]_vars PROVE [Abstract!Next]_(Abstract!vars)
  OBVIOUS
<1>1. CASE UNCHANGED <<indexer, handled>>
  BY <1>1 DEF Abstract!vars
<1>2. ASSUME NEW r \in Receivers, Observe(r)
      PROVE  Abstract!Change(r)
  <2>1. indexer' = [indexer EXCEPT ![r] = recv[r]] /\ recv[r] \in Objects
    BY <1>2, ReceiverTypes DEF Observe, TypeOK
  <2>2. indexer' \in [Receivers -> Objects]
    BY <2>1 DEF TypeOK, InformerTypeOK
  <2>3. \A x \in Receivers \ {r} : indexer'[x] = indexer[x]
    BY <2>1 DEF TypeOK, InformerTypeOK
  <2>4. QED
    BY <1>2, <2>2, <2>3 DEF Observe, Abstract!Change
<1>3. CASE Lookup
  <2> DEFINE k == run["worker"].key
  <2>1. k \in Receivers
    BY <1>3, BusyKey DEF Lookup, TypeOK, Handlers
  <2>2. handled' = [handled EXCEPT ![k] = indexer[k]] /\ indexer' = indexer
    BY <1>3 DEF Lookup
  <2>3. CASE handled[k] = indexer[k]
    <3>1. handled' = handled
      BY <2>1, <2>2, <2>3 DEF TypeOK, InformerTypeOK
    <3>2. QED
      BY <1>1, <2>2, <3>1
  <2>4. CASE handled[k] # indexer[k]
    BY <2>1, <2>2, <2>4 DEF Abstract!Handle, Abstract!Next
  <2>5. QED
    BY <2>3, <2>4
<1>4. CASE Restart
  <2>1. indexer' = recv /\ handled' = [r \in Receivers |-> Gone(indexer'[r])]
    BY <1>4 DEF Restart
  <2>2. QED
    BY <2>1 DEF TypeOK, InformerTypeOK, Abstract!Reset, Abstract!Next
<1>5. CASE \/ Get \/ OnAdd \/ OnUpdate \/ OnDelete
           \/ \E h \in Handlers : HandlerStep(h)
           \/ \E i \in run["worker"].todo : PatchCreated(i)
           \/ \E i \in run["listener"].todo : PatchDeleted(i)
           \/ Environment /\ ~Crash
           \/ UNCHANGED vars
  <2>1. UNCHANGED <<indexer, handled>>
    BY <1>5 DEF Get, OnAdd, OnUpdate, OnDelete, HandlerStep, Finish, ListDeployments, ListPods,
       DeletePod, PatchCreated, PatchDeleted, Environment, UserApplies, UserDeletes, UserWrites,
       Relist, ctlVars, vars
  <2>2. QED
    BY <1>1, <2>1
<1>6. QED
  BY <1>2, <1>3, <1>4, <1>5
     DEF Next, WorkerStep, ListenerStep, OnTombstone, Crash, Environment, Abstract!Next, Handlers

\* Every behaviour of the controller is one of the reconciler's, up to the
\* reconciler's fairness: the worker only ever reads the latest state, and
\* forgets what it has read only when it starts again.
THEOREM ReconcilerSteps == Spec => Abstract!Init /\ [][Abstract!Next]_(Abstract!vars)
<1>1. Init => Abstract!Init
  BY AbsentType DEF Init, Abstract!Init
<1>2. QED
  BY <1>1, AbstractStep, Typing, PTL DEF Spec
=============================================================================
