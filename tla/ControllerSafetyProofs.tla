------------------------ MODULE ControllerSafetyProofs ------------------------
(***************************************************************************)
(* The safety properties of the custom resource controller, proved from    *)
(* type correctness and two inductive invariants.                          *)
(***************************************************************************)
EXTENDS ControllerProofs

-----------------------------------------------------------------------------
(* The shape of the loops: which parts of a frame are in use when.         *)

FrameOK(f) ==
  /\ f.pc \in {"idle", "lookup"} => f.todo = {} /\ f.victims = {}
  /\ f.pc = "pods" => f.victims = {} /\ f.target \in Deployments
  /\ \A i, j \in f.todo : i.name = j.name => i = j

\* What the worker is still going to annotate has no policy: nobody else puts
\* one on, and the list it came from has a Deployment only once.
LoopInv ==
  /\ \A h \in Handlers : FrameOK(run[h])
  /\ \A i \in run["worker"].todo : ann[i.name].policy = None

LEMMA IdleFrame == FrameOK(Idle)
BY DEF FrameOK, Idle

LEMMA EnterFrame ==
  ASSUME NEW k, NEW spec, NEW nss
  PROVE  FrameOK([Idle EXCEPT !.pc = "loop", !.key = k, !.spec = spec, !.nss = nss])
BY DEF FrameOK, Idle

LEMMA GetFrame ==
  ASSUME NEW k
  PROVE  FrameOK([Idle EXCEPT !.pc = "lookup", !.key = k])
BY DEF FrameOK, Idle

\* Nothing the worker has left to annotate gets a policy.
NoneAdded ==
  \A i \in run'["worker"].todo : ann[i.name].policy = None => ann'[i.name].policy = None

\* One goroutine's frame changes, and the worker has no more left to annotate
\* than before.
LEMMA FrameStep ==
  ASSUME TypeOK, LoopInv, NEW h \in Handlers, NEW f \in Frames, FrameOK(f),
         f.todo \subseteq run[h].todo, run' = [run EXCEPT ![h] = f], NoneAdded
  PROVE  LoopInv'
<1>1. \A g \in Handlers : FrameOK(run'[g])
  BY DEF TypeOK, RunTypeOK, LoopInv
<1>2. run'["worker"].todo \subseteq run["worker"].todo
  BY DEF TypeOK, RunTypeOK, Handlers
<1>3. QED
  BY <1>1, <1>2 DEF LoopInv, NoneAdded

LEMMA ReturnFrame ==
  ASSUME TypeOK, LoopInv, NEW h \in Handlers, Return(h), NoneAdded
  PROVE  LoopInv'
<1>1. Idle \in Frames /\ FrameOK(Idle) /\ Idle.todo = {}
  BY IdleType, IdleFrame DEF Idle
<1>2. QED
  BY <1>1, FrameStep DEF Return

LEMMA ListedOnce ==
  ASSUME NEW spec, NEW ns, NEW i \in Listed(spec, ns), NEW j \in Listed(spec, ns)
  PROVE  /\ i.name = j.name => i = j
         /\ i.ann = ann[i.name]
BY DEF Listed

LEMMA ListDeploymentsFrame ==
  ASSUME TypeOK, LoopInv, NEW h \in Handlers, ListDeployments(h)
  PROVE  LoopInv'
<1>1. CASE Return(h)
  BY <1>1, ReturnFrame DEF ListDeployments, clusterVars, NoneAdded
<1> DEFINE listed == Listed(run[h].spec, Head(run[h].nss))
<1>2. CASE run' = [run EXCEPT ![h].todo = WorkFor(h, listed), ![h].nss = Tail(@)]
  <2>1. /\ run[h].pc = "loop" /\ run[h].victims = {}
        /\ run[h] \in Frames
    BY DEF ListDeployments, AtNamespace, TypeOK, RunTypeOK
  <2>2. /\ run'[h].pc = "loop" /\ run'[h].todo = WorkFor(h, listed)
        /\ \A g \in Handlers \ {h} : run'[g] = run[g]
    BY <1>2, <2>1 DEF TypeOK, RunTypeOK, Frames
  <2>3. WorkFor(h, listed) \subseteq listed
    BY DEF WorkFor
  <2>4. FrameOK(run'[h])
    BY <2>2, <2>3, ListedOnce DEF FrameOK
  <2>5. \A g \in Handlers : FrameOK(run'[g])
    BY <2>2, <2>4 DEF LoopInv
  <2>6. \A i \in run'["worker"].todo : ann'[i.name].policy = None
    <3>1. ann' = ann
      BY DEF ListDeployments, clusterVars
    <3>2. CASE h = "worker"
      BY <2>2, <3>1, <3>2, ListedOnce DEF WorkFor
    <3>3. CASE h = "listener"
      BY <2>2, <3>1, <3>3 DEF LoopInv, Handlers
    <3>4. QED
      BY <3>2, <3>3 DEF Handlers
  <2>7. QED
    BY <2>5, <2>6 DEF LoopInv
<1>3. QED
  BY <1>1, <1>2 DEF ListDeployments

LEMMA PatchCreatedFrame ==
  ASSUME TypeOK, LoopInv, NEW i \in run["worker"].todo, PatchCreated(i)
  PROVE  LoopInv'
<1>1. /\ run["worker"] \in Frames /\ run["worker"].victims = {} /\ i \in Items
      /\ i.name \in Deployments
  BY DEF PatchCreated, TypeOK, RunTypeOK, Frames, Items, Handlers
<1>2. CASE Return("worker")
  <2>1. NoneAdded
    BY <1>1, <1>2 DEF Return, Idle, NoneAdded, TypeOK, RunTypeOK, Handlers
  <2>2. QED
    BY <1>2, <2>1, ReturnFrame DEF Handlers
<1> DEFINE f == [run["worker"] EXCEPT !.pc = "pods", !.target = i.name, !.todo = @ \ {i}]
           a == AddPolicy(i.ann, ann[i.name], run["worker"].spec.policy)
<1>3. CASE run' = [run EXCEPT !["worker"] = f] /\ ann' = [ann EXCEPT ![i.name] = a]
  <2>1. f \in Frames /\ f.todo = run["worker"].todo \ {i}
    BY <1>1 DEF Frames
  <2>2. FrameOK(f)
    BY <1>1 DEF Frames, FrameOK, LoopInv, Handlers
  <2>3. run'["worker"] = f
    BY <1>3 DEF TypeOK, RunTypeOK, Handlers
  <2>4. \A j \in run["worker"].todo \ {i} : j.name # i.name
    BY DEF LoopInv, FrameOK, Handlers
  <2> HIDE DEF f
  <2>5. NoneAdded
    BY <1>3, <2>1, <2>3, <2>4 DEF NoneAdded, TypeOK, ClusterTypeOK
  <2>6. QED
    BY <1>3, <2>1, <2>2, <2>5, FrameStep DEF Handlers
<1>4. QED
  BY <1>2, <1>3 DEF PatchCreated, PatchTo, PatchRejected, ToPods

LEMMA RemovedPolicy ==
  ASSUME NEW seen \in Annotations, NEW a \in Annotations
  PROVE  RemovePolicy(seen, a).policy = None
BY DEF RemovePolicy, NoAnnotations, Annotations

\* The listener's patch takes the policy off, or there is no patch.
LEMMA PatchDeletedEffect ==
  ASSUME TypeOK, NEW i \in run["listener"].todo, PatchDeleted(i)
  PROVE  /\ i \in Items
         /\ ann' = ann \/ ann' = [ann EXCEPT ![i.name] = RemovePolicy(i.ann, ann[i.name])]
         /\ \A d \in Deployments : ann'[d].policy \in {ann[d].policy, None}
<1>1. i \in Items /\ i.ann \in Annotations /\ ann[i.name] \in Annotations
  BY DEF PatchDeleted, TypeOK, RunTypeOK, Frames, Items, Handlers, ClusterTypeOK
<1>2. ann' = ann \/ ann' = [ann EXCEPT ![i.name] = RemovePolicy(i.ann, ann[i.name])]
  BY DEF PatchDeleted, PatchTo, PatchRejected
<1>3. RemovePolicy(i.ann, ann[i.name]).policy = None
  BY <1>1, RemovedPolicy
<1>4. QED
  BY <1>1, <1>2, <1>3 DEF TypeOK, ClusterTypeOK

LEMMA PatchDeletedFrame ==
  ASSUME TypeOK, LoopInv, NEW i \in run["listener"].todo, PatchDeleted(i)
  PROVE  LoopInv'
<1>1. /\ run["listener"] \in Frames /\ run["listener"].victims = {}
      /\ i \in Items /\ i.name \in Deployments
  BY PatchDeletedEffect DEF PatchDeleted, TypeOK, RunTypeOK, Items, Handlers
<1>2. \A d \in Deployments : ann[d].policy = None => ann'[d].policy = None
  BY PatchDeletedEffect
<1> DEFINE f == [run["listener"] EXCEPT !.pc = "pods", !.target = i.name, !.todo = @ \ {i}]
<1>3. Return("listener") \/ run' = [run EXCEPT !["listener"] = f]
  BY DEF PatchDeleted, PatchTo, PatchRejected, ToPods
<1>4. run'["worker"] = run["worker"]
  BY <1>3 DEF Return, TypeOK, RunTypeOK, Handlers
<1>5. NoneAdded
  <2>1. \A j \in run["worker"].todo : j.name \in Deployments
    BY DEF TypeOK, RunTypeOK, Frames, Items, Handlers
  <2>2. QED
    BY <1>2, <1>4, <2>1 DEF NoneAdded
<1>6. f \in Frames /\ f.todo \subseteq run["listener"].todo
  BY <1>1 DEF Frames
<1>7. FrameOK(f)
  BY <1>1 DEF Frames, FrameOK, LoopInv, Handlers
<1> HIDE DEF f
<1>8. QED
  BY <1>3, <1>5, <1>6, <1>7, FrameStep, ReturnFrame DEF Handlers

LEMMA PodLoopFrame ==
  ASSUME TypeOK, LoopInv, NEW h \in Handlers,
         ListPods(h) \/ \E p \in run[h].victims : DeletePod(h, p)
  PROVE  LoopInv'
<1>1. run[h] \in Frames /\ ann' = ann
  BY DEF ListPods, DeletePod, TypeOK, RunTypeOK, clusterVars
<1>2. NoneAdded
  BY <1>1 DEF NoneAdded
<1>3. CASE Return(h)
  BY <1>2, <1>3, ReturnFrame
<1>4. ASSUME NEW found \in SUBSET Pods,
             run' = [run EXCEPT ![h].pc = "loop", ![h].target = None, ![h].victims = found]
      PROVE  LoopInv'
  <2> DEFINE f == [run[h] EXCEPT !.pc = "loop", !.target = None, !.victims = found]
  <2>1. f \in Frames /\ FrameOK(f) /\ f.todo = run[h].todo
    BY <1>1 DEF Frames, FrameOK, LoopInv
  <2>2. run' = [run EXCEPT ![h] = f]
    BY <1>4
  <2> HIDE DEF f
  <2>3. QED
    BY <1>2, <2>1, <2>2, FrameStep
<1>5. ASSUME NEW p, run[h].pc = "loop", run' = [run EXCEPT ![h].victims = @ \ {p}]
      PROVE  LoopInv'
  <2> DEFINE f == [run[h] EXCEPT !.victims = @ \ {p}]
  <2>1. f \in Frames /\ FrameOK(f) /\ f.todo = run[h].todo
    BY <1>1, <1>5 DEF Frames, FrameOK, LoopInv
  <2>2. run' = [run EXCEPT ![h] = f]
    BY <1>5
  <2> HIDE DEF f
  <2>3. QED
    BY <1>2, <2>1, <2>2, FrameStep
<1>6. CASE ListPods(h)
  BY <1>4, <1>6 DEF ListPods, PodsOf
<1>7. QED
  BY <1>3, <1>5, <1>6 DEF DeletePod

LEMMA HandlerStepFrame ==
  ASSUME TypeOK, LoopInv, NEW h \in Handlers, HandlerStep(h)
  PROVE  LoopInv'
<1>1. CASE Finish(h)
  BY <1>1, ReturnFrame DEF Finish, clusterVars, NoneAdded
<1>2. QED
  BY <1>1, ListDeploymentsFrame, PodLoopFrame DEF HandlerStep

\* The goroutines come out of a restart idle.
LEMMA RestartFrame ==
  ASSUME Restart
  PROVE  LoopInv' /\ UNCHANGED clusterVars
BY IdleFrame DEF Restart, LoopInv, Idle, Handlers

LEMMA LoopInit == Init => LoopInv
BY IdleFrame DEF Init, LoopInv, Idle, Handlers

LEMMA WorkerTakesFrame ==
  ASSUME TypeOK, LoopInv, Get \/ Lookup
  PROVE  LoopInv'
<1>1. ann' = ann
  BY DEF Get, Lookup, clusterVars
<1>2. /\ \A h \in Handlers \ {"worker"} : run'[h] = run[h]
      /\ FrameOK(run'["worker"]) /\ run'["worker"].todo = {}
  <2>1. CASE Get
    BY <2>1, GetFrame DEF Get, TypeOK, RunTypeOK, Idle, Handlers
  <2>2. ASSUME NEW k, NEW spec, Enter("worker", k, spec)
        PROVE  <1>2
    BY <2>2, EnterFrame DEF Enter, TypeOK, RunTypeOK, Idle, Handlers
  <2>3. CASE run' = [run EXCEPT !["worker"] = Idle]
    BY <2>3, IdleFrame DEF TypeOK, RunTypeOK, Idle, Handlers
  <2>4. QED
    BY <2>1, <2>2, <2>3 DEF Lookup
<1>3. QED
  BY <1>1, <1>2 DEF LoopInv

LEMMA CallbackFrame ==
  ASSUME TypeOK, LoopInv, OnAdd \/ OnUpdate \/ OnDelete
  PROVE  LoopInv'
<1>1. ann' = ann
  BY DEF OnAdd, OnUpdate, OnDelete, clusterVars
<1>2. CASE run' = run
  BY <1>1, <1>2 DEF LoopInv
<1>3. ASSUME NEW k, NEW spec, Enter("listener", k, spec)
      PROVE  LoopInv'
  <2>1. run'["worker"] = run["worker"] /\ FrameOK(run'["listener"])
    BY <1>3, EnterFrame DEF Enter, TypeOK, RunTypeOK, Handlers
  <2>2. QED
    BY <1>1, <2>1 DEF LoopInv, Handlers
<1>4. QED
  BY <1>2, <1>3 DEF OnAdd, OnUpdate, OnDelete

\* What the environment and the informer do to the annotations: at most the
\* Deployment controller adds its own.
LEMMA OthersEffect ==
  ASSUME TypeOK, \/ Environment /\ ~Crash
                 \/ \E r \in Receivers : Observe(r)
                 \/ UNCHANGED vars
  PROVE  /\ run' = run
         /\ \A d \in Deployments : ann'[d].policy = ann[d].policy
         /\ ann' = ann \/ \E d \in Deployments : ann' = [ann EXCEPT ![d].foreign = TRUE]
<1>1. CASE UNCHANGED <<clusterVars, run>>
  BY <1>1 DEF clusterVars
<1>2. CASE ClusterNext /\ UNCHANGED <<queueVars, ctlVars>>
  <2>1. run' = run
    BY <1>2 DEF ctlVars
  <2>2. ann' = ann \/ \E d \in Deployments : ann' = [ann EXCEPT ![d].foreign = TRUE]
    BY <1>2 DEF ClusterNext, CreateDeployment, SetRevision, EvictPod, RemovePod, CreatePod
  <2>3. QED
    BY <2>1, <2>2 DEF TypeOK, ClusterTypeOK, Annotations
<1>3. QED
  BY <1>1, <1>2 DEF Environment, UserApplies, UserDeletes, UserWrites, Relist, Observe, vars,
     ctlVars

LEMMA LoopStep == TypeOK /\ LoopInv /\ [Next]_vars => LoopInv'
<1> SUFFICES ASSUME TypeOK, LoopInv, [Next]_vars PROVE LoopInv'
  OBVIOUS
<1>1. CASE WorkerStep
  BY <1>1, WorkerTakesFrame, HandlerStepFrame, PatchCreatedFrame DEF WorkerStep, Handlers
<1>2. CASE ListenerStep
  BY <1>2, CallbackFrame, HandlerStepFrame, PatchDeletedFrame, RestartFrame
     DEF ListenerStep, OnTombstone, Handlers
<1>3. CASE Crash
  BY <1>3, RestartFrame DEF Crash
<1>4. CASE \/ Environment /\ ~Crash
           \/ \E r \in Receivers : Observe(r)
           \/ UNCHANGED vars
  <2>1. \A i \in run["worker"].todo : i.name \in Deployments
    BY DEF TypeOK, RunTypeOK, Frames, Items, Handlers
  <2>2. QED
    BY <1>4, <2>1, OthersEffect DEF LoopInv
<1>5. QED
  BY <1>1, <1>2, <1>3, <1>4 DEF Next

\* What the worker has listed without a policy and not patched yet has no
\* policy: the check in the loop is never out of date (handler.go:163-166).
THEOREM LoopInvariant == Spec => []LoopInv
<1>1. QED
  BY LoopInit, LoopStep, Typing, PTL DEF Spec

-----------------------------------------------------------------------------
(* The policy on a Deployment is never exchanged. *)

PolicyKept ==
  \A d \in Deployments : ann[d].policy # ann'[d].policy =>
    ann[d].policy = None \/ ann'[d].policy = None

\* The worker's patch may be made from an old list, and still finds the
\* Deployment without a policy.
LEMMA PatchCreatedEffect ==
  ASSUME TypeOK, LoopInv, NEW i \in run["worker"].todo, PatchCreated(i)
  PROVE  /\ i.name \in Deployments /\ ann[i.name].policy = None
         /\ ann' = ann \/ \E a : ann' = [ann EXCEPT ![i.name] = a]
<1>1. i.name \in Deployments
  BY DEF TypeOK, RunTypeOK, Frames, Items, Handlers
<1>2. ann[i.name].policy = None
  BY DEF LoopInv
<1>3. ann' = ann \/ \E a : ann' = [ann EXCEPT ![i.name] = a]
  BY DEF PatchCreated, PatchTo, PatchRejected
<1>4. QED
  BY <1>1, <1>2, <1>3

\* Every other step of the goroutines leaves the annotations alone.
LEMMA AnnotationsKept ==
  ASSUME \/ Get \/ Lookup \/ OnAdd \/ OnUpdate \/ OnDelete \/ OnTombstone \/ Crash
         \/ \E h \in Handlers : HandlerStep(h)
  PROVE  ann' = ann
<1>1. CASE OnTombstone \/ Crash
  BY <1>1, RestartFrame DEF OnTombstone, Crash, clusterVars
<1>2. ASSUME NEW h \in Handlers, HandlerStep(h)
      PROVE  ann' = ann
  BY <1>2 DEF HandlerStep, Finish, ListDeployments, ListPods, DeletePod, clusterVars
<1>3. QED
  BY <1>1, <1>2 DEF Get, Lookup, OnAdd, OnUpdate, OnDelete, clusterVars

LEMMA PolicyStep == TypeOK /\ LoopInv /\ [Next]_vars => PolicyKept
<1> SUFFICES ASSUME TypeOK, LoopInv, [Next]_vars PROVE PolicyKept
  OBVIOUS
<1>1. CASE ann' = ann
  BY <1>1 DEF PolicyKept
<1>2. ASSUME NEW i \in run["worker"].todo, PatchCreated(i)
      PROVE  PolicyKept
  BY <1>2, PatchCreatedEffect DEF PolicyKept, TypeOK, ClusterTypeOK
<1>3. ASSUME NEW i \in run["listener"].todo, PatchDeleted(i)
      PROVE  PolicyKept
  BY <1>3, PatchDeletedEffect DEF PolicyKept
<1>4. CASE \/ Environment /\ ~Crash
           \/ \E r \in Receivers : Observe(r)
           \/ UNCHANGED vars
  BY <1>4, OthersEffect DEF PolicyKept
<1>5. QED
  BY <1>1, <1>2, <1>3, <1>4, AnnotationsKept DEF Next, WorkerStep, ListenerStep, Handlers

\* No policy is ever replaced by another one: ObjectCreated skips Deployments
\* that have one and decides so from a list, and by the time it patches the
\* list is still right about it, since there is one worker and the listener
\* only takes policies off (handler.go:136-204).
THEOREM PolicyStability == Spec => PolicyStable
<1>1. TypeOK /\ LoopInv /\ [Next]_vars =>
        [\A d \in Deployments : ann[d].policy # ann'[d].policy =>
            ann[d].policy = None \/ ann'[d].policy = None]_vars
  BY PolicyStep DEF PolicyKept
<1>2. QED
  BY <1>1, Typing, LoopInvariant, PTL DEF Spec, PolicyStable

-----------------------------------------------------------------------------
(* Every patch applies.                                                    *)

\* What the worker has listed without a policy but with annotations still has
\* annotations, and what the listener has listed with a policy still has one.
PatchInv ==
  /\ \A i \in run["worker"].todo : /\ i.ann.policy = None
                                   /\ i.ann.foreign => ann[i.name].foreign
  /\ \A i \in run["listener"].todo : i.ann.policy # None => ann[i.name].policy # None

\* A goroutine has no more left to patch than before.
FewerLeft == \A h \in Handlers : run'[h].todo \subseteq run[h].todo

\* What was listed is kept for the Deployments that are left.
ListedKept ==
  /\ \A i \in run'["worker"].todo : ann[i.name].foreign => ann'[i.name].foreign
  /\ \A i \in run'["listener"].todo : ann[i.name].policy # None => ann'[i.name].policy # None

LEMMA KeptPatchInv ==
  ASSUME PatchInv, FewerLeft, ListedKept
  PROVE  PatchInv'
BY DEF PatchInv, FewerLeft, ListedKept, Handlers

LEMMA TodoTypes ==
  ASSUME TypeOK, NEW h \in Handlers, NEW i \in run[h].todo
  PROVE  i \in Items /\ i.name \in Deployments /\ i.ann \in Annotations
BY DEF TypeOK, RunTypeOK, Frames, Items

LEMMA ReturnTodo ==
  ASSUME TypeOK, NEW h \in Handlers, Return(h)
  PROVE  run'[h].todo = {} /\ \A g \in Handlers \ {h} : run'[g] = run[g]
BY DEF Return, Idle, TypeOK, RunTypeOK

LEMMA MovesTodo ==
  ASSUME TypeOK, NEW h \in Handlers, NEW f, Moves(h, f)
  PROVE  run'[h] = f /\ \A g \in Handlers \ {h} : run'[g] = run[g]
BY DEF Moves, TypeOK, RunTypeOK

LEMMA HandlerPatchInv ==
  ASSUME TypeOK, PatchInv, NEW h \in Handlers, HandlerStep(h)
  PROVE  PatchInv'
<1>1. ann' = ann
  BY AnnotationsKept
<1>2. ASSUME FewerLeft PROVE PatchInv'
  BY <1>1, <1>2, KeptPatchInv DEF ListedKept
<1>3. ASSUME NEW f, Lists(h, f) PROVE PatchInv'
  <2>1. f.todo \subseteq Listed(run[h].spec, Head(run[h].nss))
    BY <1>3 DEF Lists, WorkFor
  <2>2. \A i \in f.todo : i.ann = ann[i.name]
    BY <2>1, ListedOnce
  <2>3. h = "worker" => \A i \in f.todo : i.ann.policy = None
    BY <1>3 DEF Lists, WorkFor
  <2>4. run'[h] = f /\ \A g \in Handlers \ {h} : run'[g] = run[g]
    BY <1>3, MovesTodo DEF Lists
  <2>5. QED
    BY <1>1, <2>2, <2>3, <2>4 DEF PatchInv, Handlers
<1>4. ASSUME NEW f, Restarts(h, f) PROVE FewerLeft
  BY <1>4, MovesTodo DEF Restarts, FewerLeft
<1>5. CASE Return(h)
  BY <1>2, <1>5, ReturnTodo DEF FewerLeft
<1>6. QED
  BY <1>2, <1>3, <1>4, <1>5, HandlerEffect

\* The goroutine that patches goes on without the item, or returns.
LEMMA PatchTodo ==
  ASSUME TypeOK, LoopInv, NEW h \in Handlers, NEW i \in run[h].todo, NEW a, PatchOutcome(h, i, a)
  PROVE  /\ FewerLeft
         /\ \A g \in Handlers \ {h} : run'[g] = run[g]
         /\ \A j \in run'[h].todo : j \in run[h].todo /\ j.name # i.name
         /\ ann' = ann \/ ann' = [ann EXCEPT ![i.name] = a]
<1>1. \/ run'[h].todo = {}
      \/ run'[h].todo = run[h].todo \ {i}
  BY ReturnTodo, MovesTodo DEF PatchOutcome, Patches
<1>2. \A g \in Handlers \ {h} : run'[g] = run[g]
  BY ReturnTodo, MovesTodo DEF PatchOutcome, Patches
<1>3. \A j \in run[h].todo \ {i} : j.name # i.name
  BY DEF LoopInv, FrameOK
<1>4. ann' = ann \/ ann' = [ann EXCEPT ![i.name] = a]
  BY DEF PatchOutcome
<1>5. QED
  BY <1>1, <1>2, <1>3, <1>4 DEF FewerLeft

\* The listener only patches Deployments with a policy, of which the worker has
\* none left, and the worker puts policies on.
LEMMA PatchPatchInv ==
  ASSUME TypeOK, LoopInv, PatchInv,
         \/ \E i \in run["worker"].todo : PatchCreated(i)
         \/ \E i \in run["listener"].todo : PatchDeleted(i)
  PROVE  PatchInv'
<1>1. \A h \in Handlers : \A j \in run[h].todo : j.name \in Deployments
  BY TodoTypes
<1>2. ASSUME NEW i \in run["worker"].todo, PatchCreated(i)
      PROVE  FewerLeft /\ ListedKept
  <2> DEFINE a == AddPolicy(i.ann, ann[i.name], run["worker"].spec.policy)
  <2>1. PatchOutcome("worker", i, a)
    BY <1>2, PatchCreatedOutcome
  <2>2. ann[i.name].policy = None
    BY DEF LoopInv
  <2> HIDE DEF a
  <2>3. /\ FewerLeft
        /\ run'["listener"] = run["listener"]
        /\ \A j \in run'["worker"].todo : j \in run["worker"].todo /\ j.name # i.name
        /\ ann' = ann \/ ann' = [ann EXCEPT ![i.name] = a]
    BY <2>1, PatchTodo DEF Handlers
  <2>4. QED
    BY <1>1, <2>2, <2>3 DEF ListedKept, Handlers, TypeOK, ClusterTypeOK
<1>3. ASSUME NEW i \in run["listener"].todo, PatchDeleted(i)
      PROVE  FewerLeft /\ ListedKept
  <2> DEFINE a == RemovePolicy(i.ann, ann[i.name])
  <2>1. PatchOutcome("listener", i, a) /\ (ann' = ann \/ i.ann.policy # None)
    BY <1>3, PatchDeletedOutcome
  <2>2. i.ann.policy # None => \A j \in run["worker"].todo : j.name # i.name
    BY DEF LoopInv, PatchInv
  <2> HIDE DEF a
  <2>3. /\ FewerLeft
        /\ run'["worker"] = run["worker"]
        /\ \A j \in run'["listener"].todo : j \in run["listener"].todo /\ j.name # i.name
        /\ ann' = ann \/ ann' = [ann EXCEPT ![i.name] = a]
    BY <2>1, PatchTodo DEF Handlers
  <2>4. QED
    BY <1>1, <2>1, <2>2, <2>3 DEF ListedKept, Handlers, TypeOK, ClusterTypeOK
<1>4. QED
  BY <1>2, <1>3, KeptPatchInv

\* A goroutine that takes up something new has nothing to patch yet.
LEMMA TakesPatchInv ==
  ASSUME TypeOK, LoopInv, PatchInv, Get \/ Lookup \/ OnAdd \/ OnUpdate \/ OnDelete
  PROVE  PatchInv'
<1>1. ann' = ann
  BY AnnotationsKept
<1>2. FewerLeft
  <2>1. ASSUME NEW h \in Handlers, NEW k, NEW spec, Enter(h, k, spec)
        PROVE  FewerLeft
    BY <2>1 DEF Enter, Idle, FewerLeft, TypeOK, RunTypeOK
  <2>2. CASE Get
    BY <2>2 DEF Get, Idle, FewerLeft, TypeOK, RunTypeOK
  <2>3. CASE run' = [run EXCEPT !["worker"] = Idle]
    BY <2>3 DEF Idle, FewerLeft, TypeOK, RunTypeOK
  <2>4. QED
    BY <2>1, <2>2, <2>3 DEF Lookup, OnAdd, OnUpdate, OnDelete, FewerLeft, Handlers
<1>3. QED
  BY <1>1, <1>2, KeptPatchInv DEF ListedKept

LEMMA PatchInvInit == Init => PatchInv
BY DEF Init, PatchInv, Idle, Handlers

LEMMA PatchInvStep == TypeOK /\ LoopInv /\ PatchInv /\ [Next]_vars => PatchInv'
<1> SUFFICES ASSUME TypeOK, LoopInv, PatchInv, [Next]_vars PROVE PatchInv'
  OBVIOUS
<1>1. CASE OnTombstone \/ Crash
  BY <1>1 DEF OnTombstone, Crash, Restart, Idle, Handlers, PatchInv
<1>2. CASE \/ Environment /\ ~Crash
           \/ \E r \in Receivers : Observe(r)
           \/ UNCHANGED vars
  <2>1. FewerLeft
    BY <1>2, OthersEffect DEF FewerLeft
  <2>2. \A d \in Deployments : /\ ann'[d].policy = ann[d].policy
                               /\ ann[d].foreign => ann'[d].foreign
    <3>1. \A d \in Deployments : ann'[d].policy = ann[d].policy
      BY <1>2, OthersEffect
    <3>2. ASSUME NEW d \in Deployments, ann[d].foreign
          PROVE  ann'[d].foreign
      <4>1. ann' = ann \/ \E e \in Deployments : ann' = [ann EXCEPT ![e].foreign = TRUE]
        BY <1>2, OthersEffect
      <4>2. ASSUME NEW e \in Deployments, ann' = [ann EXCEPT ![e].foreign = TRUE]
            PROVE  ann'[d].foreign
        BY <3>2, <4>2 DEF TypeOK, ClusterTypeOK, Annotations
      <4>3. QED
        BY <3>2, <4>1, <4>2
    <3>3. QED
      BY <3>1, <3>2
  <2>3. ListedKept
    BY <1>2, <2>2, OthersEffect, TodoTypes DEF ListedKept, Handlers
  <2>4. QED
    BY <2>1, <2>3, KeptPatchInv
<1>3. QED
  BY <1>1, <1>2, TakesPatchInv, HandlerPatchInv, PatchPatchInv
     DEF Next, WorkerStep, ListenerStep, Handlers

\* No patch is ever turned down, for every interleaving of the two handlers with
\* each other, with the Deployment controller and with failures: the listener
\* never takes the map of annotations away under the worker, because what it
\* patches has a policy and what the worker has left to patch has none
\* (handler.go:194-197, 336-340).
THEOREM PatchesAlwaysApply == Spec => []PatchesApply
<1>1. TypeOK /\ PatchInv => PatchesApply
  <2> SUFFICES ASSUME TypeOK, PatchInv PROVE PatchesApply
    OBVIOUS
  <2>1. ASSUME NEW i \in run["worker"].todo
        PROVE  AddPolicyApplies(i.ann, ann[i.name])
    <3>1. i.ann \in Annotations /\ i.ann.policy = None
      BY TodoTypes DEF PatchInv, Handlers
    <3>2. CASE i.ann.foreign
      <4>1. ann[i.name].foreign /\ ~NoAnnotations.foreign
        BY <3>2 DEF PatchInv, NoAnnotations
      <4>2. QED
        BY <4>1 DEF AddPolicyApplies
    <3>3. CASE ~i.ann.foreign
      <4>1. i.ann = NoAnnotations
        BY <3>1, <3>3 DEF Annotations, NoAnnotations
      <4>2. QED
        BY <4>1 DEF AddPolicyApplies
    <3>4. QED
      BY <3>2, <3>3
  <2>2. ASSUME NEW i \in run["listener"].todo, i.ann.policy # None
        PROVE  RemovePolicyApplies(i.ann, ann[i.name])
    BY <2>2 DEF RemovePolicyApplies, PatchInv, NoAnnotations
  <2>3. QED
    BY <2>1, <2>2 DEF PatchesApply
<1>2. QED
  BY <1>1, PatchInvInit, PatchInvStep, Typing, LoopInvariant, PTL DEF Spec

-----------------------------------------------------------------------------
(* Policies change for a reason.                                           *)

\* ns is one of the namespaces a handler of the spec goes through.
Names(spec, ns) == \E k \in DOMAIN NamespacesOf(spec) : NamespacesOf(spec)[k] = ns

LEMMA TargetsNamed ==
  ASSUME NEW spec \in Specs, NEW d \in Deployments
  PROVE  d \in Targets(spec) <=> d \in deps /\ d \in spec.selects /\ Names(spec, NsOf[d])
<1> DEFINE named == {spec.namespaces[k] : k \in DOMAIN spec.namespaces}
<1>1. spec.namespaces \in Seq(Namespaces \cup {""})
  BY ControllerAssumption
<1>2. CASE spec.namespaces = <<>>
  <2>1. named = {} /\ NamespacesOf(spec) = <<"default">>
    BY <1>2 DEF NamespacesOf
  <2>2. Names(spec, NsOf[d]) <=> NsOf[d] = "default"
    BY <2>1 DEF Names
  <2>3. QED
    BY <2>1, <2>2 DEF Targets
<1>3. CASE spec.namespaces # <<>>
  <2>1. 1 \in DOMAIN spec.namespaces
    BY <1>1, <1>3, HeadIndex
  <2>2. named # {} /\ NamespacesOf(spec) = spec.namespaces
    BY <1>3, <2>1 DEF NamespacesOf
  <2>3. Names(spec, NsOf[d]) <=> NsOf[d] \in named
    BY <2>2 DEF Names
  <2>4. QED
    BY <2>2, <2>3 DEF Targets
<1>4. QED
  BY <1>2, <1>3

\* A goroutine in its loops is going to do what its spec is about.
FrameFor(f) ==
  f.pc \in {"loop", "pods"} =>
    /\ \A j \in DOMAIN f.nss : Names(f.spec, f.nss[j])
    /\ \A i \in f.todo : i.name \in Targets(f.spec)

\* The worker in its loops serves the Receiver as it last read it.
Serves(f) ==
  f.pc \in {"loop", "pods"} => handled[f.key].live /\ handled[f.key].spec = f.spec

ReasonInv == (\A h \in Handlers : FrameFor(run[h])) /\ Serves(run["worker"])

LEMMA TargetsGrow ==
  ASSUME deps \subseteq deps', NEW spec
  PROVE  Targets(spec) \subseteq Targets(spec)'
BY DEF Targets

\* One goroutine's frame changes, or none.
LEMMA ReasonKept ==
  ASSUME TypeOK, ReasonInv, deps \subseteq deps', NEW h \in Handlers, NEW f,
         run' = [run EXCEPT ![h] = f], FrameFor(f)',
         IF h = "worker" THEN Serves(f)' ELSE handled' = handled
  PROVE  ReasonInv'
<1>1. run'[h] = f /\ \A g \in Handlers \ {h} : run'[g] = run[g]
  BY DEF TypeOK, RunTypeOK
<1>2. ASSUME NEW g \in Handlers \ {h}
      PROVE  FrameFor(run[g])'
  <2>1. run'[g] = run[g] /\ FrameFor(run[g])
    BY <1>1 DEF ReasonInv
  <2>2. QED
    BY <2>1, TargetsGrow DEF FrameFor
<1>3. Serves(run["worker"])'
  BY <1>1 DEF ReasonInv, Serves, Handlers
<1>4. QED
  BY <1>1, <1>2, <1>3 DEF ReasonInv

LEMMA SameReason ==
  ASSUME ReasonInv, deps \subseteq deps', UNCHANGED <<run, handled>>
  PROVE  ReasonInv'
<1>1. \A h \in Handlers : FrameFor(run[h])'
  BY TargetsGrow DEF ReasonInv, FrameFor
<1>2. QED
  BY <1>1 DEF ReasonInv, Serves

LEMMA IdleReason == FrameFor(Idle) /\ Serves(Idle)
BY DEF FrameFor, Serves, Idle

LEMMA ReturnReason ==
  ASSUME TypeOK, ReasonInv, NEW h \in Handlers, Return(h), UNCHANGED <<deps, handled>>
  PROVE  ReasonInv'
<1>1. FrameFor(Idle)' /\ Serves(Idle)'
  BY DEF FrameFor, Serves, Idle
<1>2. QED
  BY <1>1, ReasonKept DEF Return

\* Going on in the loops: with less left, or with one namespace listed.
LEMMA MovesReason ==
  ASSUME TypeOK, ReasonInv, NEW h \in Handlers, NEW f, Moves(h, f), run[h].pc \in {"loop", "pods"},
         UNCHANGED <<deps, handled>>,
         \A j \in DOMAIN f.nss : \E k \in DOMAIN run[h].nss : f.nss[j] = run[h].nss[k],
         \A i \in f.todo : i \in run[h].todo \/ i.name \in Targets(run[h].spec)
  PROVE  ReasonInv'
<1>1. FrameFor(f)
  BY DEF Moves, FrameFor, ReasonInv
<1>2. h = "worker" => Serves(f)
  BY DEF Moves, Serves, ReasonInv
<1>3. FrameFor(f)' /\ (h = "worker" => Serves(f)')
  BY <1>1, <1>2, TargetsGrow DEF FrameFor, Serves
<1>4. QED
  BY <1>3, ReasonKept DEF Moves

LEMMA ListsReason ==
  ASSUME TypeOK, ReasonInv, NEW h \in Handlers, NEW f, Lists(h, f), UNCHANGED <<deps, handled>>
  PROVE  ReasonInv'
<1>1. /\ run[h].nss \in Seq(Namespaces \cup {""}) /\ run[h].nss # <<>> /\ run[h].pc = "loop"
      /\ run[h].spec \in Specs
  BY DEF Lists, HasNamespace, AtNamespace, TypeOK, RunTypeOK, Frames
<1>2. f.nss = Tail(run[h].nss) /\ Moves(h, f)
  BY DEF Lists
<1>3. ASSUME NEW j \in DOMAIN f.nss
      PROVE  \E k \in DOMAIN run[h].nss : f.nss[j] = run[h].nss[k]
  <2>1. j + 1 \in DOMAIN run[h].nss /\ f.nss[j] = run[h].nss[j + 1]
    BY <1>1, <1>2, <1>3, TailIndex
  <2>2. QED
    BY <2>1
<1>4. Names(run[h].spec, Head(run[h].nss))
  <2>1. 1 \in DOMAIN run[h].nss /\ Head(run[h].nss) = run[h].nss[1]
    BY <1>1, HeadIndex
  <2>2. QED
    BY <1>1, <2>1 DEF ReasonInv, FrameFor
<1>5. ASSUME NEW i \in f.todo
      PROVE  i.name \in Targets(run[h].spec)
  <2>1. i \in Listed(run[h].spec, Head(run[h].nss))
    BY DEF Lists, WorkFor
  <2>2. i.name \in deps \cap run[h].spec.selects /\ NsOf[i.name] = Head(run[h].nss)
    BY <2>1 DEF Listed
  <2>3. i.name \in Deployments
    BY <2>2 DEF TypeOK, ClusterTypeOK
  <2>4. QED
    BY <1>1, <1>4, <2>2, <2>3, TargetsNamed
<1>6. QED
  BY <1>1, <1>2, <1>3, <1>5, MovesReason

LEMMA HandlerReason ==
  ASSUME TypeOK, ReasonInv, NEW h \in Handlers, HandlerStep(h)
  PROVE  ReasonInv'
<1>1. run[h].pc \in {"loop", "pods"} /\ UNCHANGED <<deps, handled>>
  BY HandlerEffect
<1>2. ASSUME NEW f, Restarts(h, f) PROVE ReasonInv'
  BY <1>1, <1>2, MovesReason DEF Restarts
<1>3. QED
  BY <1>1, <1>2, ReturnReason, ListsReason, HandlerEffect

LEMMA PatchReason ==
  ASSUME TypeOK, ReasonInv, NEW h \in Handlers, NEW i, NEW a, run[h].pc = "loop",
         PatchOutcome(h, i, a), UNCHANGED <<deps, handled>>
  PROVE  ReasonInv'
<1>1. ASSUME NEW f, Patches(h, f, i) PROVE ReasonInv'
  BY <1>1, MovesReason DEF Patches
<1>2. QED
  BY <1>1, ReturnReason DEF PatchOutcome

LEMMA EnterReason ==
  ASSUME NEW f, f.todo = {}, f.nss = NamespacesOf(f.spec)
  PROVE  FrameFor(f)'
BY DEF FrameFor, Names

\* The worker serves what it has just read, and the listener the object that
\* was deleted.
LEMMA TakesReason ==
  ASSUME TypeOK, ReasonInv, Get \/ Lookup \/ OnAdd \/ OnUpdate \/ OnDelete
  PROVE  ReasonInv'
<1>1. deps' = deps
  BY DEF Get, Lookup, OnAdd, OnUpdate, OnDelete, clusterVars
<1>2. CASE Get
  <2>1. PICK f : f = [Idle EXCEPT !.pc = "lookup", !.key = Head(queue)]
    OBVIOUS
  <2>2. run' = [run EXCEPT !["worker"] = f] /\ handled' = handled
    BY <1>2, <2>1 DEF Get
  <2>3. f.pc = "lookup"
    BY <2>1 DEF Idle
  <2>4. FrameFor(f)' /\ Serves(f)'
    BY <2>3 DEF FrameFor, Serves
  <2>5. QED
    BY <1>1, <2>2, <2>4, ReasonKept DEF Handlers
<1>3. CASE Lookup
  <2>1. PICK k \in Receivers : k = run["worker"].key
    BY <1>3, BusyKey DEF Lookup, TypeOK, Handlers
  <2>2. handled'[k] = indexer[k]
    BY <1>3, <2>1 DEF Lookup, TypeOK, InformerTypeOK
  <2>3. CASE indexer[k].live
    <3>1. PICK f : f = [Idle EXCEPT !.pc = "loop", !.key = k, !.spec = indexer[k].spec,
                                    !.nss = NamespacesOf(indexer[k].spec)]
      OBVIOUS
    <3>2. run' = [run EXCEPT !["worker"] = f]
      BY <1>3, <2>1, <2>3, <3>1 DEF Lookup, Enter
    <3>3. /\ f.key = k /\ f.spec = indexer[k].spec
          /\ f.todo = {} /\ f.nss = NamespacesOf(f.spec)
      BY <3>1 DEF Idle
    <3>4. FrameFor(f)' /\ Serves(f)'
      BY <2>2, <2>3, <3>3, EnterReason DEF Serves
    <3>5. QED
      BY <1>1, <3>2, <3>4, ReasonKept DEF Handlers
  <2>4. CASE ~indexer[k].live
    <3>1. run' = [run EXCEPT !["worker"] = Idle]
      BY <1>3, <2>1, <2>4 DEF Lookup
    <3>2. FrameFor(Idle)' /\ Serves(Idle)'
      BY DEF FrameFor, Serves, Idle
    <3>3. QED
      BY <1>1, <3>1, <3>2, ReasonKept DEF Handlers
  <2>5. QED
    BY <2>3, <2>4
<1>4. CASE OnDelete
  <2>1. PICK k, spec : k = Head(notif).key /\ spec = Head(notif).old.spec
    OBVIOUS
  <2>2. PICK f : f = [Idle EXCEPT !.pc = "loop", !.key = k, !.spec = spec,
                                  !.nss = NamespacesOf(spec)]
    OBVIOUS
  <2>3. run' = [run EXCEPT !["listener"] = f] /\ handled' = handled
    BY <1>4, <2>1, <2>2 DEF OnDelete, Enter
  <2>4. f.todo = {} /\ f.nss = NamespacesOf(f.spec)
    BY <2>2 DEF Idle
  <2>5. FrameFor(f)'
    BY <2>4, EnterReason
  <2>6. QED
    BY <1>1, <2>3, <2>5, ReasonKept DEF Handlers
<1>5. CASE OnAdd \/ OnUpdate
  <2>1. run' = run /\ handled' = handled
    BY <1>5 DEF OnAdd, OnUpdate
  <2>2. QED
    BY <1>1, <2>1, SameReason
<1>6. QED
  BY <1>2, <1>3, <1>4, <1>5

LEMMA ReasonInit == Init => ReasonInv
BY IdleReason DEF Init, ReasonInv, Handlers

LEMMA DeploymentsStay ==
  ASSUME Environment \/ (\E r \in Receivers : Observe(r)) \/ UNCHANGED vars
  PROVE  deps \subseteq deps'
BY DEF Environment, ClusterNext, CreateDeployment, SetRevision, EvictPod, RemovePod, CreatePod,
   UserApplies, UserDeletes, UserWrites, Relist, Crash, Restart, Observe, clusterVars, vars

LEMMA ReasonStep == TypeOK /\ ReasonInv /\ [Next]_vars => ReasonInv'
<1> SUFFICES ASSUME TypeOK, ReasonInv, [Next]_vars PROVE ReasonInv'
  OBVIOUS
<1>1. CASE Restart
  <2>1. \A h \in Handlers : run'[h] = Idle
    BY <1>1 DEF Restart
  <2>2. FrameFor(Idle)' /\ Serves(Idle)'
    BY DEF FrameFor, Serves, Idle
  <2>3. QED
    BY <2>1, <2>2 DEF ReasonInv, Handlers
<1>2. CASE \/ Environment /\ ~Crash
           \/ \E r \in Receivers : Observe(r)
           \/ UNCHANGED vars
  <2>1. deps \subseteq deps'
    BY <1>2, DeploymentsStay
  <2>2. UNCHANGED <<run, handled>>
    BY <1>2 DEF Environment, UserApplies, UserDeletes, UserWrites, Relist, Observe, vars, ctlVars
  <2>3. QED
    BY <2>1, <2>2, SameReason
<1>3. ASSUME NEW i \in run["worker"].todo, PatchCreated(i)
      PROVE  ReasonInv'
  BY <1>3, PatchCreatedOutcome, PatchReason DEF Handlers
<1>4. ASSUME NEW i \in run["listener"].todo, PatchDeleted(i)
      PROVE  ReasonInv'
  BY <1>4, PatchDeletedOutcome, PatchReason DEF Handlers
<1>5. QED
  BY <1>1, <1>2, <1>3, <1>4, TakesReason, HandlerReason
     DEF Next, WorkerStep, ListenerStep, OnTombstone, Crash, Handlers

\* The property of one step.
ReasonGiven ==
  \A d \in Deployments : ann'[d].policy # ann[d].policy =>
    IF ann'[d].policy # None THEN AddedFor(d, ann'[d].policy) ELSE RemovedFor(d)

LEMMA PatchCreatedGiven ==
  ASSUME TypeOK, LoopInv, ReasonInv, NEW i \in run["worker"].todo, PatchCreated(i)
  PROVE  ReasonGiven
<1> DEFINE w == run["worker"]
           a == AddPolicy(i.ann, ann[i.name], w.spec.policy)
<1>1. /\ w.pc = "loop" /\ w.key \in Receivers /\ w.spec \in Specs
      /\ i.name \in Deployments
  BY PatchCreatedOutcome, BusyKey, TodoTypes DEF TypeOK, RunTypeOK, Handlers
<1>2. ann' = ann \/ ann' = [ann EXCEPT ![i.name] = a]
  BY PatchCreatedOutcome DEF PatchOutcome
<1>3. a.policy = w.spec.policy /\ w.spec.policy # None
  <2>1. w.spec.policy # None
    BY <1>1, ControllerAssumption, ClusterAssumption
  <2>2. ann[i.name] \in Annotations
    BY <1>1 DEF TypeOK, ClusterTypeOK
  <2>3. a.policy = w.spec.policy
    BY <2>2 DEF AddPolicy, Annotations
  <2>4. QED
    BY <2>1, <2>3
<1>4. AddedFor(i.name, w.spec.policy)
  BY <1>1 DEF AddedFor, ReasonInv, FrameFor, Serves, Handlers
<1> HIDE DEF a, w
<1>5. ASSUME NEW d \in Deployments, ann'[d].policy # ann[d].policy
      PROVE  d = i.name /\ ann'[d] = a
  BY <1>2, <1>5 DEF TypeOK, ClusterTypeOK
<1>6. QED
  BY <1>3, <1>4, <1>5 DEF ReasonGiven

LEMMA PatchDeletedGiven ==
  ASSUME TypeOK, ReasonInv, NEW i \in run["listener"].todo, PatchDeleted(i)
  PROVE  ReasonGiven
<1>1. /\ run["listener"].pc = "loop" /\ run["listener"].key \in Receivers
      /\ i.name \in Targets(run["listener"].spec)
  BY PatchDeletedOutcome, BusyKey DEF ReasonInv, FrameFor, TypeOK, RunTypeOK, Handlers
<1>2. RemovedFor(i.name)
  BY <1>1 DEF RemovedFor
<1>3. /\ ann' = ann \/ ann' = [ann EXCEPT ![i.name] = RemovePolicy(i.ann, ann[i.name])]
      /\ \A d \in Deployments : ann'[d].policy \in {ann[d].policy, None}
  BY PatchDeletedEffect
<1>4. ASSUME NEW d \in Deployments, ann'[d].policy # ann[d].policy
      PROVE  d = i.name /\ ann'[d].policy = None
  BY <1>3, <1>4 DEF TypeOK, ClusterTypeOK
<1>5. QED
  BY <1>2, <1>4 DEF ReasonGiven

LEMMA GivenStep == TypeOK /\ LoopInv /\ ReasonInv /\ [Next]_vars => ReasonGiven
<1> SUFFICES ASSUME TypeOK, LoopInv, ReasonInv, [Next]_vars PROVE ReasonGiven
  OBVIOUS
<1>1. CASE ann' = ann
  BY <1>1 DEF ReasonGiven
<1>2. CASE \/ Environment /\ ~Crash
           \/ \E r \in Receivers : Observe(r)
           \/ UNCHANGED vars
  BY <1>2, OthersEffect DEF ReasonGiven
<1>3. QED
  BY <1>1, <1>2, PatchCreatedGiven, PatchDeletedGiven, AnnotationsKept
     DEF Next, WorkerStep, ListenerStep, Handlers

\* No Deployment gets a policy unless the worker serves a Receiver that asked
\* for it when it was last read, and none loses one unless the listener handles
\* the deletion of a Receiver that was about it, at whatever point of its loops
\* a handler is and however old its lists are (handler.go:98-240, 242-382).
THEOREM PoliciesForReason == Spec => PolicyForReason
<1>1. TypeOK /\ LoopInv /\ ReasonInv /\ [Next]_vars =>
        [\A d \in Deployments : ann'[d].policy # ann[d].policy =>
            IF ann'[d].policy # None THEN AddedFor(d, ann'[d].policy) ELSE RemovedFor(d)]_vars
  BY GivenStep DEF ReasonGiven
<1>2. QED
  BY <1>1, ReasonInit, ReasonStep, Typing, LoopInvariant, PTL DEF Spec, PolicyForReason

-----------------------------------------------------------------------------
(* Nothing is left undone.                                                 *)

\* There is one Receiver at most.  With two, the deletion of one takes the
\* policy off a Deployment that the other one still asks for, and nobody puts
\* it back.
OneReceiver == \A r, s \in Receivers : r = s

\* No spec names the empty namespace, at which the handlers stop.
NamespacesNamed == \A s \in Specs : \A i \in DOMAIN s.namespaces : s.namespaces[i] # ""

\* The Deployments that are there from the start stay.
EarlyInv == Deployments \ Late \subseteq deps

\* A resourceVersion stands for one state of a Receiver.
VersionInv ==
  \A r \in Receivers :
    /\ recv[r].ver <= version /\ indexer[r].ver <= version
    /\ recv[r].ver = indexer[r].ver => recv[r].spec = indexer[r].spec

\* The worker serves Receiver r and has Deployment d still before it.
Coming(r, d) ==
  /\ run["worker"].pc \in {"loop", "pods"} /\ run["worker"].key = r
  /\ \/ \E i \in run["worker"].todo : i.name = d
     \/ \E j \in DOMAIN run["worker"].nss : run["worker"].nss[j] = NsOf[d]

\* While nothing new is on its way to the worker, the Deployments that the
\* Receiver it last read asks a policy for have one or are before the worker.
ServedInv ==
  clean => \A r \in Receivers : handled[r].live /\ ~Woken(r) =>
    \A d \in Targets(handled[r].spec) \ Late : HasPolicy(d) \/ Coming(r, d)

LEMMA EarlyStep == EarlyInv /\ [Next]_vars => EarlyInv'
<1> SUFFICES ASSUME EarlyInv, [Next]_vars PROVE EarlyInv'
  OBVIOUS
<1>1. CASE WorkerStep \/ ListenerStep
  <2>1. deps' = deps
    BY <1>1 DEF WorkerStep, ListenerStep, Get, Lookup, OnAdd, OnUpdate, OnDelete, OnTombstone,
       Restart, HandlerStep, Finish, ListDeployments, ListPods, DeletePod, PatchCreated,
       PatchDeleted, clusterVars
  <2>2. QED
    BY <2>1 DEF EarlyInv
<1>2. QED
  BY <1>1, DeploymentsStay DEF Next, EarlyInv

\* A target that was there from the start was one before.
LEMMA EarlyTarget ==
  ASSUME TypeOK, TypeOK', EarlyInv, NEW spec, NEW d \in Targets(spec)', d \notin Late
  PROVE  d \in Targets(spec) /\ d \in Deployments
<1>1. d \in Deployments /\ d \in spec.selects
  BY DEF Targets, TypeOK, ClusterTypeOK
<1>2. d \in deps
  BY <1>1 DEF EarlyInv
<1>3. QED
  BY <1>1, <1>2 DEF Targets

LEMMA VersionInit == Init => VersionInv
BY AbsentType DEF Init, VersionInv, Absent

LEMMA VersionStep == TypeOK /\ VersionInv /\ [Next]_vars => VersionInv'
<1> SUFFICES ASSUME TypeOK, VersionInv, [Next]_vars PROVE VersionInv'
  OBVIOUS
<1>1. ASSUME NEW r \in Receivers, NEW object, recv' = [recv EXCEPT ![r] = object],
             indexer' = indexer,
             \/ version' = version + 1 /\ object.ver = version'
             \/ version' = version /\ object.ver = recv[r].ver /\ object.spec = recv[r].spec
      PROVE  VersionInv'
  <2>1. version \in Nat /\ \A x \in Receivers : recv[x].ver \in Nat /\ indexer[x].ver \in Nat
    BY DEF TypeOK, InformerTypeOK, Objects
  <2>2. ASSUME NEW x \in Receivers
        PROVE  /\ recv'[x].ver <= version' /\ indexer[x].ver <= version'
               /\ recv'[x].ver = indexer[x].ver => recv'[x].spec = indexer[x].spec
    <3>1. CASE x = r
      <4>1. recv'[x] = object
        BY <1>1, <3>1 DEF TypeOK, InformerTypeOK
      <4>2. QED
        BY <1>1, <2>1, <3>1, <4>1 DEF VersionInv
    <3>2. CASE x # r
      <4>1. recv'[x] = recv[x]
        BY <1>1, <3>2 DEF TypeOK, InformerTypeOK
      <4>2. QED
        BY <1>1, <2>1, <4>1 DEF VersionInv
    <3>3. QED
      BY <3>1, <3>2
  <2>3. QED
    BY <1>1, <2>2 DEF VersionInv
<1>2. ASSUME NEW r \in Receivers, NEW s \in Specs, UserApplies(r, s)
      PROVE  VersionInv'
  <2>1. PICK object : object = [ver |-> version', live |-> TRUE, spec |-> s]
    OBVIOUS
  <2>2. object.ver = version'
    BY <2>1
  <2>3. QED
    BY <1>1, <1>2, <2>1, <2>2 DEF UserApplies, UserWrites
<1>3. ASSUME NEW r \in Receivers, UserDeletes(r)
      PROVE  VersionInv'
  <2>1. PICK object : object = Gone(recv[r])
    OBVIOUS
  <2>2. object.ver = recv[r].ver /\ object.spec = recv[r].spec
    BY <2>1 DEF Gone, TypeOK, InformerTypeOK, Objects
  <2>3. QED
    BY <1>1, <1>3, <2>1, <2>2 DEF UserDeletes, UserWrites
<1>4. ASSUME NEW r \in Receivers, Observe(r)
      PROVE  VersionInv'
  BY <1>4 DEF Observe, VersionInv, TypeOK, InformerTypeOK
<1>5. CASE Restart
  BY <1>5 DEF Restart, VersionInv
<1>6. CASE UNCHANGED <<recv, version, indexer>>
  BY <1>6 DEF VersionInv
<1>7. CASE WorkerStep \/ (ListenerStep /\ ~OnTombstone)
  BY <1>6, <1>7, HandlerEffect, PatchCreatedOutcome, PatchDeletedOutcome
     DEF WorkerStep, ListenerStep, Get, Lookup, OnAdd, OnUpdate, OnDelete, Handlers
<1>8. QED
  BY <1>2, <1>3, <1>4, <1>5, <1>6, <1>7
     DEF Next, ListenerStep, Environment, ctlVars, vars, Relist, Crash, OnTombstone

\* No call is made up for.
LEMMA CleanOnce == [Next]_vars /\ clean' => clean
<1> SUFFICES ASSUME [Next]_vars, clean' # clean PROVE clean' = FALSE
  OBVIOUS
<1>1. CASE WorkerStep \/ ListenerStep
  BY <1>1 DEF WorkerStep, ListenerStep, Get, Lookup, OnAdd, OnUpdate, OnDelete, OnTombstone,
     Restart, HandlerStep, Finish, ListDeployments, ListPods, DeletePod, PatchCreated,
     PatchDeleted, PatchTo, PatchRejected, Fault
<1>2. QED
  BY <1>1 DEF Next, Environment, Observe, UserApplies, UserDeletes, UserWrites, Relist, Crash,
     Restart, ctlVars, vars

LEMMA NamesNonempty ==
  ASSUME NamespacesNamed, NEW spec \in Specs, NEW ns, Names(spec, ns)
  PROVE  ns # ""
<1>1. CASE spec.namespaces = <<>>
  <2>1. NamespacesOf(spec) = <<"default">>
    BY <1>1 DEF NamespacesOf
  <2>2. PICK i \in {1} : <<"default">>[i] = ns
    BY <2>1 DEF Names
  <2>3. ns = "default"
    BY <2>2
  <2>4. QED
    BY <2>3
<1>2. CASE spec.namespaces # <<>>
  BY <1>2 DEF NamespacesOf, Names, NamespacesNamed
<1>3. QED
  BY <1>1, <1>2

\* The deletion of the only Receiver being handled, it is woken.
LEMMA PolicyStays ==
  ASSUME OneReceiver, TypeOK, LoopInv, ReasonInv, [Next]_vars,
         NEW r \in Receivers, ~Woken(r), NEW d \in Deployments, HasPolicy(d)
  PROVE  HasPolicy(d)'
<1> SUFFICES ASSUME ann'[d].policy = None PROVE FALSE
  BY DEF HasPolicy
<1>1. RemovedFor(d)
  BY GivenStep DEF ReasonGiven, HasPolicy
<1>2. PICK s \in Receivers : run["listener"].key = s
  BY <1>1 DEF RemovedFor
<1>3. s = r /\ s # None
  BY <1>2, ControllerAssumption DEF OneReceiver
<1>4. run["listener"].pc # "idle"
  BY <1>2, <1>3 DEF TypeOK, RunTypeOK, Handlers
<1>5. QED
  BY <1>2, <1>3, <1>4 DEF Woken

\* The worker lists one more namespace: what it finds there without a policy is
\* before it.
LEMMA ListsComing ==
  ASSUME TypeOK, EarlyInv, ReasonInv, NEW f, Lists("worker", f), UNCHANGED ann,
         NEW r \in Receivers, NEW d \in Targets(handled[r].spec) \ Late, Coming(r, d)
  PROVE  HasPolicy(d)' \/ Coming(r, d)'
<1> DEFINE w == run["worker"]
<1>1. /\ w.pc = "loop" /\ w.key = r /\ w.nss # <<>> /\ w.todo = {}
      /\ w.nss \in Seq(Namespaces \cup {""})
      /\ w.spec = handled[r].spec /\ d \in Targets(w.spec)
  BY DEF Lists, AtNamespace, HasNamespace, Coming, ReasonInv, Serves, TypeOK, RunTypeOK, Frames,
     Handlers
<1>2. /\ run'["worker"] = f /\ f.pc \in {"loop", "pods"} /\ f.key = r
      /\ f.todo = WorkFor("worker", Listed(w.spec, Head(w.nss))) /\ f.nss = Tail(w.nss)
  BY <1>1, MovesTodo DEF Lists, Moves, Handlers
<1>3. PICK j \in DOMAIN w.nss : w.nss[j] = NsOf[d]
  BY <1>1 DEF Coming
<1>4. CASE Head(w.nss) = NsOf[d] /\ ~HasPolicy(d)
  <2> DEFINE i == [name |-> d, ann |-> ann[d]]
  <2>1. d \in deps \cap w.spec.selects
    BY <1>1 DEF Targets
  <2>2. i \in Listed(w.spec, Head(w.nss)) /\ i.ann.policy = None /\ i.name = d
    BY <1>4, <2>1 DEF Listed, HasPolicy
  <2> HIDE DEF i
  <2>3. i \in f.todo
    BY <1>2, <2>2 DEF WorkFor
  <2>4. QED
    BY <1>2, <2>2, <2>3 DEF Coming
<1>5. CASE Head(w.nss) # NsOf[d]
  <2>1. PICK k \in DOMAIN Tail(w.nss) : Tail(w.nss)[k] = w.nss[j]
    BY <1>1, <1>3, <1>5, TailKeeps
  <2>2. QED
    BY <1>2, <1>3, <2>1 DEF Coming
<1>6. CASE HasPolicy(d)
  BY <1>6 DEF HasPolicy
<1>7. QED
  BY <1>4, <1>5, <1>6

\* The worker does not return as long as something is before it, unless a call
\* fails.
LEMMA FinishComing ==
  ASSUME NamespacesNamed, TypeOK, ReasonInv, Finish("worker"), NEW r, NEW d, Coming(r, d)
  PROVE  FALSE
<1> DEFINE w == run["worker"]
<1>1. /\ w.pc = "loop" /\ w.todo = {} /\ w.spec \in Specs
      /\ w.nss = <<>> \/ Head(w.nss) = ""
      /\ w.nss \in Seq(Namespaces \cup {""})
  BY DEF Finish, AtNamespace, HasNamespace, TypeOK, RunTypeOK, Frames, Handlers
<1>2. \E j \in DOMAIN w.nss : w.nss[j] = NsOf[d]
  BY <1>1 DEF Coming
<1>3. w.nss # <<>>
  BY <1>2
<1>4. 1 \in DOMAIN w.nss /\ w.nss[1] = ""
  BY <1>1, <1>3, HeadIndex
<1>5. Names(w.spec, "")
  BY <1>1, <1>4 DEF ReasonInv, FrameFor, Handlers
<1>6. QED
  BY <1>1, <1>5, NamesNonempty

LEMMA PatchComing ==
  ASSUME TypeOK, PatchesApply, NEW i \in run["worker"].todo, PatchCreated(i), clean',
         NEW r \in Receivers, NEW d \in Deployments, Coming(r, d)
  PROVE  HasPolicy(d)' \/ Coming(r, d)'
<1> DEFINE w == run["worker"]
           a == AddPolicy(i.ann, ann[i.name], w.spec.policy)
<1>1. PICK f : Patches("worker", f, i) /\ ann' = [ann EXCEPT ![i.name] = a]
  BY PatchCreatedOutcome DEF PatchesApply
<1>2. /\ run'["worker"] = f /\ f.pc \in {"loop", "pods"} /\ f.key = r
      /\ f.todo = w.todo \ {i} /\ f.nss = w.nss
  BY <1>1, MovesTodo DEF Patches, Moves, Coming, Handlers
<1>3. CASE i.name = d
  <2>1. ann'[d] = a
    BY <1>1, <1>3 DEF TypeOK, ClusterTypeOK
  <2>2. w.spec.policy # None
    <3>1. w.spec \in Specs
      BY PatchCreatedOutcome DEF TypeOK, RunTypeOK, Handlers
    <3>2. QED
      BY <3>1, ControllerAssumption, ClusterAssumption
  <2>3. ann[i.name] \in Annotations
    BY <1>3 DEF TypeOK, ClusterTypeOK
  <2>4. a.policy = w.spec.policy
    BY <2>3 DEF AddPolicy, Annotations
  <2>5. QED
    BY <2>1, <2>2, <2>4 DEF HasPolicy
<1>4. CASE i.name # d
  BY <1>2, <1>4 DEF Coming
<1>5. QED
  BY <1>3, <1>4

\* Who changes the worker's frame.
LEMMA WorkerFrame ==
  ASSUME TypeOK, [Next]_vars, ~WorkerStep, ~Restart
  PROVE  run'["worker"] = run["worker"]
<1>1. ASSUME NEW i \in run["listener"].todo, PatchDeleted(i)
      PROVE  run'["worker"] = run["worker"]
  BY <1>1, PatchDeletedOutcome, ReturnTodo, MovesTodo DEF PatchOutcome, Patches, Handlers
<1>2. CASE HandlerStep("listener")
  BY <1>2, HandlerEffect, ReturnTodo, MovesTodo DEF Lists, Restarts, Handlers
<1>3. CASE OnAdd \/ OnUpdate \/ OnDelete
  BY <1>3 DEF OnAdd, OnUpdate, OnDelete, Enter, TypeOK, RunTypeOK, Handlers
<1>4. CASE \/ Environment /\ ~Crash
           \/ \E r \in Receivers : Observe(r)
           \/ UNCHANGED vars
  BY <1>4, OthersEffect
<1>5. QED
  BY <1>1, <1>2, <1>3, <1>4 DEF Next, ListenerStep, OnTombstone, Crash

LEMMA ComingStays ==
  ASSUME NamespacesNamed, TypeOK, EarlyInv, ReasonInv, PatchesApply, [Next]_vars, ~Restart, clean',
         NEW r \in Receivers, NEW d \in Targets(handled[r].spec) \ Late, d \in Deployments,
         Coming(r, d)
  PROVE  HasPolicy(d)' \/ Coming(r, d)'
<1>1. CASE run'["worker"] = run["worker"]
  BY <1>1 DEF Coming
<1>2. CASE HandlerStep("worker")
  <2>1. ASSUME NEW f, Restarts("worker", f)
        PROVE  Coming(r, d)'
    BY <2>1, MovesTodo DEF Restarts, Moves, Coming, Handlers
  <2>2. QED
    BY <1>2, <2>1, HandlerEffect, FinishComing, ListsComing DEF Handlers
<1>3. ASSUME NEW i \in run["worker"].todo, PatchCreated(i)
      PROVE  HasPolicy(d)' \/ Coming(r, d)'
  BY <1>3, PatchComing
<1>4. ~Get /\ ~Lookup
  BY DEF Coming, Get, Lookup
<1>5. QED
  BY <1>1, <1>2, <1>3, <1>4, WorkerFrame DEF WorkerStep

\* The worker has read the cache: all the targets of the Receiver are before it.
LEMMA LookupComing ==
  ASSUME TypeOK, Lookup, NEW r \in Receivers, r = run["worker"].key, handled'[r].live,
         NEW d \in Deployments, d \in Targets(handled'[r].spec)
  PROVE  Coming(r, d)'
<1>1. handled'[r] = indexer[r]
  BY DEF Lookup, TypeOK, InformerTypeOK
<1>2. indexer[r].spec \in Specs
  BY DEF TypeOK, InformerTypeOK, Objects
<1>3. Names(indexer[r].spec, NsOf[d])
  BY <1>1, <1>2, TargetsNamed
<1>4. Enter("worker", r, indexer[r].spec)
  BY <1>1 DEF Lookup
<1>5. /\ run'["worker"].pc = "loop" /\ run'["worker"].key = r
      /\ run'["worker"].nss = NamespacesOf(indexer[r].spec)
  BY <1>4 DEF Enter, Idle, TypeOK, RunTypeOK, Handlers
<1>6. QED
  BY <1>3, <1>5 DEF Coming, Names

LEMMA ServedStep ==
  ASSUME OneReceiver, NamespacesNamed, TypeOK, TypeOK', LoopInv, ReasonInv, PatchesApply,
         NoLostUpdate, EarlyInv, ServedInv, [Next]_vars
  PROVE  ServedInv'
<1> SUFFICES ASSUME clean', NEW r \in Receivers, (handled[r].live)', ~Woken(r)',
                    NEW d \in Targets(handled[r].spec)', d \notin Late
             PROVE  HasPolicy(d)' \/ Coming(r, d)'
  BY DEF ServedInv
<1>1. ~Restart /\ clean
  BY CleanOnce DEF Restart
<1>2. d \in Targets(handled'[r].spec) /\ d \in Deployments
  <2>1. PICK spec : spec = handled'[r].spec
    OBVIOUS
  <2>2. d \in Targets(spec)'
    BY <2>1 DEF Targets
  <2>3. QED
    BY <2>1, <2>2, EarlyTarget
<1>3. CASE Lookup
  <2>1. r = run["worker"].key
    BY <1>3, BusyKey DEF Lookup, OneReceiver, TypeOK, Handlers
  <2>2. QED
    BY <1>2, <1>3, <2>1, LookupComing
<1>4. CASE ~Lookup
  <2>1. handled' = handled
    BY <1>1, <1>4, WakingStep DEF WakersKept, Observe, Relist
  <2>2. ~Woken(r)
    BY <1>1, <1>4, WakingStep, WokenKept, ObserveNoLoss DEF WakersKept
  <2>3. HasPolicy(d) \/ Coming(r, d)
    BY <1>1, <1>2, <2>1, <2>2 DEF ServedInv
  <2>4. QED
    BY <1>1, <1>2, <2>1, <2>2, <2>3, PolicyStays, ComingStays
<1>5. QED
  BY <1>3, <1>4

LEMMA ServedInit == Init => ServedInv
BY DEF Init, ServedInv, Absent

\* Quiet states have nothing on its way.
LEMMA QuietServed ==
  ASSUME TypeOK, NoLostUpdate, VersionInv, ServedInv
  PROVE  Settled
<1> SUFFICES ASSUME Quiet, clean, NEW d \in Deployments \ Late, Wanted(d)
             PROVE  HasPolicy(d)
  BY DEF Settled
<1>1. PICK r \in Receivers : recv[r].live /\ d \in Targets(recv[r].spec)
  BY DEF Wanted
<1>2. dirty = {}
  <2>1. processing = {} /\ queue = <<>>
    BY DEF Quiet, TypeOK, RunTypeOK, Handlers
  <2>2. QED
    BY <2>1 DEF NoLostUpdate, QueueOK
<1>3. ~Woken(r)
  BY <1>2 DEF Woken, Quiet, Handlers
<1>4. handled[r] = indexer[r]
  BY <1>3 DEF NoLostUpdate
<1>5. indexer[r].live /\ indexer[r].spec = recv[r].spec
  BY <1>1 DEF Quiet, Behind, VersionInv
<1>6. HasPolicy(d) \/ Coming(r, d)
  BY <1>1, <1>3, <1>4, <1>5 DEF ServedInv
<1>7. ~Coming(r, d)
  BY DEF Quiet, Coming, Handlers
<1>8. QED
  BY <1>6, <1>7

\* Once everything is quiet and no call has failed, every Deployment that the
\* Receiver asks a policy for has one, for any number of Deployments, whatever
\* the users applied and deleted, however the informer, the callbacks, the
\* worker and the deletion of an earlier version overlapped (main.go:95-134,
\* controller.go:54-127, handler.go:98-240).
THEOREM NothingUndone ==
  ASSUME OneReceiver, NamespacesNamed
  PROVE  Spec => []Settled
<1>1. Init => EarlyInv /\ VersionInv /\ ServedInv
  BY VersionInit, ServedInit DEF Init, ClusterInit, EarlyInv
<1>2. EarlyInv /\ [Next]_vars => EarlyInv'
  BY EarlyStep
<1>3. TypeOK /\ VersionInv /\ [Next]_vars => VersionInv'
  BY VersionStep
<1>4. TypeOK /\ TypeOK' /\ LoopInv /\ ReasonInv /\ PatchesApply /\ NoLostUpdate /\ EarlyInv
        /\ ServedInv /\ [Next]_vars => ServedInv'
  BY ServedStep
<1>5. TypeOK /\ NoLostUpdate /\ VersionInv /\ ServedInv => Settled
  BY QuietServed
<1>6. Spec => []ReasonInv
  BY ReasonInit, ReasonStep, Typing, PTL DEF Spec
<1>7. QED
  BY <1>1, <1>2, <1>3, <1>4, <1>5, <1>6, Typing, LoopInvariant, PatchesAlwaysApply,
     UpdatesReachTheWorker, PTL DEF Spec

-----------------------------------------------------------------------------
(* No Pod slips through a restart.                                         *)

\* A running Pod that is not as the policy of its Deployment, just put on by
\* the worker or taken off by the listener, wants it.
Exposed(h, p) ==
  /\ pod[p].phase = "running"
  /\ HasPolicy(pod[p].of) <=> h = "worker"
  /\ pod[p].covered <=> h = "listener"
  /\ pod[p].injected <=> h = "listener"

RestartInv(h) == clean => \A p \in Pods : Exposed(h, p) => ToBeRestarted(h, p)

RestartInvs == \A h \in Handlers : RestartInv(h)

\* No Pod becomes exposed.
NoneExposed(h) ==
  \A p \in Pods : Exposed(h, p)' => Exposed(h, p) /\ pod'[p].of = pod[p].of

\* Goroutine h is not restarting Pods.
NotRestarting(h) == run[h].pc # "pods" /\ run[h].victims = {}

LEMMA KeptRestartInv ==
  ASSUME NEW h \in Handlers, RestartInv(h), clean' => clean, NoneExposed(h),
         run'[h] = run[h] \/ NotRestarting(h)
  PROVE  RestartInv(h)'
<1> SUFFICES ASSUME clean', NEW p \in Pods, Exposed(h, p)'
             PROVE  ToBeRestarted(h, p)'
  BY DEF RestartInv
<1>1. Exposed(h, p) /\ pod'[p].of = pod[p].of
  BY DEF NoneExposed
<1>2. ToBeRestarted(h, p)
  BY <1>1 DEF RestartInv
<1>3. run'[h] = run[h]
  BY <1>2 DEF NotRestarting, ToBeRestarted
<1>4. QED
  BY <1>1, <1>2, <1>3 DEF ToBeRestarted

LEMMA SamePodsExposed ==
  ASSUME NEW h \in Handlers, pod' = pod, ann' = ann
  PROVE  NoneExposed(h)
BY DEF NoneExposed, Exposed, HasPolicy

\* A Pod that ends is exposed no more.
LEMMA EndingExposed ==
  ASSUME TypeOK, NEW h \in Handlers, NEW p \in Pods, NEW phase \in {"terminating", "gone"},
         pod' = [pod EXCEPT ![p].phase = phase], ann' = ann
  PROVE  /\ NoneExposed(h)
         /\ ~Exposed(h, p)'
<1>1. \A q \in Pods : pod'[q].phase = "running" => pod'[q] = pod[q] /\ q # p
  BY DEF TypeOK, ClusterTypeOK, PodStates
<1>2. \A q \in Pods : Exposed(h, q)' => pod'[q].phase = "running"
  BY DEF Exposed
<1>3. NoneExposed(h)
  BY <1>1, <1>2 DEF NoneExposed, Exposed, HasPolicy
<1>4. QED
  BY <1>1, <1>2, <1>3

\* The policy of one Deployment changes, and leaves h no new work.
LEMMA PolicyExposed ==
  ASSUME TypeOK, NEW h \in Handlers, pod' = pod,
         \A d \in Deployments : (ann'[d].policy # None <=> h = "worker")
                               => (ann[d].policy # None <=> h = "worker")
  PROVE  NoneExposed(h)
<1> SUFFICES ASSUME NEW p \in Pods, Exposed(h, p)'
             PROVE  Exposed(h, p)
  BY DEF NoneExposed
<1>1. pod[p].of \in Deployments
  BY DEF Exposed, TypeOK, ClusterTypeOK
<1>2. QED
  BY <1>1 DEF Exposed, HasPolicy

LEMMA ClusterExposed ==
  ASSUME TypeOK, NEW h \in Handlers, ClusterNext
  PROVE  NoneExposed(h)
<1>1. ASSUME NEW d \in Deployments, CreateDeployment(d) \/ SetRevision(d)
      PROVE  NoneExposed(h)
  <2>1. pod' = pod /\ \A x \in Deployments : ann'[x].policy = ann[x].policy
    BY <1>1 DEF CreateDeployment, SetRevision, TypeOK, ClusterTypeOK, Annotations
  <2>2. QED
    BY <2>1, PolicyExposed
<1>2. ASSUME NEW p \in Pods, EvictPod(p) \/ RemovePod(p)
      PROVE  NoneExposed(h)
  BY <1>2, EndingExposed DEF EvictPod, RemovePod
<1>3. ASSUME NEW p \in Pods, NEW d \in Deployments, CreatePod(p, d)
      PROVE  NoneExposed(h)
  <2>1. ann' = ann
    BY <1>3 DEF CreatePod
  <2>2. pod'[p].of = d /\ pod'[p].covered = HasPolicy(d)
    BY <1>3 DEF CreatePod, TypeOK, ClusterTypeOK
  <2>3. ~Exposed(h, p)'
    BY <2>1, <2>2 DEF Exposed, HasPolicy, Handlers
  <2>4. \A q \in Pods \ {p} : pod'[q] = pod[q]
    BY <1>3 DEF CreatePod, TypeOK, ClusterTypeOK
  <2>5. QED
    BY <2>1, <2>3, <2>4 DEF NoneExposed, Exposed, HasPolicy
<1>4. QED
  BY <1>1, <1>2, <1>3 DEF ClusterNext

\* A step that touches neither Pods nor annotations, by goroutines that are
\* not restarting Pods.
LEMMA QuietStep ==
  ASSUME RestartInvs, pod' = pod, ann' = ann, clean' => clean,
         \A h \in Handlers : run'[h] = run[h] \/ NotRestarting(h)
  PROVE  RestartInvs'
BY KeptRestartInv, SamePodsExposed DEF RestartInvs

LEMMA NotCleanStep ==
  ASSUME ~clean'
  PROVE  RestartInvs'
BY DEF RestartInvs, RestartInv

\* Only goroutine g moves when g returns or goes on.
LEMMA OneMoves ==
  ASSUME TypeOK, NEW g \in Handlers, NEW f, run' = [run EXCEPT ![g] = f]
  PROVE  /\ run'[g] = f
         /\ \A h \in Handlers \ {g} : run'[h] = run[h]
BY DEF TypeOK, RunTypeOK

LEMMA LoopRestart ==
  ASSUME TypeOK, LoopInv, RestartInvs, NEW g \in Handlers, Finish(g) \/ ListDeployments(g)
  PROVE  RestartInvs'
<1>1. NotRestarting(g) /\ pod' = pod /\ ann' = ann
  BY DEF Finish, ListDeployments, AtNamespace, NotRestarting, clusterVars
<1>2. clean' => clean
  BY DEF Finish, ListDeployments, Fault
<1>3. \E f : run' = [run EXCEPT ![g] = f]
  <2>1. CASE Return(g)
    BY <2>1 DEF Return
  <2>2. CASE run' = [run EXCEPT ![g].todo = WorkFor(g, Listed(run[g].spec, Head(run[g].nss))),
                                ![g].nss = Tail(@)]
    <3> DEFINE f == [run[g] EXCEPT !.todo = WorkFor(g, Listed(run[g].spec, Head(run[g].nss))),
                                   !.nss = Tail(@)]
    <3>1. run' = [run EXCEPT ![g] = f]
      BY <2>2
    <3> HIDE DEF f
    <3>2. QED
      BY <3>1
  <2>3. QED
    BY <2>1, <2>2 DEF Finish, ListDeployments
<1>4. \A h \in Handlers \ {g} : run'[h] = run[h]
  BY <1>3, OneMoves
<1>5. QED
  BY <1>1, <1>2, <1>4, QuietStep

LEMMA ListPodsRestart ==
  ASSUME TypeOK, LoopInv, RestartInvs, NEW g \in Handlers, ListPods(g)
  PROVE  RestartInvs'
<1> DEFINE found == {p \in PodsOf(run[g].target) : ToRestart(g, p)}
           f(x) == [run[g] EXCEPT !.pc = "loop", !.target = None, !.victims = x]
<1>1. SUFFICES ASSUME clean' PROVE RestartInvs'
  BY NotCleanStep
<1>2. clean /\ run' = [run EXCEPT ![g] = f(found)]
  BY <1>1 DEF ListPods, Fault
<1>3. pod' = pod /\ ann' = ann
  BY DEF ListPods, clusterVars
<1>4. f(found).victims = found
  BY DEF TypeOK, RunTypeOK, Frames
<1> HIDE DEF f, found
<1>5. run'[g].victims = found /\ \A h \in Handlers \ {g} : run'[h] = run[h]
  BY <1>2, <1>4, OneMoves
<1>6. ASSUME NEW p \in Pods, Exposed(g, p)'
      PROVE  ToBeRestarted(g, p)'
  <2>1. Exposed(g, p)
    BY <1>3, <1>6 DEF Exposed, HasPolicy
  <2>2. ToBeRestarted(g, p)
    BY <1>2, <2>1 DEF RestartInvs, RestartInv
  <2>3. run[g].pc = "pods" /\ run[g].victims = {}
    BY DEF ListPods, LoopInv, FrameOK
  <2>4. p \in PodsOf(run[g].target)
    BY <2>1, <2>2, <2>3 DEF ToBeRestarted, Exposed, PodsOf
  <2>5. ToRestart(g, p)
    BY <2>1 DEF Exposed, ToRestart, Handlers
  <2>6. QED
    BY <1>5, <2>4, <2>5 DEF found, ToBeRestarted
<1>7. RestartInv(g)'
  BY <1>6 DEF RestartInv
<1>8. ASSUME NEW h \in Handlers \ {g}
      PROVE  RestartInv(h)'
  BY <1>2, <1>3, <1>5, KeptRestartInv, SamePodsExposed DEF RestartInvs
<1>9. QED
  BY <1>7, <1>8 DEF RestartInvs

LEMMA DeletePodRestart ==
  ASSUME TypeOK, LoopInv, RestartInvs, NEW g \in Handlers, NEW p \in run[g].victims,
         DeletePod(g, p)
  PROVE  RestartInvs'
<1> DEFINE f == [run[g] EXCEPT !.victims = @ \ {p}]
<1>1. SUFFICES ASSUME clean' PROVE RestartInvs'
  BY NotCleanStep
<1>2. clean /\ Terminate(p) /\ run' = [run EXCEPT ![g] = f]
  BY <1>1 DEF DeletePod, Fault
<1>3. p \in Pods
  BY DEF TypeOK, RunTypeOK, Frames
<1>4. f.victims = run[g].victims \ {p} /\ run[g].pc = "loop"
  BY DEF DeletePod, TypeOK, RunTypeOK, Frames
<1> HIDE DEF f
<1>5. run'[g].victims = run[g].victims \ {p} /\ \A h \in Handlers \ {g} : run'[h] = run[h]
  BY <1>2, <1>4, OneMoves
<1>6. \A h \in Handlers : NoneExposed(h) /\ ~Exposed(h, p)'
  BY <1>2, <1>3, EndingExposed DEF DeletePod, Terminate
<1>7. ASSUME NEW q \in Pods, Exposed(g, q)'
      PROVE  ToBeRestarted(g, q)'
  <2>1. q # p /\ Exposed(g, q)
    BY <1>6, <1>7 DEF NoneExposed
  <2>2. q \in run[g].victims
    BY <1>2, <1>4, <2>1 DEF RestartInvs, RestartInv, ToBeRestarted
  <2>3. QED
    BY <1>5, <2>1, <2>2 DEF ToBeRestarted
<1>8. RestartInv(g)'
  BY <1>7 DEF RestartInv
<1>9. ASSUME NEW h \in Handlers \ {g}
      PROVE  RestartInv(h)'
  BY <1>2, <1>5, <1>6, KeptRestartInv DEF RestartInvs
<1>10. QED
  BY <1>8, <1>9 DEF RestartInvs

\* Goroutine g has changed the policy of Deployment d so that Pods of d, and of
\* no other Deployment, may be exposed, and goes on to restart the Pods of d.
LEMMA PatchedRestart ==
  ASSUME TypeOK, LoopInv, RestartInvs, NEW g \in Handlers, NEW i \in Items, NEW a \in Annotations,
         a.policy # None <=> g = "worker",
         run[g].pc = "loop", run[g].victims = {}, pod' = pod, ann' = [ann EXCEPT ![i.name] = a],
         ToPods(g, i), clean' = clean
  PROVE  RestartInvs'
<1> DEFINE f == [run[g] EXCEPT !.pc = "pods", !.target = i.name, !.todo = @ \ {i}]
<1>1. SUFFICES ASSUME clean PROVE RestartInvs'
  BY NotCleanStep
<1>2. i.name \in Deployments
  BY DEF Items
<1>3. run' = [run EXCEPT ![g] = f]
  BY DEF ToPods
<1>4. f.pc = "pods" /\ f.target = i.name
  BY DEF TypeOK, RunTypeOK, Frames
<1> HIDE DEF f
<1>5. /\ run'[g].pc = "pods" /\ run'[g].target = i.name
      /\ \A h \in Handlers \ {g} : run'[h] = run[h]
  BY <1>3, <1>4, OneMoves
<1>6. ASSUME NEW p \in Pods, Exposed(g, p)'
      PROVE  ToBeRestarted(g, p)'
  <2>1. ~Exposed(g, p)
    BY <1>1 DEF RestartInvs, RestartInv, ToBeRestarted
  <2>2. HasPolicy(pod[p].of)' # HasPolicy(pod[p].of)
    BY <1>6, <2>1 DEF Exposed
  <2>3. pod[p].of \in Deployments
    BY <1>6 DEF Exposed, TypeOK, ClusterTypeOK
  <2>4. pod[p].of = i.name
    BY <2>2, <2>3 DEF HasPolicy, TypeOK, ClusterTypeOK
  <2>5. QED
    BY <1>5, <2>4 DEF ToBeRestarted
<1>7. RestartInv(g)'
  BY <1>6 DEF RestartInv
<1>8. ASSUME NEW h \in Handlers \ {g}
      PROVE  RestartInv(h)'
  <2>1. a.policy # None <=> h # "worker"
    BY DEF Handlers
  <2>2. NoneExposed(h)
    BY <1>2, <2>1, PolicyExposed DEF TypeOK, ClusterTypeOK
  <2>3. QED
    BY <1>5, <2>2, KeptRestartInv DEF RestartInvs
<1>9. QED
  BY <1>7, <1>8 DEF RestartInvs

LEMMA ReturnedRestart ==
  ASSUME TypeOK, RestartInvs, NEW g \in Handlers, Return(g), NotRestarting(g),
         UNCHANGED <<pod, ann, clean>>
  PROVE  RestartInvs'
<1>1. \A h \in Handlers \ {g} : run'[h] = run[h]
  BY OneMoves DEF Return
<1>2. QED
  BY <1>1, QuietStep

LEMMA PatchCreatedRestart ==
  ASSUME TypeOK, LoopInv, RestartInvs, NEW i \in run["worker"].todo, PatchCreated(i)
  PROVE  RestartInvs'
<1> DEFINE a == AddPolicy(i.ann, ann[i.name], run["worker"].spec.policy)
<1>1. /\ run["worker"].pc = "loop" /\ run["worker"].victims = {} /\ pod' = pod
      /\ i \in Items
  BY DEF PatchCreated, TypeOK, RunTypeOK, Frames, Handlers
<1>2. run["worker"].spec.policy \in Policies
  BY <1>1, ControllerAssumption DEF TypeOK, RunTypeOK, Handlers
<1>3. i.ann \in Annotations /\ ann[i.name] \in Annotations
  BY <1>1 DEF Items, TypeOK, ClusterTypeOK
<1>4. a \in Annotations /\ a.policy # None
  BY <1>2, <1>3, AddPolicyType, ClusterAssumption DEF AddPolicy, Annotations
<1> HIDE DEF a
<1>5. CASE PatchTo("worker", i, a)
  BY <1>1, <1>4, <1>5, PatchedRestart, NotCleanStep DEF PatchTo, Fault, Handlers
<1>6. CASE PatchRejected("worker")
  BY <1>1, <1>6, ReturnedRestart DEF PatchRejected, NotRestarting, Handlers
<1>7. QED
  BY <1>5, <1>6 DEF PatchCreated, a

LEMMA PatchDeletedRestart ==
  ASSUME TypeOK, LoopInv, RestartInvs, NEW i \in run["listener"].todo, PatchDeleted(i)
  PROVE  RestartInvs'
<1> DEFINE a == RemovePolicy(i.ann, ann[i.name])
<1>1. /\ run["listener"].pc = "loop" /\ run["listener"].victims = {} /\ pod' = pod
      /\ i \in Items
  BY PatchDeletedEffect DEF PatchDeleted
<1>2. i.ann \in Annotations /\ ann[i.name] \in Annotations
  BY <1>1 DEF Items, TypeOK, ClusterTypeOK
<1>3. a \in Annotations /\ a.policy = None
  BY <1>2, RemovePolicyType, RemovedPolicy
<1> HIDE DEF a
<1>4. CASE PatchTo("listener", i, a)
  BY <1>1, <1>3, <1>4, PatchedRestart, NotCleanStep DEF PatchTo, Fault, Handlers
<1>5. CASE Return("listener") /\ UNCHANGED <<ann, faults, clean>>
  BY <1>1, <1>5, ReturnedRestart DEF NotRestarting, Handlers
<1>6. QED
  BY <1>4, <1>5 DEF PatchDeleted, PatchRejected, a

LEMMA CallRestart ==
  ASSUME TypeOK, LoopInv, RestartInvs, Get \/ Lookup \/ OnAdd \/ OnUpdate \/ OnDelete
  PROVE  RestartInvs'
<1>1. UNCHANGED <<pod, ann, clean>>
  BY DEF Get, Lookup, OnAdd, OnUpdate, OnDelete, clusterVars
<1>2. \/ run' = run
      \/ \E f : run' = [run EXCEPT !["worker"] = f] /\ run["worker"].pc \in {"idle", "lookup"}
      \/ \E f : run' = [run EXCEPT !["listener"] = f] /\ run["listener"].pc = "idle"
  BY DEF Get, Lookup, Enter, OnAdd, OnUpdate, OnDelete, Take
<1>3. ASSUME NEW g \in Handlers, NEW f, run' = [run EXCEPT ![g] = f],
             run[g].pc \in {"idle", "lookup"}
      PROVE  RestartInvs'
  <2>1. NotRestarting(g)
    BY <1>3 DEF NotRestarting, LoopInv, FrameOK
  <2>2. \A h \in Handlers \ {g} : run'[h] = run[h]
    BY <1>3, OneMoves
  <2>3. QED
    BY <1>1, <2>1, <2>2, QuietStep
<1>4. CASE run' = run
  BY <1>1, <1>4, QuietStep
<1>5. QED
  BY <1>2, <1>3, <1>4 DEF Handlers

LEMMA RestartInit == Init => RestartInvs
BY DEF Init, ClusterInit, UnbornPod, RestartInvs, RestartInv, Exposed

LEMMA RestartStep == TypeOK /\ LoopInv /\ RestartInvs /\ [Next]_vars => RestartInvs'
<1> SUFFICES ASSUME TypeOK, LoopInv, RestartInvs, [Next]_vars PROVE RestartInvs'
  OBVIOUS
<1>1. ASSUME NEW h \in Handlers, HandlerStep(h)
      PROVE  RestartInvs'
  BY <1>1, LoopRestart, ListPodsRestart, DeletePodRestart DEF HandlerStep
<1>2. CASE WorkerStep
  BY <1>1, <1>2, CallRestart, PatchCreatedRestart DEF WorkerStep, Handlers
<1>3. CASE OnTombstone \/ Crash
  BY <1>3, NotCleanStep DEF OnTombstone, Crash, Restart
<1>4. CASE ListenerStep
  BY <1>1, <1>3, <1>4, CallRestart, PatchDeletedRestart DEF ListenerStep, Handlers
<1>5. CASE ClusterNext /\ UNCHANGED <<queueVars, ctlVars>>
  BY <1>5, ClusterExposed, KeptRestartInv DEF RestartInvs, ctlVars
<1>6. CASE \/ \E r \in Receivers : Observe(r) \/ UserDeletes(r) \/ Relist(r)
           \/ \E r \in Receivers, s \in Specs : UserApplies(r, s)
           \/ UNCHANGED vars
  <2>1. UNCHANGED <<pod, ann, clean, run>>
    BY <1>6 DEF Observe, UserDeletes, UserApplies, UserWrites, Relist, vars, clusterVars, ctlVars
  <2>2. QED
    BY <2>1, QuietStep
<1>7. QED
  BY <1>2, <1>3, <1>4, <1>5, <1>6 DEF Next, Environment

\* While no call fails, a Pod that a change of policy has left behind is one
\* the handler that made the change has listed, or is about to list, for
\* deletion, in either direction (handler.go:193-236, 336-376).
THEOREM RestartInvariant == Spec => []RestartInvs
<1>1. QED
  BY RestartInit, RestartStep, Typing, LoopInvariant, PTL DEF Spec

\* While no call fails, ObjectCreated leaves no Pod without the sidecar on a
\* Deployment it has put a policy on: such a Pod is one it is about to delete,
\* whatever the listener and the cluster do meanwhile (handler.go:193-236).
THEOREM RestartsForPolicy == Spec => []RestartedForPolicy
<1>1. TypeOK /\ RestartInvs => RestartedForPolicy
  BY DEF RestartInvs, RestartInv, Exposed, RestartedForPolicy, Handlers
<1>2. QED
  BY <1>1, Typing, RestartInvariant, PTL

\* The policy of a Deployment takes effect on all Pods that were stored before it
\* as long as no call fails and no Pod is gone before it is restarted: what the
\* run "gaps" finds is the work of such a call and of nothing else
\* (handler.go:206-236).
THEOREM EffectWhileClean == Spec => [](clean => PolicyTookEffect)
<1>1. TypeOK /\ LoopInv /\ RestartedForPolicy => (clean => PolicyTookEffect)
  <2> SUFFICES ASSUME TypeOK, LoopInv, RestartedForPolicy, clean, Quiet,
                      NEW p \in Pods, pod[p].phase = "running", HasPolicy(pod[p].of),
                      ~pod[p].covered, ~pod[p].injected
               PROVE  FALSE
    BY DEF PolicyTookEffect, TypeOK, ClusterTypeOK, PodStates
  <2>1. ToBeRestarted("worker", p)
    BY DEF RestartedForPolicy
  <2>2. run["worker"].pc = "idle" /\ FrameOK(run["worker"])
    BY DEF Quiet, LoopInv, Handlers
  <2>3. QED
    BY <2>1, <2>2 DEF ToBeRestarted, FrameOK
<1>2. QED
  BY <1>1, Typing, LoopInvariant, RestartsForPolicy, PTL

\* While no call fails, ObjectDeleted leaves no Pod with the sidecar on a
\* Deployment it has taken the policy off (handler.go:336-376).
THEOREM RestartsWithoutPolicy == Spec => []RestartedWithoutPolicy
<1>1. TypeOK /\ RestartInvs => RestartedWithoutPolicy
  BY DEF RestartInvs, RestartInv, Exposed, RestartedWithoutPolicy, Handlers
<1>2. QED
  BY <1>1, Typing, RestartInvariant, PTL

-----------------------------------------------------------------------------
(* What the rest of the system sees of the controller.  *)

\* What a handler is going to delete are Pods there are, or have been.
BornInv == \A h \in Handlers : \A p \in run[h].victims : pod[p].phase # "unborn"

\* No Pod is taken back, and only Pods that were listed become victims.
BornKept ==
  /\ \A p \in Pods : pod[p].phase # "unborn" => pod'[p].phase # "unborn"
  /\ \A h \in Handlers : \A p \in run'[h].victims :
       p \in run[h].victims \/ (p \in Pods /\ pod[p].phase # "unborn")

LEMMA BornStep == TypeOK /\ BornInv /\ BornKept => BornInv'
BY DEF BornInv, BornKept, TypeOK, RunTypeOK, Frames

LEMMA ClusterBorn ==
  ASSUME TypeOK, ClusterNext
  PROVE  \A p \in Pods : pod[p].phase # "unborn" => pod'[p].phase # "unborn"
<1>1. ASSUME NEW p \in Pods, EvictPod(p) \/ RemovePod(p)
      PROVE  \A q \in Pods : pod[q].phase # "unborn" => pod'[q].phase # "unborn"
  BY <1>1 DEF EvictPod, RemovePod, TypeOK, ClusterTypeOK, PodStates
<1>2. ASSUME NEW p \in Pods, NEW d \in Deployments, CreatePod(p, d)
      PROVE  \A q \in Pods : pod[q].phase # "unborn" => pod'[q].phase # "unborn"
  BY <1>2 DEF CreatePod, TypeOK, ClusterTypeOK
<1>3. QED
  BY <1>1, <1>2 DEF ClusterNext, CreateDeployment, SetRevision

\* One goroutine's frame is exchanged for one that has no new victims.
LEMMA FewerVictims ==
  ASSUME TypeOK, NEW h \in Handlers, NEW f, run' = [run EXCEPT ![h] = f],
         \A p \in f.victims : p \in run[h].victims \/ (p \in Pods /\ pod[p].phase # "unborn"),
         \A p \in Pods : pod[p].phase # "unborn" => pod'[p].phase # "unborn"
  PROVE  BornKept
BY DEF BornKept, TypeOK, RunTypeOK

LEMMA NoVictims ==
  ASSUME TypeOK, NEW h \in Handlers, pod' = pod,
         \/ Return(h)
         \/ \E k, spec : Enter(h, k, spec)
         \/ h = "worker" /\ Get
  PROVE  BornKept
<1>1. Idle.victims = {}
  BY DEF Idle
<1>2. ASSUME NEW k, NEW spec, Enter(h, k, spec)
      PROVE  BornKept
  <2>1. PICK f : f = [Idle EXCEPT !.pc = "loop", !.key = k, !.spec = spec,
                                  !.nss = NamespacesOf(spec)]
    OBVIOUS
  <2>2. f.victims = {} /\ run' = [run EXCEPT ![h] = f]
    BY <1>2, <2>1 DEF Enter, Idle
  <2>3. QED
    BY <2>2, FewerVictims
<1>3. CASE h = "worker" /\ Get
  <2>1. PICK f : f = [Idle EXCEPT !.pc = "lookup", !.key = Head(queue)]
    OBVIOUS
  <2>2. f.victims = {} /\ run' = [run EXCEPT ![h] = f]
    BY <1>3, <2>1 DEF Get, Idle
  <2>3. QED
    BY <2>2, FewerVictims
<1>4. CASE Return(h)
  BY <1>1, <1>4, FewerVictims DEF Return
<1>5. QED
  BY <1>2, <1>3, <1>4

LEMMA EvictedBorn ==
  ASSUME TypeOK, NEW h \in Handlers, NEW p \in run[h].victims, Terminate(p)
  PROVE  \A q \in Pods : pod[q].phase # "unborn" => pod'[q].phase # "unborn"
BY DEF Terminate, TypeOK, ClusterTypeOK, PodStates

LEMMA HandlerBorn ==
  ASSUME TypeOK, NEW h \in Handlers, HandlerStep(h)
  PROVE  BornKept
<1>1. run[h] \in Frames
  BY DEF TypeOK, RunTypeOK
<1>2. CASE Finish(h)
  BY <1>2, NoVictims DEF Finish, clusterVars
<1>3. CASE ListDeployments(h)
  <2>1. pod' = pod
    BY <1>3 DEF ListDeployments, clusterVars
  <2>2. CASE Return(h)
    BY <2>1, <2>2, NoVictims
  <2>3. ASSUME NEW t, NEW n, run' = [run EXCEPT ![h].todo = t, ![h].nss = n]
        PROVE  BornKept
    <3>1. PICK f : f = [run[h] EXCEPT !.todo = t, !.nss = n]
      OBVIOUS
    <3>2. f.victims = run[h].victims /\ run' = [run EXCEPT ![h] = f]
      BY <1>1, <2>3, <3>1 DEF Frames
    <3>3. QED
      BY <2>1, <3>2, FewerVictims
  <2>4. QED
    BY <1>3, <2>2, <2>3 DEF ListDeployments
<1>4. CASE ListPods(h)
  <2>1. PICK found \in {{p \in PodsOf(run[h].target) : ToRestart(h, p)}, {}} :
          run' = [run EXCEPT ![h].pc = "loop", ![h].target = None, ![h].victims = found]
    BY <1>4 DEF ListPods
  <2>2. PICK f : f = [run[h] EXCEPT !.pc = "loop", !.target = None, !.victims = found]
    OBVIOUS
  <2>3. f.victims = found /\ run' = [run EXCEPT ![h] = f]
    BY <1>1, <2>1, <2>2 DEF Frames
  <2>4. pod' = pod /\ \A p \in found : p \in Pods /\ pod[p].phase # "unborn"
    BY <1>4, <2>1 DEF ListPods, PodsOf, clusterVars
  <2>5. QED
    BY <2>3, <2>4, FewerVictims
<1>5. ASSUME NEW p \in run[h].victims, DeletePod(h, p)
      PROVE  BornKept
  <2>1. \A q \in Pods : pod[q].phase # "unborn" => pod'[q].phase # "unborn"
    BY <1>5, EvictedBorn DEF DeletePod
  <2>2. CASE Return(h)
    <3>1. Idle.victims = {}
      BY DEF Idle
    <3>2. QED
      BY <2>1, <2>2, <3>1, FewerVictims DEF Return
  <2>3. CASE run' = [run EXCEPT ![h].victims = @ \ {p}]
    <3>1. PICK f : f = [run[h] EXCEPT !.victims = @ \ {p}]
      OBVIOUS
    <3>2. f.victims \subseteq run[h].victims /\ run' = [run EXCEPT ![h] = f]
      BY <1>1, <2>3, <3>1 DEF Frames
    <3>3. QED
      BY <2>1, <3>2, FewerVictims
  <2>4. QED
    BY <1>5, <2>2, <2>3 DEF DeletePod
<1>6. QED
  BY <1>2, <1>3, <1>4, <1>5 DEF HandlerStep

LEMMA PatchBorn ==
  ASSUME TypeOK, NEW h \in Handlers, NEW i, pod' = pod, Return(h) \/ ToPods(h, i)
  PROVE  BornKept
<1>1. CASE ToPods(h, i)
  <2>1. PICK f : f = [run[h] EXCEPT !.pc = "pods", !.target = i.name, !.todo = @ \ {i}]
    OBVIOUS
  <2>2. f.victims = run[h].victims /\ run' = [run EXCEPT ![h] = f]
    BY <1>1, <2>1 DEF ToPods, TypeOK, RunTypeOK, Frames
  <2>3. QED
    BY <2>2, FewerVictims
<1>2. QED
  BY <1>1, NoVictims

LEMMA BornInvStep == TypeOK /\ BornInv /\ [Next]_vars => BornInv'
<1> SUFFICES ASSUME TypeOK, [Next]_vars, BornInv PROVE BornInv'
  OBVIOUS
<1>1. CASE ClusterNext /\ UNCHANGED <<queueVars, ctlVars>>
  BY <1>1, ClusterBorn, BornStep DEF BornKept, ctlVars
<1>2. CASE UNCHANGED <<clusterVars, run>>
  BY <1>2 DEF BornInv, clusterVars
<1>3. CASE Get \/ Lookup \/ OnDelete
  <2>1. pod' = pod
    BY <1>3 DEF Get, Lookup, OnDelete, clusterVars
  <2>2. CASE run' = [run EXCEPT !["worker"] = Idle]
    <3>1. Idle.victims = {}
      BY DEF Idle
    <3>2. QED
      BY <2>1, <2>2, <3>1, FewerVictims, BornStep DEF Handlers
  <2>3. QED
    BY <1>3, <2>1, <2>2, NoVictims, BornStep DEF Lookup, OnDelete, Handlers
<1>4. CASE OnTombstone \/ Crash
  BY <1>4 DEF OnTombstone, Crash, Restart, BornInv, Idle
<1>5. ASSUME NEW i \in run["worker"].todo, PatchCreated(i)
      PROVE  BornInv'
  BY <1>5, PatchBorn, BornStep DEF PatchCreated, PatchTo, PatchRejected, Handlers
<1>6. ASSUME NEW i \in run["listener"].todo, PatchDeleted(i)
      PROVE  BornInv'
  BY <1>6, PatchBorn, BornStep DEF PatchDeleted, PatchTo, PatchRejected, Handlers
<1>7. ASSUME NEW h \in Handlers, HandlerStep(h)
      PROVE  BornInv'
  BY <1>7, HandlerBorn, BornStep
<1>8. UNCHANGED vars \/ OnAdd \/ OnUpdate \/ (\E r \in Receivers : Observe(r)) => BornInv'
  BY <1>2 DEF vars, ctlVars, OnAdd, OnUpdate, Observe
<1>9. Environment => BornInv'
  BY <1>1, <1>2, <1>4 DEF Environment, UserApplies, UserDeletes, UserWrites, Relist
<1>10. QED
  BY <1>3, <1>4, <1>5, <1>6, <1>7, <1>8, <1>9 DEF Next, WorkerStep, ListenerStep, Handlers

\* What the controller does to a Deployment: it exists, and either it had no
\* policy or it has none afterwards.
PolicyPatched ==
  \E d \in deps, a \in Annotations :
    /\ ann' = [ann EXCEPT ![d] = a]
    /\ ann[d].policy = None \/ a.policy = None
    /\ UNCHANGED <<deps, pod>>

ControllerInClusterStep == [ClusterNext \/ PolicyPatched]_clusterVars

LEMMA PatchInCluster ==
  ASSUME TypeOK, LoopInv, ReasonInv,
         \/ \E i \in run["worker"].todo : PatchCreated(i)
         \/ \E i \in run["listener"].todo : PatchDeleted(i)
  PROVE  ControllerInClusterStep
<1>1. CASE UNCHANGED clusterVars
  BY <1>1 DEF ControllerInClusterStep
<1>2. ASSUME NEW h \in Handlers, NEW i \in run[h].todo, run[h].pc = "loop"
      PROVE  i.name \in deps /\ i.name \in Deployments /\ i.ann \in Annotations
                /\ ann[i.name] \in Annotations
  BY <1>2, TodoTypes DEF ReasonInv, FrameFor, Targets, TypeOK, ClusterTypeOK
<1>3. ASSUME NEW i \in run["worker"].todo, PatchCreated(i), ann' # ann
      PROVE  PolicyPatched
  <2> DEFINE a == AddPolicy(i.ann, ann[i.name], run["worker"].spec.policy)
  <2>1. /\ run["worker"].pc = "loop" /\ run["worker"].spec.policy \in Policies
        /\ UNCHANGED <<deps, pod>>
    BY <1>3, PatchCreatedOutcome, ControllerAssumption DEF TypeOK, RunTypeOK, Handlers
  <2>2. ann[i.name].policy = None /\ ann' = [ann EXCEPT ![i.name] = a]
    BY <1>3, PatchCreatedEffect, PatchCreatedOutcome DEF PatchOutcome
  <2>3. i.name \in deps /\ a \in Annotations
    BY <1>2, <2>1, AddPolicyType DEF Handlers
  <2> HIDE DEF a
  <2>4. QED
    BY <2>1, <2>2, <2>3 DEF PolicyPatched
<1>4. ASSUME NEW i \in run["listener"].todo, PatchDeleted(i), ann' # ann
      PROVE  PolicyPatched
  <2> DEFINE a == RemovePolicy(i.ann, ann[i.name])
  <2>1. run["listener"].pc = "loop" /\ UNCHANGED <<deps, pod>>
    BY <1>4, PatchDeletedOutcome
  <2>2. ann' = [ann EXCEPT ![i.name] = a]
    BY <1>4, PatchDeletedEffect
  <2>3. i.name \in deps /\ a \in Annotations /\ a.policy = None
    BY <1>2, <2>1, RemovePolicyType, RemovedPolicy DEF Handlers
  <2> HIDE DEF a
  <2>4. QED
    BY <2>1, <2>2, <2>3 DEF PolicyPatched
<1>5. UNCHANGED <<deps, pod>>
  BY DEF PatchCreated, PatchDeleted
<1>6. QED
  BY <1>1, <1>3, <1>4, <1>5 DEF ControllerInClusterStep, clusterVars

\* To delete a Pod that is running is to evict it; one that is terminating
\* already goes on terminating.
LEMMA DeleteInCluster ==
  ASSUME TypeOK, BornInv, NEW h \in Handlers, NEW p \in run[h].victims, DeletePod(h, p)
  PROVE  ControllerInClusterStep
<1>1. p \in Pods /\ pod[p].phase \in {"running", "terminating", "gone"} /\ pod \in [Pods -> PodStates]
  BY DEF TypeOK, RunTypeOK, Frames, ClusterTypeOK, PodStates, Phases, BornInv
<1>2. UNCHANGED <<deps, ann>> /\ (pod' = pod \/ (pod[p].phase # "gone" /\ Terminate(p)))
  BY DEF DeletePod, Fault
<1>3. CASE pod' = pod
  BY <1>2, <1>3 DEF ControllerInClusterStep, clusterVars
<1>4. CASE pod[p].phase = "running" /\ Terminate(p)
  <2>1. EvictPod(p)
    BY <1>2, <1>4 DEF EvictPod, Terminate
  <2>2. QED
    BY <1>1, <2>1 DEF ControllerInClusterStep, ClusterNext
<1>5. CASE pod[p].phase = "terminating" /\ Terminate(p)
  <2>1. pod' = pod
    BY <1>1, <1>5 DEF Terminate, PodStates
  <2>2. QED
    BY <1>3, <2>1
<1>6. QED
  BY <1>1, <1>2, <1>3, <1>4, <1>5

LEMMA InClusterStep == TypeOK /\ LoopInv /\ ReasonInv /\ BornInv /\ [Next]_vars => ControllerInClusterStep
<1> SUFFICES ASSUME TypeOK, LoopInv, ReasonInv, BornInv, [Next]_vars PROVE ControllerInClusterStep
  OBVIOUS
<1>1. CASE UNCHANGED clusterVars
  BY <1>1 DEF ControllerInClusterStep
<1>2. ASSUME NEW h \in Handlers, HandlerStep(h)
      PROVE  ControllerInClusterStep
  BY <1>1, <1>2, DeleteInCluster DEF HandlerStep, Finish, ListDeployments, ListPods
<1>3. CASE OnTombstone \/ Crash
  BY <1>1, <1>3, RestartFrame DEF OnTombstone, Crash
<1>4. CASE Environment /\ ~Crash
  BY <1>1, <1>4 DEF Environment, UserApplies, UserDeletes, UserWrites, Relist,
     ControllerInClusterStep
<1>5. QED
  BY <1>1, <1>2, <1>3, <1>4, PatchInCluster
     DEF Next, WorkerStep, ListenerStep, Handlers, Get, Lookup, OnAdd, OnUpdate, OnDelete,
         Observe, vars

\* To the rest of the system the controller is one that changes policies and
\* evicts Pods: it annotates only Deployments that exist, in one step each and
\* never one policy over another, deletes only Pods that were created, and
\* writes nothing else, whatever it read and when.  The webhook makes the other
\* half of Cluster's steps, and leaves it to somebody else to change policies
\* (controller.go:45-127, handler.go:98-382).
THEOREM ControllerInCluster == Spec => ClusterInit /\ [][ClusterNext \/ PolicyPatched]_clusterVars
<1>1. Init => ClusterInit /\ BornInv
  BY DEF Init, BornInv, Idle
<1>2. QED
  BY <1>1, InClusterStep, BornInvStep, ReasonInit, ReasonStep, Typing, LoopInvariant, PTL
     DEF Spec, ControllerInClusterStep
=============================================================================
