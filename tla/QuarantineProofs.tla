--------------------------- MODULE QuarantineProofs ---------------------------
(***************************************************************************)
(* Theorems about POST /action, for every number of requests, Deployments  *)
(* and Pods, all labels and policies, and every bound.                     *)
(***************************************************************************)
EXTENDS Quarantine, TLAPS

-----------------------------------------------------------------------------
(* Type correctness. *)

\* What TypeOK says of one request.
FrameOK(frame) ==
  /\ frame \in Frames
  /\ frame.pc \in {"targets", "get", "update"} => frame.pod # None
  /\ frame.pc = "update" <=> frame.target # None
  /\ frame.target # None => frame.target \in frame.targets

LEMMA FramesOK == TypeOK <=> /\ dep \in [Deployments -> DepObjects]
                             /\ alive \in SUBSET Pods
                             /\ req \in [Requests -> Frames]
                             /\ writes \in Nat
                             /\ faults \in Nat
                             /\ \A r \in Requests : FrameOK(req[r])
BY DEF TypeOK, FrameOK

LEMMA ReplicasType == MaxReplicas \in Nat
BY QuarantineAssumption

LEMMA SearchFromType ==
  ASSUME NEW frame, FrameOK(frame), frame.target = None, NEW dps \in SUBSET Items
  PROVE  FrameOK(SearchFrom(frame, dps)) /\ SearchFrom(frame, dps).pc # "update"
<1> DEFINE f(pc) == [frame EXCEPT !.dps = dps, !.pc = pc]
<1>1. ASSUME NEW pc \in {"answered", "pods"}
      PROVE  FrameOK(f(pc)) /\ f(pc).pc = pc
  BY DEF FrameOK, Frames
<1>2. SearchFrom(frame, dps) \in {f("answered"), f("pods")}
  BY DEF SearchFrom
<1>3. QED
  BY <1>1, <1>2

LEMMA TargetFromType ==
  ASSUME NEW frame, FrameOK(frame), frame.pod # None, NEW targets \in SUBSET Deployments
  PROVE  FrameOK(TargetFrom(frame, targets)) /\ TargetFrom(frame, targets).pc # "update"
BY DEF FrameOK, Frames, TargetFrom

LEMMA GroupType ==
  ASSUME NEW policy \in Policies \cup {NoPolicy}, NEW p \in Pods
  PROVE  GroupOf(policy, p) \in SUBSET Keys
BY QuarantineAssumption DEF GroupOf, Keys

\* One request goes on with a good frame, and a call may have failed.
LEMMA RequestStep ==
  ASSUME TypeOK, NEW r \in Requests, NEW frame, FrameOK(frame),
         Step(r, frame) \/ Fail(r, frame)
  PROVE  TypeOK'
<1>1. CASE Step(r, frame)
  BY <1>1 DEF Step, FrameOK, TypeOK
<1>2. CASE Fail(r, frame)
  <2> DEFINE g == [frame EXCEPT !.calm = FALSE]
  <2>1. FrameOK(g)
    BY DEF FrameOK, Frames
  <2>2. QED
    BY <1>2, <2>1 DEF Fail, FrameOK, TypeOK
<1>3. QED
  BY <1>1, <1>2

LEMMA ScaledDownType ==
  ASSUME NEW object \in DepObjects
  PROVE  ScaledDown(object) \in DepObjects
<1>1. \A n \in Nat, o \in DepObjects : [o EXCEPT !.rv = n] \in DepObjects
  BY DEF DepObjects
<1>2. [object EXCEPT !.replicas = 0] \in DepObjects
  BY DEF DepObjects
<1>3. object.rv + 1 \in Nat /\ [object EXCEPT !.replicas = 0].rv = object.rv
  BY DEF DepObjects
<1>4. QED
  BY <1>1, <1>2, <1>3 DEF ScaledDown

\* The objects that others may write.
LEMMA WrittenType ==
  ASSUME NEW object \in DepObjects
  PROVE  /\ [object EXCEPT !.replicas = MaxReplicas] \in DepObjects
         /\ [object EXCEPT !.rest = @ + 1] \in DepObjects
         /\ [object EXCEPT !.live = FALSE] \in DepObjects
         /\ \A p \in Policies \cup {NoPolicy} : [object EXCEPT !.policy = p] \in DepObjects
<1>1. [object EXCEPT !.replicas = MaxReplicas] \in DepObjects
  BY ReplicasType DEF DepObjects
<1>2. [object EXCEPT !.rest = @ + 1] \in DepObjects
  BY DEF DepObjects
<1>3. [object EXCEPT !.live = FALSE] \in DepObjects
  BY DEF DepObjects
<1>4. ASSUME NEW p \in Policies \cup {NoPolicy}
      PROVE  [object EXCEPT !.policy = p] \in DepObjects
  BY DEF DepObjects
<1>5. QED
  BY <1>1, <1>2, <1>3, <1>4

LEMMA InitType == Init => TypeOK
<1> SUFFICES ASSUME Init PROVE TypeOK
  OBVIOUS
<1>1. dep \in [Deployments -> DepObjects]
  BY ReplicasType DEF Init, DepObjects
<1>2. NewFrame \in Frames
  BY DEF NewFrame, Frames
<1>3. QED
  BY <1>1, <1>2 DEF Init, TypeOK, NewFrame

LEMMA OthersType ==
  ASSUME TypeOK, Others
  PROVE  TypeOK'
<1>1. ASSUME NEW d \in Deployments, NEW object \in DepObjects, Write(d, object)
      PROVE  TypeOK'
  <2>1. dep' \in [Deployments -> DepObjects]
    <3>1. \A n \in Nat : n + 1 \in Nat
      OBVIOUS
    <3>2. [object EXCEPT !.rv = @ + 1] \in DepObjects
      BY <3>1 DEF DepObjects
    <3>3. dep' = [dep EXCEPT ![d] = [object EXCEPT !.rv = @ + 1]]
      BY <1>1 DEF Write
    <3>4. dep \in [Deployments -> DepObjects]
      BY DEF TypeOK
    <3>5. PICK new \in DepObjects : dep' = [dep EXCEPT ![d] = new]
      BY <3>2, <3>3, Zenon
    <3>6. QED
      BY <3>4, <3>5
  <2>2. req' = [r \in Requests |-> [req[r] EXCEPT !.calm = FALSE]]
    BY <1>1 DEF Write, Disturbed
  <2>3. ASSUME NEW r \in Requests
        PROVE  FrameOK([req[r] EXCEPT !.calm = FALSE])
    <3>1. FrameOK(req[r]) /\ req[r] \in Frames
      BY FramesOK
    <3>2. [req[r] EXCEPT !.calm = FALSE] \in Frames
      BY <3>1 DEF Frames
    <3>3. /\ [req[r] EXCEPT !.calm = FALSE].pc = req[r].pc
          /\ [req[r] EXCEPT !.calm = FALSE].pod = req[r].pod
          /\ [req[r] EXCEPT !.calm = FALSE].target = req[r].target
          /\ [req[r] EXCEPT !.calm = FALSE].targets = req[r].targets
      BY <3>1 DEF Frames
    <3>4. QED
      BY <3>1, <3>2, <3>3 DEF FrameOK
  <2>4. QED
    <3>1. /\ req' \in [Requests -> Frames]
          /\ \A r \in Requests : FrameOK(req[r])'
      BY <2>2, <2>3 DEF FrameOK
    <3>2. alive' = alive /\ writes' \in Nat /\ faults' = faults
      BY <1>1 DEF Write, TypeOK
    <3>3. QED
      BY <2>1, <3>1, <3>2 DEF TypeOK, FrameOK
<1>2. ASSUME NEW d \in Deployments
      PROVE  /\ [dep[d] EXCEPT !.replicas = MaxReplicas] \in DepObjects
             /\ [dep[d] EXCEPT !.rest = @ + 1] \in DepObjects
             /\ [dep[d] EXCEPT !.live = FALSE] \in DepObjects
             /\ \A p \in Policies \cup {NoPolicy} : [dep[d] EXCEPT !.policy = p] \in DepObjects
  <2>1. dep[d] \in DepObjects
    BY DEF TypeOK
  <2>2. QED
    BY <2>1, WrittenType
<1>3. ASSUME NEW p \in Pods, EndPod(p)
      PROVE  TypeOK'
  BY <1>3 DEF EndPod, TypeOK
<1>4. QED
  BY <1>1, <1>2, <1>3 DEF Others, Scale, Edit, SetPolicy, DeleteDeployment

\* The frame after an Update.
LEMMA ReportType ==
  ASSUME TypeOK, NEW r \in Requests, req[r].pc = "update"
  PROVE  FrameOK(Report(r)) /\ Report(r).pc # "update"
<1>1. FrameOK(req[r]) /\ req[r].target # None /\ req[r].pod # None
  BY FramesOK DEF FrameOK
<1>2. req[r].target \in Deployments
  BY <1>1 DEF FrameOK, Frames
<1>3. FrameOK(Reported(r)) /\ Reported(r).pod # None
  BY <1>1, <1>2 DEF FrameOK, Frames, Reported
<1>4. req[r].targets \ {req[r].target} \in SUBSET Deployments
  BY <1>1 DEF FrameOK, Frames
<1>5. QED
  BY <1>2, <1>3, <1>4, TargetFromType DEF Report

\* ... if its answer is lost.
Lost(r) == [Report(r) EXCEPT !.calm = FALSE]

LEMMA LostType ==
  ASSUME TypeOK, NEW r \in Requests, req[r].pc = "update"
  PROVE  FrameOK(Lost(r)) /\ Lost(r).pc # "update"
BY ReportType DEF Lost, FrameOK, Frames

\* An Update that is taken.
Taken(r, frame) ==
  /\ req[r].pc = "update"
  /\ Fresh(r)
  /\ dep' = [dep EXCEPT ![req[r].target] = ScaledDown(req[r].got)]
  /\ req' = [req EXCEPT ![r] = frame]
  /\ faults' \in {faults, faults + 1}
  /\ UNCHANGED <<alive, writes>>

\* What a step of takeAction may do to the state.
Effect(r, frame) ==
  /\ FrameOK(frame)
  /\ \/ /\ Step(r, frame) \/ Fail(r, frame)
        /\ frame.pc = "update" => frame.got = None \/ frame.got = dep[frame.target]
     \/ Taken(r, frame) /\ frame.pc # "update"

LEMMA ListEffect ==
  ASSUME TypeOK, NEW r \in Requests, ListDeployments(r)
  PROVE  \E frame \in Frames : Effect(r, frame)
<1>1. FrameOK(req[r]) /\ req[r].target = None
  BY FramesOK DEF ListDeployments, FrameOK
<1>2. {[name |-> d, policy |-> dep[d].policy] : d \in Existing} \in SUBSET Items
  BY DEF Existing, Items, TypeOK, DepObjects
<1>3. ASSUME NEW dps \in SUBSET Items, NEW frame,
             frame = SearchFrom(req[r], dps), Step(r, frame) \/ Fail(r, frame)
      PROVE  Effect(r, frame) /\ frame \in Frames
  <2>1. FrameOK(frame) /\ frame.pc # "update"
    BY <1>1, <1>3, SearchFromType
  <2>2. QED
    BY <1>3, <2>1 DEF Effect, FrameOK
<1>4. QED
  BY <1>2, <1>3 DEF ListDeployments

LEMMA PodsEffect ==
  ASSUME TypeOK, NEW r \in Requests, NEW dp \in req[r].dps, ListPods(r, dp)
  PROVE  \E frame \in Frames : Effect(r, frame)
<1>1. FrameOK(req[r]) /\ req[r].target = None /\ req[r].dps \in SUBSET Items
  BY FramesOK DEF ListPods, FrameOK, Frames
<1>2. FrameOK(SearchFrom(req[r], req[r].dps \ {dp})) /\ SearchFrom(req[r], req[r].dps \ {dp}).pc # "update"
  BY <1>1, SearchFromType
<1>3. FrameOK(Answer(req[r])) /\ Answer(req[r]).pc # "update"
  BY <1>1 DEF Answer, FrameOK, Frames
<1>4. ASSUME NEW p \in Found(r, dp.name), NEW frame,
             frame = [req[r] EXCEPT !.pc = "targets", !.pod = p, !.group = GroupOf(dp.policy, p)]
      PROVE  FrameOK(frame) /\ frame.pc # "update"
  <2>1. p \in Pods /\ p # None
    BY QuarantineAssumption DEF Found, TypeOK
  <2>2. dp.policy \in Policies \cup {NoPolicy}
    BY <1>1 DEF Items
  <2>3. GroupOf(dp.policy, p) \in SUBSET Keys
    BY <2>1, <2>2, GroupType
  <2>4. QED
    BY <1>1, <1>4, <2>1, <2>3 DEF FrameOK, Frames
<1>5. ASSUME NEW frame, FrameOK(frame), frame.pc # "update", Step(r, frame) \/ Fail(r, frame)
      PROVE  Effect(r, frame) /\ frame \in Frames
  BY <1>5 DEF Effect, FrameOK
<1>6. QED
  BY <1>2, <1>3, <1>4, <1>5 DEF ListPods

LEMMA TargetsEffect ==
  ASSUME TypeOK, NEW r \in Requests, ListTargets(r)
  PROVE  \E frame \in Frames : Effect(r, frame)
<1>1. FrameOK(req[r]) /\ req[r].pod # None
  BY FramesOK DEF ListTargets, FrameOK
<1>2. {d \in Existing : SelectedBy(req[r].pod, req[r].group, d)} \in SUBSET Deployments
  BY DEF Existing
<1>3. ASSUME NEW targets \in SUBSET Deployments, NEW frame,
             frame = TargetFrom(req[r], targets), Step(r, frame) \/ Fail(r, frame)
      PROVE  Effect(r, frame) /\ frame \in Frames
  <2>1. FrameOK(frame) /\ frame.pc # "update"
    BY <1>1, <1>3, TargetFromType
  <2>2. QED
    BY <1>3, <2>1 DEF Effect, FrameOK
<1>4. QED
  BY <1>2, <1>3 DEF ListTargets

LEMMA GetEffect ==
  ASSUME TypeOK, NEW r \in Requests, NEW d \in req[r].targets, GetTarget(r, d)
  PROVE  \E frame \in Frames : Effect(r, frame)
<1>1. FrameOK(req[r]) /\ req[r].pod # None /\ d \in Deployments /\ d # None
  BY FramesOK, QuarantineAssumption DEF GetTarget, FrameOK, Frames
<1>2. dep[d] \in DepObjects
  BY <1>1 DEF TypeOK
<1>3. ASSUME NEW object \in {dep[d], None}, NEW frame,
             frame = [req[r] EXCEPT !.pc = "update", !.target = d, !.got = object],
             Step(r, frame) \/ Fail(r, frame)
      PROVE  Effect(r, frame) /\ frame \in Frames
  <2>1. FrameOK(frame) /\ frame.got = object /\ frame.target = d
    BY <1>1, <1>2, <1>3 DEF FrameOK, Frames
  <2>2. QED
    BY <1>3, <2>1 DEF Effect, FrameOK
<1>4. QED
  BY <1>3 DEF GetTarget

LEMMA UpdateEffect ==
  ASSUME TypeOK, NEW r \in Requests, UpdateTarget(r)
  PROVE  \E frame \in Frames : Effect(r, frame)
<1>1. FrameOK(Report(r)) /\ Report(r).pc # "update"
  BY ReportType DEF UpdateTarget
<1>2. FrameOK(Lost(r)) /\ Lost(r).pc # "update"
  BY LostType DEF UpdateTarget
<1>3. Step(r, Report(r)) \/ Fail(r, Report(r)) \/ Taken(r, Report(r)) \/ Taken(r, Lost(r))
  BY DEF UpdateTarget, Taken, Lost
<1>4. QED
  BY <1>1, <1>2, <1>3 DEF Effect, FrameOK

LEMMA HandleEffect ==
  ASSUME TypeOK, NEW r \in Requests, Handle(r)
  PROVE  \E frame \in Frames : Effect(r, frame)
BY ListEffect, PodsEffect, TargetsEffect, GetEffect, UpdateEffect DEF Handle

\* An Update that is taken is one of a target that was got.
LEMMA TakenTarget ==
  ASSUME TypeOK, NEW r \in Requests, NEW frame, Taken(r, frame)
  PROVE  /\ req[r].target # None /\ req[r].target \in Deployments
         /\ req[r].got # None /\ req[r].got \in DepObjects
<1>1. FrameOK(req[r]) /\ req[r].pc = "update" /\ req[r].got # None
  BY FramesOK DEF Taken, Fresh
<1>2. QED
  BY <1>1 DEF FrameOK, Frames

LEMMA HandleType ==
  ASSUME TypeOK, NEW r \in Requests, Handle(r)
  PROVE  TypeOK'
<1>1. PICK frame \in Frames : Effect(r, frame)
  BY HandleEffect
<1>2. CASE Step(r, frame) \/ Fail(r, frame)
  BY <1>1, <1>2, RequestStep DEF Effect
<1>3. CASE Taken(r, frame)
  <2>1. dep' \in [Deployments -> DepObjects]
    BY <1>3, TakenTarget, ScaledDownType DEF Taken, TypeOK
  <2>2. faults' \in Nat
    BY <1>3 DEF Taken, TypeOK
  <2>3. QED
    BY <1>1, <1>3, <2>1, <2>2 DEF Taken, Effect, TypeOK, FrameOK
<1>4. QED
  BY <1>1, <1>2, <1>3 DEF Effect

LEMMA AskType ==
  ASSUME TypeOK, NEW r \in Requests, NEW p \in Pods, Ask(r, NameOf[p])
  PROVE  TypeOK'
<1> DEFINE f == [req[r] EXCEPT !.pc = "list", !.name = NameOf[p], !.calm = TRUE]
<1>1. FrameOK(f)
  <2>1. NameOf[p] \in STRING
    BY QuarantineAssumption
  <2>2. FrameOK(req[r]) /\ req[r].pc = "new"
    BY FramesOK DEF Ask
  <2>3. f \in Frames
    BY <2>1, <2>2 DEF FrameOK, Frames
  <2>4. f.pc = "list" /\ f.target = req[r].target /\ f.targets = req[r].targets
    BY <2>2 DEF FrameOK, Frames
  <2>5. QED
    BY <2>2, <2>3, <2>4 DEF FrameOK
<1>2. QED
  BY <1>1, RequestStep DEF Ask

\* Requests and everybody else keep the types of the state (endpoint.go:93-210).
THEOREM ActionTyping == Spec => []TypeOK
<1>1. TypeOK /\ [Next]_vars => TypeOK'
  <2> SUFFICES ASSUME TypeOK, [Next]_vars PROVE TypeOK'
    OBVIOUS
  <2>1. CASE UNCHANGED vars
    BY <2>1 DEF vars, TypeOK
  <2>2. QED
    BY <2>1, HandleType, AskType, OthersType DEF Next
<1>2. QED
  BY <1>1, InitType, PTL DEF Spec

-----------------------------------------------------------------------------
(* No write of anybody else is lost. *)

\* What a request got is what is stored, or the resourceVersion tells.  This
\* is what makes it safe to send back a whole object.
GotInv ==
  \A r \in Requests : req[r].target # None /\ req[r].got # None =>
    LET now == dep[req[r].target]
    IN req[r].got.rv <= now.rv /\ (req[r].got.rv = now.rv => req[r].got = now)

\* A step that changes one Deployment only and raises its resourceVersion
\* cannot be mistaken for no change.
LEMMA NewVersion ==
  ASSUME TypeOK, GotInv, NEW d \in Deployments, NEW object \in DepObjects,
         object.rv = dep[d].rv + 1, dep' = [dep EXCEPT ![d] = object],
         NEW r \in Requests, req'[r].target = req[r].target, req'[r].got = req[r].got
  PROVE  req'[r].target # None /\ req'[r].got # None =>
           /\ req'[r].got.rv <= dep'[req'[r].target].rv
           /\ req'[r].got.rv = dep'[req'[r].target].rv => req'[r].got = dep'[req'[r].target]
<1> SUFFICES ASSUME req[r].target # None, req[r].got # None
             PROVE  /\ req[r].got.rv <= dep'[req[r].target].rv
                    /\ req[r].got.rv = dep'[req[r].target].rv => req[r].got = dep'[req[r].target]
  OBVIOUS
<1>1. req[r].target \in Deployments /\ req[r].got \in DepObjects
  BY FramesOK DEF FrameOK, Frames
<1>2. /\ req[r].got.rv <= dep[req[r].target].rv
      /\ req[r].got.rv = dep[req[r].target].rv => req[r].got = dep[req[r].target]
  BY DEF GotInv
<1>3. CASE req[r].target = d
  <2>1. dep'[req[r].target] = object
    BY <1>3 DEF TypeOK
  <2>2. req[r].got.rv \in Nat /\ dep[d].rv \in Nat
    BY <1>1 DEF TypeOK, DepObjects
  <2>3. QED
    BY <2>1, <2>2, <1>2, <1>3
<1>4. CASE req[r].target # d
  BY <1>4, <1>1, <1>2 DEF TypeOK
<1>5. QED
  BY <1>3, <1>4

\* One request goes on without an object, and what is stored stays.
LEMMA GotStep ==
  ASSUME TypeOK, TypeOK', GotInv, NEW r \in Requests, dep' = dep,
         \A s \in Requests \ {r} : req'[s] = req[s], req'[r].pc # "update"
  PROVE  GotInv'
<1>1. req'[r].target = None
  BY DEF TypeOK
<1>2. QED
  BY <1>1 DEF GotInv

LEMMA GotInit == Init => GotInv
BY DEF Init, GotInv, NewFrame

LEMMA GotOthers ==
  ASSUME TypeOK, GotInv, Others
  PROVE  GotInv'
<1>1. ASSUME NEW d \in Deployments, NEW object, object.rv = dep[d].rv,
             object \in DepObjects, Write(d, object)
      PROVE  GotInv'
  <2> DEFINE new == [object EXCEPT !.rv = @ + 1]
  <2>1. new \in DepObjects /\ new.rv = dep[d].rv + 1 /\ dep' = [dep EXCEPT ![d] = new]
    BY <1>1 DEF Write, DepObjects
  <2>2. \A r \in Requests : req'[r].target = req[r].target /\ req'[r].got = req[r].got
    BY <1>1 DEF Write, Disturbed, TypeOK, Frames
  <2>3. QED
    BY <2>1, <2>2, NewVersion DEF GotInv
<1>2. ASSUME NEW d \in Deployments
      PROVE  /\ [dep[d] EXCEPT !.replicas = MaxReplicas] \in DepObjects
             /\ [dep[d] EXCEPT !.replicas = MaxReplicas].rv = dep[d].rv
             /\ [dep[d] EXCEPT !.rest = @ + 1] \in DepObjects
             /\ [dep[d] EXCEPT !.rest = @ + 1].rv = dep[d].rv
             /\ [dep[d] EXCEPT !.live = FALSE] \in DepObjects
             /\ [dep[d] EXCEPT !.live = FALSE].rv = dep[d].rv
             /\ \A p \in Policies \cup {NoPolicy} :
                  /\ [dep[d] EXCEPT !.policy = p] \in DepObjects
                  /\ [dep[d] EXCEPT !.policy = p].rv = dep[d].rv
  <2>1. dep[d] \in DepObjects
    BY DEF TypeOK
  <2>2. \A x : /\ [dep[d] EXCEPT !.replicas = x].rv = dep[d].rv
              /\ [dep[d] EXCEPT !.rest = x].rv = dep[d].rv
              /\ [dep[d] EXCEPT !.live = x].rv = dep[d].rv
              /\ [dep[d] EXCEPT !.policy = x].rv = dep[d].rv
    BY <2>1 DEF DepObjects
  <2>3. QED
    BY <2>1, <2>2, WrittenType
<1>3. ASSUME NEW p \in Pods, EndPod(p)
      PROVE  GotInv'
  BY <1>3 DEF EndPod, GotInv
<1>4. QED
  BY <1>1, <1>2, <1>3 DEF Others, Scale, Edit, SetPolicy, DeleteDeployment

\* The object an Update that is taken sends is the stored one, and only its
\* replicas are set to zero.
LEMMA TakenUpdate ==
  ASSUME TypeOK, GotInv, NEW r \in Requests, NEW frame, Taken(r, frame)
  PROVE  dep' = [dep EXCEPT ![req[r].target] = ScaledDown(dep[req[r].target])]
<1>1. req[r].got = dep[req[r].target]
  BY TakenTarget DEF Taken, Fresh, GotInv
<1>2. QED
  BY <1>1 DEF Taken

LEMMA GotHandle ==
  ASSUME TypeOK, GotInv, NEW r \in Requests, Handle(r)
  PROVE  GotInv'
<1>0. TypeOK'
  BY HandleType
<1>1. PICK frame \in Frames : Effect(r, frame)
  BY HandleEffect
<1>2. CASE /\ Step(r, frame) \/ Fail(r, frame)
           /\ frame.pc = "update" => frame.got = None \/ frame.got = dep[frame.target]
  <2>1. dep' = dep /\ \A s \in Requests \ {r} : req'[s] = req[s]
    BY <1>2 DEF Step, Fail, TypeOK
  <2>2. req'[r].pc = frame.pc /\ req'[r].target = frame.target /\ req'[r].got = frame.got
    BY <1>2 DEF Step, Fail, TypeOK, Frames
  <2>3. CASE frame.pc # "update"
    BY <1>0, <2>1, <2>2, <2>3, GotStep
  <2>4. CASE frame.pc = "update"
    <3>1. frame.got = None \/ frame.got = dep[frame.target]
      BY <1>2, <2>4
    <3>2. frame.target # None => dep[frame.target] \in DepObjects
      BY <1>1 DEF TypeOK, Frames
    <3>3. \A object \in DepObjects : object.rv <= object.rv
      BY DEF DepObjects
    <3>4. QED
      BY <2>1, <2>2, <3>1, <3>2, <3>3 DEF GotInv
  <2>5. QED
    BY <2>3, <2>4
<1>3. CASE Taken(r, frame) /\ frame.pc # "update"
  <2> DEFINE d == req[r].target
  <2>1. d \in Deployments /\ dep[d] \in DepObjects
    BY <1>3, TakenTarget DEF TypeOK
  <2>2. dep' = [dep EXCEPT ![d] = ScaledDown(dep[d])]
    BY <1>3, TakenUpdate
  <2>3. req'[r].pc # "update" /\ \A s \in Requests \ {r} : req'[s] = req[s]
    BY <1>3 DEF Taken, TypeOK
  <2>4. CASE dep[d].replicas = 0
    <3>1. dep' = dep
      BY <2>1, <2>2, <2>4 DEF ScaledDown, TypeOK
    <3>2. QED
      BY <1>0, <2>3, <3>1, GotStep
  <2>5. CASE dep[d].replicas # 0
    <3>1. ScaledDown(dep[d]) \in DepObjects /\ ScaledDown(dep[d]).rv = dep[d].rv + 1
      <4>1. \A n : [[dep[d] EXCEPT !.replicas = 0] EXCEPT !.rv = n].rv = n
        BY <2>1 DEF DepObjects
      <4>2. [dep[d] EXCEPT !.replicas = 0].rv = dep[d].rv
        BY <2>1 DEF DepObjects
      <4>3. QED
        BY <2>1, <2>5, <4>1, <4>2, ScaledDownType DEF ScaledDown
    <3>2. req'[r].target = None
      BY <1>0, <2>3 DEF TypeOK
    <3>3. QED
      BY <2>1, <2>2, <2>3, <3>1, <3>2, NewVersion DEF GotInv
  <2>6. QED
    BY <2>4, <2>5
<1>4. QED
  BY <1>1, <1>2, <1>3 DEF Effect

LEMMA GotAsk ==
  ASSUME TypeOK, GotInv, NEW r \in Requests, NEW p \in Pods, Ask(r, NameOf[p])
  PROVE  GotInv'
<1>1. TypeOK'
  BY AskType
<1>2. /\ dep' = dep /\ req'[r].pc = "list"
      /\ \A s \in Requests \ {r} : req'[s] = req[s]
  BY DEF Ask, Step, TypeOK, Frames
<1>3. QED
  BY <1>1, <1>2, GotStep

\* The object a request has got is the stored one, or the stored one has a
\* later resourceVersion, so that sending the old one is refused
\* (endpoint.go:184-192).
THEOREM GotInvariant == Spec => []GotInv
<1>1. TypeOK /\ GotInv /\ [Next]_vars => GotInv'
  <2> SUFFICES ASSUME TypeOK, GotInv, [Next]_vars PROVE GotInv'
    OBVIOUS
  <2>1. CASE UNCHANGED vars
    BY <2>1 DEF vars, GotInv
  <2>2. QED
    BY <2>1, GotHandle, GotAsk, GotOthers DEF Next
<1>2. QED
  BY <1>1, GotInit, ActionTyping, PTL DEF Spec

\* A request changes nothing of a Deployment but its number of replicas,
\* although it sends back a whole object that it read in an earlier step,
\* however requests and others interleave (endpoint.go:184-192).
THEOREM RequestsLoseNoWrite == Spec => NoLostWrite
<1>1. TypeOK /\ GotInv /\ [Next]_vars =>
        [writes' = writes => \A d \in Deployments :
           dep'[d] # dep[d] => /\ dep'[d].replicas = 0
                               /\ dep'[d] = ScaledDown(dep[d])]_vars
  <2> SUFFICES ASSUME TypeOK, GotInv, Next, writes' = writes
               PROVE  \A d \in Deployments :
                        dep'[d] # dep[d] => dep'[d].replicas = 0 /\ dep'[d] = ScaledDown(dep[d])
    OBVIOUS
  <2>1. ASSUME NEW r \in Requests, Handle(r)
        PROVE  \/ dep' = dep
               \/ \E d \in Deployments : dep' = [dep EXCEPT ![d] = ScaledDown(dep[d])]
    <3>1. PICK frame \in Frames : Effect(r, frame)
      BY <2>1, HandleEffect
    <3>2. CASE Taken(r, frame)
      BY <3>2, TakenTarget, TakenUpdate
    <3>3. CASE ~Taken(r, frame)
      BY <3>1, <3>3 DEF Effect, Step, Fail
    <3>4. QED
      BY <3>2, <3>3
  <2>2. ASSUME NEW r \in Requests, NEW p \in Pods, Ask(r, NameOf[p])
        PROVE  dep' = dep
    BY <2>2 DEF Ask, Step
  <2>3. Others => dep' = dep
    <3>1. ASSUME NEW d, NEW object, Write(d, object)
          PROVE  FALSE
      BY <3>1 DEF Write, TypeOK
    <3>2. QED
      BY <3>1 DEF Others, Scale, Edit, SetPolicy, DeleteDeployment, EndPod
  <2>4. \A d \in Deployments : ScaledDown(dep[d]).replicas = 0
    BY DEF ScaledDown, TypeOK, DepObjects
  <2>5. QED
    BY <2>1, <2>2, <2>3, <2>4 DEF Next, TypeOK
<1>2. QED
  BY <1>1, ActionTyping, GotInvariant, PTL DEF Spec, NoLostWrite

-----------------------------------------------------------------------------
(* What is answered is down.  The predicates have the Deployments ds and   *)
(* the Pods up as parameters, so that one lemma speaks of two states.      *)

\* Deployment o decides on Pod p for the request with frame f.
Decides(f, p, o, ds) ==
  NameOf[p] = f.name /\ ds[o].live /\ p \in Selects[o]

SimilarIn(p, group, ds) == {d \in Deployments : ds[d].live /\ SelectedBy(p, group, d)}

\* The list of Deployments says what is stored, and those that have a Pod of
\* the name are left in it.
ListRight(f, ds, up) ==
  /\ \A it \in f.dps : ds[it.name].live /\ ds[it.name].policy = it.policy
  /\ \A d \in Deployments, p \in up :
       Decides(f, p, d, ds) => \E it \in f.dps : it.name = d

PodRight(f, ds) ==
  \E o \in Deployments :
    /\ Decides(f, f.pod, o, ds)
    /\ ActionOf(ds[o].policy) = "quarantine"
    /\ f.group = GroupOf(ds[o].policy, f.pod)

TargetsRight(f, ds) == f.resp \cup f.targets = SimilarIn(f.pod, f.group, ds)

\* Whoever has written the target since it was got has scaled it down.
GotRight(f, ds) ==
  /\ f.got # None
  /\ f.got.rv = ds[f.target].rv \/ ds[f.target].replicas = 0

\* The answer is the one Deployment o asks for by its policy for Pod q.
Answers(f, q, o, ds) ==
  /\ Decides(f, q, o, ds)
  /\ f.resp = IF ActionOf(ds[o].policy) = "quarantine"
              THEN SimilarIn(q, GroupOf(ds[o].policy, q), ds)
              ELSE {}

AnswerRight(f, ds, up) ==
  \A p \in up, d \in Deployments : Decides(f, p, d, ds) =>
    \E q \in Pods, o \in Deployments : Answers(f, q, o, ds)

\* The answer is empty until there are targets.
Unanswered(f) == f.pc \in {"new", "list", "pods", "targets"} => f.resp = {}

\* What is true of a request at each of its steps as long as nobody else has
\* written a Deployment and none of its calls has failed.
FrameRight(f, ds, up) ==
  /\ Unanswered(f)
  /\ f.calm =>
       /\ \A d \in f.resp : ds[d].replicas = 0
       /\ f.pc = "pods" => ListRight(f, ds, up)
       /\ f.pc \in {"targets", "get", "update"} => PodRight(f, ds)
       /\ f.pc \in {"get", "update"} => TargetsRight(f, ds)
       /\ f.pc = "update" => GotRight(f, ds)
       /\ f.pc = "answered" => AnswerRight(f, ds, up)

AllRight == \A r \in Requests : FrameRight(req[r], dep, alive)

\* From ds to new, Deployments are scaled down and nothing else.
OnlyDown(ds, new) ==
  \A d \in Deployments :
    /\ new[d].live = ds[d].live /\ new[d].policy = ds[d].policy
    /\ new[d] = ds[d] \/ new[d].replicas = 0

\* A request is not disturbed by others that scale down, nor by Pods that end.
LEMMA RightStable ==
  ASSUME NEW f, FrameOK(f), NEW ds, NEW new, OnlyDown(ds, new),
         NEW up, NEW left, left \subseteq up, FrameRight(f, ds, up)
  PROVE  FrameRight(f, new, left)
<1>1. ASSUME NEW p, NEW o \in Deployments
      PROVE  Decides(f, p, o, new) <=> Decides(f, p, o, ds)
  BY DEF Decides, OnlyDown
<1>2. \A p, group : SimilarIn(p, group, new) = SimilarIn(p, group, ds)
  BY DEF SimilarIn, OnlyDown
<1>3. (\A d \in f.resp : ds[d].replicas = 0) => \A d \in f.resp : new[d].replicas = 0
  <2>1. f.resp \subseteq Deployments
    BY DEF FrameOK, Frames
  <2>2. \A d \in Deployments : new[d] = ds[d] \/ new[d].replicas = 0
    BY DEF OnlyDown
  <2> SUFFICES ASSUME NEW d \in f.resp, ds[d].replicas = 0 PROVE new[d].replicas = 0
    OBVIOUS
  <2>3. QED
    BY <2>1, <2>2
<1>4. ListRight(f, ds, up) => ListRight(f, new, left)
  <2>1. \A it \in f.dps : it.name \in Deployments
    BY DEF FrameOK, Frames, Items
  <2>2. ASSUME NEW it \in f.dps, ds[it.name].live, ds[it.name].policy = it.policy
        PROVE  new[it.name].live /\ new[it.name].policy = it.policy
    BY <2>1, <2>2 DEF OnlyDown
  <2>3. ASSUME ListRight(f, ds, up), NEW d \in Deployments, NEW p \in left, Decides(f, p, d, new)
        PROVE  \E it \in f.dps : it.name = d
    <3>1. Decides(f, p, d, ds)
      BY <1>1, <2>3
    <3>2. QED
      BY <2>3, <3>1 DEF ListRight
  <2>4. QED
    BY <2>2, <2>3 DEF ListRight
<1>5. PodRight(f, ds) => PodRight(f, new)
  <2> SUFFICES ASSUME PodRight(f, ds) PROVE PodRight(f, new)
    OBVIOUS
  <2>1. PICK o \in Deployments :
          /\ Decides(f, f.pod, o, ds)
          /\ ActionOf(ds[o].policy) = "quarantine"
          /\ f.group = GroupOf(ds[o].policy, f.pod)
    BY DEF PodRight
  <2>2. new[o].policy = ds[o].policy /\ Decides(f, f.pod, o, new)
    BY <2>1 DEF OnlyDown, Decides
  <2>3. QED
    BY <2>1, <2>2 DEF PodRight
<1>6. TargetsRight(f, ds) => TargetsRight(f, new)
  BY <1>2 DEF TargetsRight
<1>7. f.pc = "update" /\ GotRight(f, ds) => GotRight(f, new)
  <2>1. f.pc = "update" => f.target \in Deployments
    BY DEF FrameOK, Frames
  <2>2. QED
    BY <2>1 DEF GotRight, OnlyDown
<1>8. ASSUME NEW q \in Pods, NEW o \in Deployments, Answers(f, q, o, ds)
      PROVE  Answers(f, q, o, new)
  <2>1. new[o].policy = ds[o].policy /\ Decides(f, q, o, new)
    BY <1>8 DEF OnlyDown, Decides, Answers
  <2>2. SimilarIn(q, GroupOf(ds[o].policy, q), new) = SimilarIn(q, GroupOf(ds[o].policy, q), ds)
    BY <1>2
  <2>3. QED
    BY <1>8, <2>1, <2>2 DEF Answers
<1>9. AnswerRight(f, ds, up) => AnswerRight(f, new, left)
  <2> SUFFICES ASSUME AnswerRight(f, ds, up), NEW p \in left, NEW d \in Deployments,
                      Decides(f, p, d, new)
               PROVE  \E q \in Pods, o \in Deployments : Answers(f, q, o, new)
    BY DEF AnswerRight
  <2>1. Decides(f, p, d, ds)
    BY <1>1
  <2>2. PICK q \in Pods, o \in Deployments : Answers(f, q, o, ds)
    BY <2>1 DEF AnswerRight
  <2>3. QED
    BY <1>8, <2>2
<1>10. QED
  BY <1>3, <1>4, <1>5, <1>6, <1>7, <1>9 DEF FrameRight

\* One request goes on, while nothing is written but scaled down.
LEMMA RightStep ==
  ASSUME TypeOK, AllRight, OnlyDown(dep, dep'), alive' \subseteq alive,
         NEW r \in Requests, \A s \in Requests \ {r} : req'[s] = req[s],
         FrameRight(req'[r], dep', alive')
  PROVE  AllRight'
<1>1. ASSUME NEW s \in Requests \ {r}
      PROVE  FrameRight(req[s], dep', alive')
  <2>1. FrameOK(req[s]) /\ FrameRight(req[s], dep, alive)
    BY FramesOK DEF AllRight
  <2>2. QED
    BY <2>1, RightStable
<1>2. QED
  BY <1>1 DEF AllRight

\* A step that writes nothing: the new frame has to be right, unless a call
\* of the request has failed.
LEMMA RightCall ==
  ASSUME TypeOK, AllRight, NEW r \in Requests, NEW f \in Frames, Unanswered(f),
         (Step(r, f) /\ FrameRight(f, dep, alive)) \/ Fail(r, f)
  PROVE  AllRight'
<1>1. /\ OnlyDown(dep, dep') /\ dep' = dep /\ alive' = alive
      /\ \A s \in Requests \ {r} : req'[s] = req[s]
  BY DEF OnlyDown, Step, Fail, TypeOK
<1>2. FrameRight(req'[r], dep', alive')
  <2>1. CASE Step(r, f) /\ FrameRight(f, dep, alive)
    <3>1. req'[r] = f
      BY <2>1 DEF Step, TypeOK
    <3>2. QED
      BY <1>1, <2>1, <3>1
  <2>2. CASE Fail(r, f)
    <3>1. req'[r] = [f EXCEPT !.calm = FALSE]
      BY <2>2 DEF Fail, TypeOK
    <3>2. req'[r].calm = FALSE /\ req'[r].pc = f.pc /\ req'[r].resp = f.resp
      BY <3>1 DEF Frames
    <3>3. QED
      BY <3>2 DEF FrameRight, Unanswered
  <2>3. QED
    BY <2>1, <2>2
<1>3. QED
  BY <1>1, <1>2, RightStep

LEMMA RightOthers ==
  ASSUME TypeOK, AllRight, Others
  PROVE  AllRight'
<1>1. ASSUME NEW d \in Deployments, NEW object, Write(d, object)
      PROVE  AllRight'
  <2>1. \A r \in Requests : req'[r] = [req[r] EXCEPT !.calm = FALSE]
    BY <1>1 DEF Write, Disturbed
  <2>2. \A r \in Requests :
          req'[r].calm = FALSE /\ req'[r].pc = req[r].pc /\ req'[r].resp = req[r].resp
    BY <2>1 DEF TypeOK, Frames
  <2>3. QED
    BY <2>2 DEF AllRight, FrameRight, Unanswered
<1>2. ASSUME NEW p \in Pods, EndPod(p)
      PROVE  AllRight'
  <2>1. OnlyDown(dep, dep') /\ alive' \subseteq alive /\ req' = req
    BY <1>2 DEF EndPod, OnlyDown
  <2>2. ASSUME NEW r \in Requests PROVE FrameRight(req[r], dep', alive')
    <3>1. FrameOK(req[r]) /\ FrameRight(req[r], dep, alive)
      BY FramesOK DEF AllRight
    <3>2. QED
      BY <2>1, <3>1, RightStable
  <2>3. QED
    BY <2>1, <2>2 DEF AllRight
<1>3. QED
  BY <1>1, <1>2 DEF Others, Scale, Edit, SetPolicy, DeleteDeployment

LEMMA RightAsk ==
  ASSUME TypeOK, AllRight, NEW r \in Requests, NEW p \in Pods, Ask(r, NameOf[p])
  PROVE  AllRight'
<1> DEFINE f == [req[r] EXCEPT !.pc = "list", !.name = NameOf[p], !.calm = TRUE]
<1>1. req[r] \in Frames /\ req[r].resp = {} /\ Step(r, f) /\ NameOf[p] \in STRING
  BY QuarantineAssumption DEF Ask, TypeOK, AllRight, FrameRight, Unanswered
<1>2. f \in Frames
  BY <1>1 DEF Frames
<1>3. f.pc = "list" /\ f.resp = {}
  BY <1>1 DEF Frames
<1> HIDE DEF f
<1>4. FrameRight(f, dep, alive)
  BY <1>3 DEF FrameRight, Unanswered
<1>5. QED
  BY <1>1, <1>2, <1>4, RightCall DEF FrameRight

\* The search of the Deployments goes on with a right list, or is over.
LEMMA RightSearch ==
  ASSUME NEW f \in Frames, NEW dps \in SUBSET Items, f.resp = {},
         f.calm => /\ \A it \in dps : dep[it.name].live /\ dep[it.name].policy = it.policy
                   /\ \A d \in Deployments, p \in alive :
                        Decides(f, p, d, dep) => \E it \in dps : it.name = d
  PROVE  LET s == SearchFrom(f, dps)
         IN s \in Frames /\ FrameRight(s, dep, alive)
<1> DEFINE s == SearchFrom(f, dps)
<1>1. PICK pc \in {"answered", "pods"} :
        pc = (IF dps = {} THEN "answered" ELSE "pods") /\ s = [f EXCEPT !.dps = dps, !.pc = pc]
  BY DEF SearchFrom
<1>2. /\ s \in Frames /\ s.pc = pc /\ s.dps = dps
      /\ s.name = f.name /\ s.resp = {} /\ s.calm = f.calm
  BY <1>1 DEF Frames
<1> HIDE DEF s
<1>3. \A p, d : Decides(s, p, d, dep) = Decides(f, p, d, dep)
  BY <1>2 DEF Decides
<1>4. CASE dps = {}
  <2>1. f.calm => AnswerRight(s, dep, alive)
    BY <1>3, <1>4 DEF AnswerRight
  <2>2. QED
    BY <1>1, <1>2, <1>4, <2>1 DEF FrameRight, Unanswered, s
<1>5. CASE dps # {}
  <2>1. f.calm => ListRight(s, dep, alive)
    BY <1>2, <1>3 DEF ListRight
  <2>2. QED
    BY <1>1, <1>2, <1>5, <2>1 DEF FrameRight, Unanswered, s
<1>6. QED
  BY <1>4, <1>5

LEMMA RightListDeployments ==
  ASSUME TypeOK, AllRight, NEW r \in Requests, ListDeployments(r)
  PROVE  AllRight'
<1> DEFINE all == {[name |-> d, policy |-> dep[d].policy] : d \in Existing}
<1>1. req[r] \in Frames /\ req[r].pc = "list" /\ req[r].resp = {}
  BY DEF ListDeployments, TypeOK, AllRight, FrameRight, Unanswered
<1>2. all \in SUBSET Items
  BY DEF Existing, Items, TypeOK, DepObjects
<1>3. \A it \in all : dep[it.name].live /\ dep[it.name].policy = it.policy
  BY DEF Existing
<1>4. ASSUME NEW d \in Deployments, NEW p \in alive, Decides(req[r], p, d, dep)
      PROVE  \E it \in all : it.name = d
  <2>1. [name |-> d, policy |-> dep[d].policy] \in all
    BY <1>4 DEF Decides, Existing
  <2>2. QED
    BY <2>1
<1>5. Step(r, SearchFrom(req[r], all)) \/ Fail(r, SearchFrom(req[r], {}))
  BY DEF ListDeployments
<1> HIDE DEF all
<1>6. SearchFrom(req[r], all) \in Frames /\ FrameRight(SearchFrom(req[r], all), dep, alive)
  BY <1>1, <1>2, <1>3, <1>4, RightSearch
<1>7. SearchFrom(req[r], {}) \in Frames /\ Unanswered(SearchFrom(req[r], {}))
  BY <1>1 DEF SearchFrom, Frames, Unanswered
<1>8. QED
  BY <1>5, <1>6, <1>7, RightCall DEF FrameRight

LEMMA RightListPods ==
  ASSUME TypeOK, AllRight, NEW r \in Requests, NEW dp \in req[r].dps, ListPods(r, dp)
  PROVE  AllRight'
<1> DEFINE rest == req[r].dps \ {dp}
           chosen(p) == [req[r] EXCEPT !.pc = "targets", !.pod = p, !.group = GroupOf(dp.policy, p)]
<1>1. /\ req[r] \in Frames /\ req[r].pc = "pods" /\ req[r].resp = {}
      /\ req[r].calm => ListRight(req[r], dep, alive)
  BY DEF ListPods, TypeOK, AllRight, FrameRight, Unanswered
<1>2. dp \in Items /\ rest \in SUBSET Items /\ dp.name \in Deployments
  BY <1>1 DEF Frames, Items
<1>3. \/ Found(r, dp.name) = {} /\ Step(r, SearchFrom(req[r], rest))
      \/ \E p \in Found(r, dp.name) :
           \/ ActionOf(dp.policy) = "quarantine" /\ Step(r, chosen(p))
           \/ ActionOf(dp.policy) # "quarantine" /\ Step(r, Answer(req[r]))
      \/ Fail(r, SearchFrom(req[r], rest))
  BY DEF ListPods
<1>4. SearchFrom(req[r], rest) \in Frames /\ Unanswered(SearchFrom(req[r], rest))
  BY <1>1, <1>2 DEF SearchFrom, Frames, Unanswered
<1>5. ASSUME Found(r, dp.name) = {}
      PROVE  FrameRight(SearchFrom(req[r], rest), dep, alive)
  <2>1. \A p \in alive : ~Decides(req[r], p, dp.name, dep)
    BY <1>5 DEF Found, Decides
  <2>2. req[r].calm => /\ \A it \in rest : dep[it.name].live /\ dep[it.name].policy = it.policy
                       /\ \A d \in Deployments, p \in alive :
                            Decides(req[r], p, d, dep) => \E it \in rest : it.name = d
    BY <1>1, <2>1 DEF ListRight
  <2> HIDE DEF rest
  <2>3. QED
    BY <1>1, <1>2, <2>2, RightSearch
<1>6. ASSUME NEW p \in Found(r, dp.name)
      PROVE  /\ p \in Pods
             /\ req[r].calm => Decides(req[r], p, dp.name, dep) /\ dep[dp.name].policy = dp.policy
  BY <1>1 DEF Found, Decides, ListRight, TypeOK
<1>7. ASSUME NEW p \in Found(r, dp.name), ActionOf(dp.policy) = "quarantine"
      PROVE  chosen(p) \in Frames /\ FrameRight(chosen(p), dep, alive)
  <2>1. GroupOf(dp.policy, p) \in SUBSET Keys
    BY <1>2, <1>6, GroupType DEF Items
  <2>2. /\ chosen(p) \in Frames /\ chosen(p).pc = "targets" /\ chosen(p).pod = p
        /\ chosen(p).group = GroupOf(dp.policy, p)
    BY <1>1, <1>6, <2>1 DEF Frames
  <2>3. /\ chosen(p).name = req[r].name /\ chosen(p).resp = req[r].resp
        /\ chosen(p).calm = req[r].calm
    BY <1>1 DEF Frames
  <2> HIDE DEF chosen
  <2>4. req[r].calm => PodRight(chosen(p), dep)
    BY <1>2, <1>6, <1>7, <2>2, <2>3 DEF PodRight, Decides
  <2>5. QED
    BY <1>1, <2>2, <2>3, <2>4 DEF FrameRight, Unanswered
<1>8. ASSUME NEW p \in Found(r, dp.name), ActionOf(dp.policy) # "quarantine"
      PROVE  Answer(req[r]) \in Frames /\ FrameRight(Answer(req[r]), dep, alive)
  <2> DEFINE a == Answer(req[r])
  <2>1. /\ a \in Frames /\ a.pc = "answered" /\ a.name = req[r].name /\ a.resp = {}
        /\ a.calm = req[r].calm
    BY <1>1 DEF Frames, Answer
  <2> HIDE DEF a
  <2>2. req[r].calm => Answers(a, p, dp.name, dep)
    BY <1>2, <1>6, <1>8, <2>1 DEF Answers, Decides
  <2>3. req[r].calm => AnswerRight(a, dep, alive)
    BY <1>2, <1>6, <2>2 DEF AnswerRight
  <2>4. QED
    BY <2>1, <2>3 DEF FrameRight, Unanswered, a
<1> HIDE DEF rest, chosen
<1>9. QED
  BY <1>3, <1>4, <1>5, <1>7, <1>8, RightCall DEF FrameRight

\* The targets are scaled down one after the other, or the answer is right.
LEMMA RightTargets ==
  ASSUME NEW f \in Frames, f.pod \in Pods, NEW targets \in SUBSET Deployments, NEW ds, NEW up,
         f.calm => /\ PodRight(f, ds)
                   /\ f.resp \cup targets = SimilarIn(f.pod, f.group, ds)
                   /\ \A d \in f.resp : ds[d].replicas = 0
  PROVE  LET t == TargetFrom(f, targets)
         IN t \in Frames /\ Unanswered(t) /\ FrameRight(t, ds, up)
<1> DEFINE t == TargetFrom(f, targets)
<1>1. PICK pc \in {"answered", "get"} :
        /\ pc = (IF targets = {} THEN "answered" ELSE "get")
        /\ t = [f EXCEPT !.targets = targets, !.target = None, !.got = None, !.pc = pc]
  BY DEF TargetFrom
<1>2. t \in Frames /\ t.pc = pc /\ t.targets = targets
  BY <1>1 DEF Frames
<1>3. /\ t.name = f.name /\ t.resp = f.resp /\ t.calm = f.calm
      /\ t.pod = f.pod /\ t.group = f.group
  BY <1>1 DEF Frames
<1> HIDE DEF t
<1>4. f.calm => PodRight(t, ds)
  BY <1>3 DEF PodRight, Decides
<1>5. f.calm => TargetsRight(t, ds)
  BY <1>2, <1>3 DEF TargetsRight
<1>6. f.calm /\ targets = {} => AnswerRight(t, ds, up)
  <2> SUFFICES ASSUME f.calm, targets = {} PROVE AnswerRight(t, ds, up)
    OBVIOUS
  <2>1. t.resp = SimilarIn(t.pod, t.group, ds)
    BY <1>3
  <2>2. \E o \in Deployments : Answers(t, t.pod, o, ds)
    BY <1>4, <2>1 DEF PodRight, Answers
  <2>3. QED
    BY <1>3, <2>2 DEF AnswerRight
<1>7. Unanswered(t) /\ FrameRight(t, ds, up)
  BY <1>1, <1>2, <1>3, <1>4, <1>5, <1>6 DEF FrameRight, Unanswered
<1>8. QED
  BY <1>2, <1>7 DEF t

LEMMA RightListTargets ==
  ASSUME TypeOK, AllRight, NEW r \in Requests, ListTargets(r)
  PROVE  AllRight'
<1> DEFINE all == {d \in Existing : SelectedBy(req[r].pod, req[r].group, d)}
<1>1. /\ req[r] \in Frames /\ req[r].pod \in Pods /\ req[r].resp = {}
      /\ req[r].calm => PodRight(req[r], dep)
  BY FramesOK DEF ListTargets, FrameOK, Frames, AllRight, FrameRight, Unanswered
<1>2. all = SimilarIn(req[r].pod, req[r].group, dep) /\ all \in SUBSET Deployments
  BY DEF Existing, SimilarIn
<1>3. Step(r, TargetFrom(req[r], all)) \/ Fail(r, TargetFrom(req[r], {}))
  BY DEF ListTargets
<1> HIDE DEF all
<1>4. TargetFrom(req[r], all) \in Frames /\ FrameRight(TargetFrom(req[r], all), dep, alive)
  BY <1>1, <1>2, RightTargets
<1>5. TargetFrom(req[r], {}) \in Frames /\ Unanswered(TargetFrom(req[r], {}))
  BY <1>1 DEF TargetFrom, Frames, Unanswered
<1>6. QED
  BY <1>3, <1>4, <1>5, RightCall DEF FrameRight

LEMMA RightGetTarget ==
  ASSUME TypeOK, AllRight, NEW r \in Requests, NEW d \in req[r].targets, GetTarget(r, d)
  PROVE  AllRight'
<1> DEFINE g(object) == [req[r] EXCEPT !.pc = "update", !.target = d, !.got = object]
<1>1. /\ req[r] \in Frames /\ d \in Deployments /\ dep[d] \in DepObjects
      /\ req[r].calm => /\ PodRight(req[r], dep) /\ TargetsRight(req[r], dep)
                        /\ \A e \in req[r].resp : dep[e].replicas = 0
  BY FramesOK DEF GetTarget, FrameOK, Frames, AllRight, FrameRight
<1>2. ASSUME NEW object \in {dep[d], None}
      PROVE  /\ g(object) \in Frames /\ g(object).pc = "update" /\ g(object).target = d
             /\ g(object).got = object
  BY <1>1 DEF Frames
<1>3. ASSUME NEW object \in {dep[d], None}
      PROVE  /\ g(object).name = req[r].name /\ g(object).resp = req[r].resp
             /\ g(object).calm = req[r].calm /\ g(object).pod = req[r].pod
             /\ g(object).group = req[r].group /\ g(object).targets = req[r].targets
  BY <1>1 DEF Frames
<1>4. \/ dep[d].live /\ Step(r, g(dep[d]))
      \/ ~dep[d].live /\ Step(r, g(None))
      \/ Fail(r, g(None))
  BY DEF GetTarget
<1>5. req[r].calm => dep[d].live
  BY <1>1 DEF TargetsRight, SimilarIn
<1>6. dep[d] # None
  BY <1>1, NoneAssumption
<1> HIDE DEF g
<1>7. ASSUME NEW object \in {dep[d], None}, object = None => ~req[r].calm
      PROVE  FrameRight(g(object), dep, alive)
  <2>1. req[r].calm => PodRight(g(object), dep) /\ TargetsRight(g(object), dep)
    BY <1>1, <1>3 DEF PodRight, Decides, TargetsRight
  <2>2. req[r].calm => GotRight(g(object), dep)
    BY <1>2, <1>6, <1>7 DEF GotRight
  <2>3. QED
    BY <1>1, <1>2, <1>3, <2>1, <2>2 DEF FrameRight, Unanswered
<1>8. \A object \in {dep[d], None} : g(object) \in Frames /\ Unanswered(g(object))
  BY <1>2 DEF Unanswered
<1>9. QED
  BY <1>4, <1>5, <1>6, <1>7, <1>8, RightCall

LEMMA RightUpdateTarget ==
  ASSUME TypeOK, GotInv, AllRight, NEW r \in Requests, UpdateTarget(r)
  PROVE  AllRight'
<1> DEFINE d == req[r].target
           f == Reported(r)
           rest == req[r].targets \ {d}
<1>1. /\ req[r] \in Frames /\ req[r].pc = "update" /\ req[r].pod \in Pods
      /\ d \in req[r].targets /\ d \in Deployments /\ dep[d] \in DepObjects
      /\ rest \in SUBSET Deployments
  <2>1. FrameOK(req[r]) /\ req[r].pc = "update"
    BY FramesOK DEF UpdateTarget
  <2>2. d \in req[r].targets /\ req[r].targets \in SUBSET Deployments /\ req[r].pod \in Pods
    BY <2>1 DEF FrameOK, Frames
  <2>3. QED
    BY <2>1, <2>2 DEF FrameOK, TypeOK
<1>2. req[r].calm => /\ PodRight(req[r], dep) /\ TargetsRight(req[r], dep) /\ GotRight(req[r], dep)
                     /\ \A e \in req[r].resp : dep[e].replicas = 0
  BY <1>1 DEF AllRight, FrameRight
<1>3. /\ f \in Frames /\ f.resp = req[r].resp \cup {d}
      /\ f.pod = req[r].pod /\ f.group = req[r].group
  BY <1>1 DEF Frames, Reported
<1>4. f.name = req[r].name /\ f.calm = req[r].calm
  BY <1>1 DEF Frames, Reported
<1>5. Report(r) = TargetFrom(f, rest)
  BY DEF Report
<1> HIDE DEF f
<1>6. ASSUME NEW ds, OnlyDown(dep, ds), req[r].calm => ds[d].replicas = 0
      PROVE  Report(r) \in Frames /\ Unanswered(Report(r)) /\ FrameRight(Report(r), ds, alive)
  <2>1. req[r].calm => PodRight(f, ds)
    <3> SUFFICES ASSUME req[r].calm PROVE PodRight(f, ds)
      OBVIOUS
    <3>1. PICK o \in Deployments :
            /\ Decides(req[r], req[r].pod, o, dep)
            /\ ActionOf(dep[o].policy) = "quarantine"
            /\ req[r].group = GroupOf(dep[o].policy, req[r].pod)
      BY <1>2 DEF PodRight
    <3>2. ds[o].live = dep[o].live /\ ds[o].policy = dep[o].policy
      BY <1>6 DEF OnlyDown
    <3>3. QED
      BY <1>3, <1>4, <3>1, <3>2 DEF PodRight, Decides
  <2>2. req[r].calm => f.resp \cup rest = SimilarIn(f.pod, f.group, ds)
    <3>1. SimilarIn(f.pod, f.group, ds) = SimilarIn(f.pod, f.group, dep)
      BY <1>6 DEF SimilarIn, OnlyDown
    <3>2. f.resp \cup rest = req[r].resp \cup req[r].targets
      BY <1>1, <1>3
    <3>3. QED
      BY <1>2, <1>3, <3>1, <3>2 DEF TargetsRight
  <2>3. req[r].calm => \A e \in f.resp : ds[e].replicas = 0
    <3>1. req[r].resp \subseteq Deployments
      BY <1>1 DEF Frames
    <3>2. QED
      BY <1>2, <1>3, <1>6, <3>1 DEF OnlyDown
  <2> HIDE DEF rest
  <2>4. QED
    BY <1>1, <1>3, <1>4, <1>5, <2>1, <2>2, <2>3, RightTargets
<1>7. ASSUME NEW frame, frame \in {Report(r), Lost(r)}, Taken(r, frame)
      PROVE  AllRight'
  <2>1. dep' = [dep EXCEPT ![d] = ScaledDown(dep[d])] /\ alive' = alive
    BY <1>7, TakenUpdate DEF Taken
  <2>2. ASSUME NEW object \in DepObjects
        PROVE  /\ ScaledDown(object).replicas = 0 /\ ScaledDown(object).live = object.live
               /\ ScaledDown(object).policy = object.policy
    BY DEF ScaledDown, DepObjects
  <2>3. dep'[d].replicas = 0 /\ OnlyDown(dep, dep')
    BY <1>1, <2>1, <2>2 DEF OnlyDown, TypeOK
  <2>4. req'[r] = frame /\ \A s \in Requests \ {r} : req'[s] = req[s]
    BY <1>7 DEF Taken, TypeOK
  <2>5. FrameRight(frame, dep', alive)
    <3>1. Report(r) \in Frames /\ Unanswered(Report(r)) /\ FrameRight(Report(r), dep', alive)
      BY <1>6, <2>3
    <3>2. Lost(r).calm = FALSE /\ Lost(r).pc = Report(r).pc /\ Lost(r).resp = Report(r).resp
      BY <3>1 DEF Lost, Frames
    <3>3. FrameRight(Lost(r), dep', alive)
      BY <3>1, <3>2 DEF FrameRight, Unanswered
    <3>4. QED
      BY <1>7, <3>1, <3>3
  <2>6. QED
    BY <2>1, <2>3, <2>4, <2>5, RightStep
<1>8. CASE ~Fresh(r) /\ Step(r, Report(r))
  <2>1. req[r].calm => dep[d].replicas = 0
    BY <1>1, <1>2, <1>8 DEF Fresh, GotRight, TargetsRight, SimilarIn
  <2>2. OnlyDown(dep, dep)
    BY DEF OnlyDown
  <2>3. Report(r) \in Frames /\ Unanswered(Report(r)) /\ FrameRight(Report(r), dep, alive)
    BY <1>6, <2>1, <2>2
  <2>4. QED
    BY <1>8, <2>3, RightCall
<1>9. CASE Fail(r, Report(r))
  <2>1. Report(r) \in Frames /\ Unanswered(Report(r))
    BY <1>1, <1>3, <1>5 DEF TargetFrom, Frames, Unanswered
  <2>2. QED
    BY <1>9, <2>1, RightCall
<1>10. QED
  BY <1>7, <1>8, <1>9 DEF UpdateTarget, Taken, Lost

LEMMA RightInit == Init => AllRight
<1>1. NewFrame.pc = "new" /\ NewFrame.resp = {}
  BY DEF NewFrame
<1>2. QED
  BY <1>1 DEF Init, AllRight, FrameRight, Unanswered

LEMMA RightNext == TypeOK /\ GotInv /\ AllRight /\ [Next]_vars => AllRight'
<1> SUFFICES ASSUME TypeOK, GotInv, AllRight, [Next]_vars PROVE AllRight'
  OBVIOUS
<1>1. CASE UNCHANGED vars
  BY <1>1 DEF vars, AllRight
<1>2. ASSUME NEW r \in Requests, Handle(r) PROVE AllRight'
  BY <1>2, RightListDeployments, RightListPods, RightListTargets, RightGetTarget,
     RightUpdateTarget DEF Handle
<1>3. QED
  BY <1>1, <1>2, RightOthers, RightAsk DEF Next

\* The strengthening that is inductive together with GotInv: what every request
\* knows is still so until somebody else writes, and whoever has written a
\* target of it since has scaled it down (endpoint.go:116-198).
THEOREM RequestsInvariant == Spec => []AllRight
BY RightInit, RightNext, ActionTyping, GotInvariant, PTL DEF Spec

\* A request that nobody else disturbs is answered with all the Deployments its
\* group label selects, and every one of them is at zero, however many requests
\* race for them (endpoint.go:116-209).
THEOREM AnswerIsDown == Spec => []AnsweredMeansDown
<1>1. TypeOK /\ AllRight => AnsweredMeansDown
  <2> SUFFICES ASSUME TypeOK, AllRight, NEW r \in Requests, req[r].pc = "answered", req[r].calm
               PROVE  /\ \A d \in req[r].resp : dep[d].replicas = 0
                      /\ \A p \in alive, d \in Deployments :
                           NameOf[p] = req[r].name /\ dep[d].live /\ p \in Selects[d] =>
                             \E q \in Pods, o \in Deployments : Done(r, q, o)
    BY DEF AnsweredMeansDown
  <2>1. (\A d \in req[r].resp : dep[d].replicas = 0) /\ AnswerRight(req[r], dep, alive)
    BY DEF AllRight, FrameRight
  <2>2. \A q, o : Answers(req[r], q, o, dep) => Done(r, q, o)
    BY DEF Answers, Decides, SimilarIn, Done, Similar
  <2>3. QED
    BY <2>1, <2>2 DEF AnswerRight, Decides
<1>2. QED
  BY <1>1, ActionTyping, RequestsInvariant, PTL

\* The answer is true as long as nobody else writes and no call of the request
\* fails, however the requests race for a Deployment: what the run "answer"
\* finds takes a failed call or another writer (endpoint.go:183-205).
THEOREM AnswerTrueWhileCalm ==
  Spec => [][\A r \in Requests : req'[r].calm => \A d \in req'[r].resp \ req[r].resp :
                dep'[d].live => dep'[d].replicas = 0]_vars
<1>1. AllRight' => [\A r \in Requests : req'[r].calm => \A d \in req'[r].resp \ req[r].resp :
                       dep'[d].live => dep'[d].replicas = 0]_vars
  BY DEF AllRight, FrameRight
<1>2. QED
  BY <1>1, RequestsInvariant, PTL

-----------------------------------------------------------------------------
(* Only what the request is about is touched. *)

\* The request of a frame has found a Pod of the name asked for and a policy
\* that quarantines.
Decided(f) ==
  /\ f.pod \in Pods /\ NameOf[f.pod] = f.name
  /\ \E o \in Deployments : f.pod \in Selects[o]
  /\ \E policy \in Policies \cup {NoPolicy} :
       ActionOf(policy) = "quarantine" /\ f.group = GroupOf(policy, f.pod)

\* What a request is going to scale down is what it may.
FrameMay(f) ==
  /\ f.pc = "targets" => Decided(f)
  /\ f.pc \notin {"get", "update"} => f.targets = {}
  /\ \A d \in f.targets : Decided(f) /\ SelectedBy(f.pod, f.group, d)

MayInv == \A r \in Requests : FrameMay(req[r])

\* A step of takeAction that adds to the answer what it may.
MayEffect(r, f) ==
  /\ f \in Frames /\ FrameMay(f)
  /\ \A d \in f.resp \ req[r].resp : d \in req[r].targets
  /\ Step(r, f) \/ Fail(r, f) \/ Taken(r, f)

LEMMA MaySelected ==
  ASSUME NEW f, NEW d, Decided(f), SelectedBy(f.pod, f.group, d)
  PROVE  MayScale(f, d)
BY QuarantineAssumption DEF Decided, SelectedBy, MayScale

\* The fields of a frame that FrameMay does not look at.
LEMMA MayCalm ==
  ASSUME NEW f \in Frames, FrameMay(f), NEW calm \in BOOLEAN
  PROVE  FrameMay([f EXCEPT !.calm = calm])
<1>1. PICK g : g = [f EXCEPT !.calm = calm]
  OBVIOUS
<1>2. g.pc = f.pc /\ g.pod = f.pod /\ g.name = f.name /\ g.group = f.group /\ g.targets = f.targets
  BY <1>1 DEF Frames
<1>3. QED
  BY <1>1, <1>2 DEF FrameMay, Decided

LEMMA MaySearch ==
  ASSUME NEW f \in Frames, f.targets = {}, NEW dps \in SUBSET Items
  PROVE  LET s == SearchFrom(f, dps)
         IN s \in Frames /\ FrameMay(s) /\ s.resp = f.resp
<1>1. PICK pc \in {"answered", "pods"} : SearchFrom(f, dps) = [f EXCEPT !.dps = dps, !.pc = pc]
  BY DEF SearchFrom
<1>2. PICK s : s = SearchFrom(f, dps)
  OBVIOUS
<1>3. s \in Frames /\ s.pc = pc /\ s.targets = {} /\ s.resp = f.resp
  BY <1>1, <1>2 DEF Frames
<1>4. QED
  BY <1>2, <1>3 DEF FrameMay

LEMMA MayTargets ==
  ASSUME NEW f \in Frames, NEW targets \in SUBSET Deployments,
         \A d \in targets : Decided(f) /\ SelectedBy(f.pod, f.group, d)
  PROVE  LET t == TargetFrom(f, targets)
         IN t \in Frames /\ FrameMay(t) /\ t.resp = f.resp
<1>1. PICK pc \in {"answered", "get"} :
        /\ pc = (IF targets = {} THEN "answered" ELSE "get")
        /\ TargetFrom(f, targets)
             = [f EXCEPT !.targets = targets, !.target = None, !.got = None, !.pc = pc]
  BY DEF TargetFrom
<1>2. PICK t : t = TargetFrom(f, targets)
  OBVIOUS
<1>3. t \in Frames /\ t.pc = pc /\ t.targets = targets /\ t.resp = f.resp
  BY <1>1, <1>2 DEF Frames
<1>4. t.pod = f.pod /\ t.name = f.name /\ t.group = f.group
  BY <1>1, <1>2 DEF Frames
<1>5. FrameMay(t)
  BY <1>1, <1>3, <1>4 DEF FrameMay, Decided
<1>6. QED
  BY <1>2, <1>3, <1>5

LEMMA MayListDeployments ==
  ASSUME TypeOK, MayInv, NEW r \in Requests, ListDeployments(r)
  PROVE  \E f : MayEffect(r, f)
<1>1. req[r] \in Frames /\ req[r].targets = {}
  BY DEF ListDeployments, TypeOK, MayInv, FrameMay
<1>2. {[name |-> d, policy |-> dep[d].policy] : d \in Existing} \in SUBSET Items
  BY DEF Existing, Items, TypeOK, DepObjects
<1>3. PICK dps \in SUBSET Items : Step(r, SearchFrom(req[r], dps)) \/ Fail(r, SearchFrom(req[r], dps))
  BY <1>2 DEF ListDeployments
<1>4. PICK s : s = SearchFrom(req[r], dps)
  OBVIOUS
<1>5. s \in Frames /\ FrameMay(s) /\ s.resp = req[r].resp
  BY <1>1, <1>4, MaySearch
<1>6. QED
  BY <1>3, <1>4, <1>5 DEF MayEffect

LEMMA MayListPods ==
  ASSUME TypeOK, MayInv, NEW r \in Requests, NEW dp \in req[r].dps, ListPods(r, dp)
  PROVE  \E f : MayEffect(r, f)
<1> DEFINE rest == req[r].dps \ {dp}
           chosen(p) == [req[r] EXCEPT !.pc = "targets", !.pod = p, !.group = GroupOf(dp.policy, p)]
<1>1. req[r] \in Frames /\ req[r].targets = {}
  BY DEF ListPods, TypeOK, MayInv, FrameMay
<1>2. dp \in Items /\ rest \in SUBSET Items
  BY <1>1 DEF Frames
<1>3. CASE Step(r, SearchFrom(req[r], rest)) \/ Fail(r, SearchFrom(req[r], rest))
  <2>1. PICK s : s = SearchFrom(req[r], rest)
    OBVIOUS
  <2>2. s \in Frames /\ FrameMay(s) /\ s.resp = req[r].resp
    BY <1>1, <1>2, <2>1, MaySearch
  <2>3. QED
    BY <1>3, <2>1, <2>2 DEF MayEffect
<1>4. CASE Step(r, Answer(req[r]))
  <2>1. PICK a : a = Answer(req[r])
    OBVIOUS
  <2>2. a \in Frames /\ a.pc = "answered" /\ a.targets = {} /\ a.resp = req[r].resp
    BY <1>1, <2>1 DEF Answer, Frames
  <2>3. QED
    BY <1>4, <2>1, <2>2 DEF MayEffect, FrameMay
<1>5. ASSUME NEW p \in Found(r, dp.name), ActionOf(dp.policy) = "quarantine", Step(r, chosen(p))
      PROVE  \E f : MayEffect(r, f)
  <2>1. PICK c : c = chosen(p)
    OBVIOUS
  <2>2. /\ p \in Pods /\ NameOf[p] = req[r].name /\ p \in Selects[dp.name]
        /\ dp.name \in Deployments /\ dp.policy \in Policies \cup {NoPolicy}
    BY <1>2 DEF Found, TypeOK, Items
  <2>3. GroupOf(dp.policy, p) \in SUBSET Keys
    BY <2>2, GroupType
  <2>4. /\ c \in Frames /\ c.pc = "targets" /\ c.targets = {} /\ c.resp = req[r].resp
    BY <1>1, <2>1, <2>2, <2>3 DEF Frames
  <2>5. c.pod = p /\ c.name = req[r].name /\ c.group = GroupOf(dp.policy, p)
    BY <1>1, <2>1 DEF Frames
  <2>6. FrameMay(c)
    BY <1>5, <2>2, <2>4, <2>5 DEF FrameMay, Decided
  <2>7. QED
    BY <1>5, <2>1, <2>4, <2>6 DEF MayEffect
<1>6. QED
  BY <1>3, <1>4, <1>5 DEF ListPods

LEMMA MayListTargets ==
  ASSUME TypeOK, MayInv, NEW r \in Requests, ListTargets(r)
  PROVE  \E f : MayEffect(r, f)
<1>1. req[r] \in Frames /\ Decided(req[r])
  BY DEF ListTargets, TypeOK, MayInv, FrameMay
<1>2. PICK targets \in SUBSET Deployments :
        /\ \A d \in targets : SelectedBy(req[r].pod, req[r].group, d)
        /\ Step(r, TargetFrom(req[r], targets)) \/ Fail(r, TargetFrom(req[r], targets))
  BY DEF ListTargets, Existing
<1>3. PICK t : t = TargetFrom(req[r], targets)
  OBVIOUS
<1>4. t \in Frames /\ FrameMay(t) /\ t.resp = req[r].resp
  BY <1>1, <1>2, <1>3, MayTargets
<1>5. QED
  BY <1>2, <1>3, <1>4 DEF MayEffect

LEMMA MayGetTarget ==
  ASSUME TypeOK, MayInv, NEW r \in Requests, NEW d \in req[r].targets, GetTarget(r, d)
  PROVE  \E f : MayEffect(r, f)
<1> DEFINE g(object) == [req[r] EXCEPT !.pc = "update", !.target = d, !.got = object]
<1>1. req[r] \in Frames /\ FrameMay(req[r]) /\ d \in Deployments /\ dep[d] \in DepObjects
  BY DEF TypeOK, MayInv, Frames
<1>2. PICK object \in {dep[d], None} : Step(r, g(object)) \/ Fail(r, g(object))
  BY DEF GetTarget
<1>3. PICK f : f = g(object)
  OBVIOUS
<1>4. f \in Frames /\ f.pc = "update" /\ f.targets = req[r].targets /\ f.resp = req[r].resp
  BY <1>1, <1>2, <1>3 DEF Frames
<1>5. f.pod = req[r].pod /\ f.name = req[r].name /\ f.group = req[r].group
  BY <1>1, <1>3 DEF Frames
<1>6. FrameMay(f)
  BY <1>1, <1>4, <1>5 DEF FrameMay, Decided
<1>7. QED
  BY <1>2, <1>3, <1>4, <1>6 DEF MayEffect

LEMMA MayUpdateTarget ==
  ASSUME TypeOK, MayInv, NEW r \in Requests, UpdateTarget(r)
  PROVE  \E f : MayEffect(r, f)
<1>1. /\ req[r] \in Frames /\ FrameMay(req[r])
      /\ req[r].target \in req[r].targets /\ req[r].targets \in SUBSET Deployments
  BY FramesOK DEF UpdateTarget, FrameOK, Frames, MayInv
<1>2. PICK f : f = Reported(r)
  OBVIOUS
<1>3. f \in Frames /\ f.resp = req[r].resp \cup {req[r].target}
  BY <1>1, <1>2 DEF Frames, Reported
<1>4. f.pod = req[r].pod /\ f.name = req[r].name /\ f.group = req[r].group
  BY <1>1, <1>2 DEF Frames, Reported
<1>5. PICK rest \in SUBSET Deployments : rest = req[r].targets \ {req[r].target}
  BY <1>1
<1>6. \A d \in rest : Decided(f) /\ SelectedBy(f.pod, f.group, d)
  BY <1>1, <1>4, <1>5 DEF FrameMay, Decided
<1>7. PICK t : t = TargetFrom(f, rest)
  OBVIOUS
<1>8. t \in Frames /\ FrameMay(t) /\ t.resp = f.resp
  BY <1>3, <1>6, <1>7, MayTargets
<1>9. t = Report(r)
  BY <1>2, <1>5, <1>7 DEF Report
<1>10. Step(r, t) \/ Fail(r, t) \/ Taken(r, t) \/ Taken(r, Lost(r))
  BY <1>9 DEF UpdateTarget, Taken, Lost
<1>11. \A d \in t.resp \ req[r].resp : d \in req[r].targets
  BY <1>1, <1>3, <1>8
<1>12. Lost(r) \in Frames /\ FrameMay(Lost(r)) /\ Lost(r).resp = t.resp
  BY <1>8, <1>9, MayCalm DEF Lost, Frames
<1>13. QED
  BY <1>8, <1>10, <1>11, <1>12 DEF MayEffect

LEMMA MayHandle ==
  ASSUME TypeOK, MayInv, NEW r \in Requests, Handle(r)
  PROVE  \E f : MayEffect(r, f)
BY MayListDeployments, MayListPods, MayListTargets, MayGetTarget, MayUpdateTarget DEF Handle

LEMMA MayOthers ==
  ASSUME TypeOK, MayInv, Others
  PROVE  MayInv' /\ \A r \in Requests : req'[r].resp = req[r].resp
<1>1. ASSUME NEW d, NEW object, Write(d, object)
      PROVE  MayInv' /\ \A r \in Requests : req'[r].resp = req[r].resp
  <2>1. ASSUME NEW r \in Requests
        PROVE  FrameMay(req'[r]) /\ req'[r].resp = req[r].resp
    <3>1. req[r] \in Frames /\ req'[r] = [req[r] EXCEPT !.calm = FALSE]
      BY <1>1 DEF Write, Disturbed, TypeOK
    <3>2. FrameMay(req'[r])
      BY <3>1, MayCalm DEF MayInv
    <3>3. QED
      BY <3>1, <3>2 DEF Frames
  <2>2. QED
    BY <2>1 DEF MayInv
<1>2. ASSUME NEW p \in Pods, EndPod(p)
      PROVE  MayInv' /\ \A r \in Requests : req'[r].resp = req[r].resp
  BY <1>2 DEF EndPod, MayInv
<1>3. QED
  BY <1>1, <1>2 DEF Others, Scale, Edit, SetPolicy, DeleteDeployment

LEMMA MayAsk ==
  ASSUME TypeOK, MayInv, NEW r \in Requests, NEW p \in Pods, Ask(r, NameOf[p])
  PROVE  MayInv' /\ \A s \in Requests : req'[s].resp = req[s].resp
<1>1. req[r] \in Frames /\ req[r].targets = {}
  BY DEF Ask, TypeOK, MayInv, FrameMay
<1>2. PICK f : f = [req[r] EXCEPT !.pc = "list", !.name = NameOf[p], !.calm = TRUE]
  OBVIOUS
<1>3. f.pc = "list" /\ f.targets = {} /\ f.resp = req[r].resp
  BY <1>1, <1>2 DEF Frames
<1>4. req' = [req EXCEPT ![r] = f]
  BY <1>2 DEF Ask, Step
<1>5. QED
  BY <1>3, <1>4 DEF TypeOK, MayInv, FrameMay

\* What a step of takeAction comes to.
LEMMA MayHandled ==
  ASSUME TypeOK, MayInv, NEW r \in Requests, Handle(r)
  PROVE  /\ MayInv'
         /\ \A s \in Requests : \A d \in req'[s].resp \ req[s].resp : MayScale(req[s], d)
         /\ \A d \in Deployments : dep'[d] # dep[d] => req[r].target = d /\ MayScale(req[r], d)
<1>1. PICK f : MayEffect(r, f)
  BY MayHandle
<1>2. /\ \A s \in Requests \ {r} : req'[s] = req[s]
      /\ req'[r] \in {f, [f EXCEPT !.calm = FALSE]}
  BY <1>1 DEF MayEffect, Step, Fail, Taken, TypeOK
<1>3. FrameMay(req'[r]) /\ req'[r].resp = f.resp
  <2>1. f \in Frames /\ FrameMay(f) /\ FrameMay([f EXCEPT !.calm = FALSE])
    BY <1>1, MayCalm DEF MayEffect
  <2>2. [f EXCEPT !.calm = FALSE].resp = f.resp
    BY <2>1 DEF Frames
  <2>3. QED
    BY <1>2, <2>1, <2>2
<1>4. \A d \in req[r].targets : MayScale(req[r], d)
  BY MaySelected DEF MayInv, FrameMay
<1>5. ASSUME NEW d \in Deployments, dep'[d] # dep[d]
      PROVE  req[r].target = d /\ d \in req[r].targets
  <2>1. Taken(r, f)
    BY <1>1, <1>5 DEF MayEffect, Step, Fail
  <2>2. req[r].target \in req[r].targets
    BY <2>1, FramesOK, TakenTarget DEF FrameOK
  <2>3. QED
    BY <1>5, <2>1, <2>2 DEF Taken, TypeOK
<1>6. MayInv'
  BY <1>2, <1>3 DEF MayInv
<1>7. ASSUME NEW s \in Requests, NEW d \in req'[s].resp \ req[s].resp
      PROVE  MayScale(req[s], d)
  BY <1>1, <1>2, <1>3, <1>4 DEF MayEffect
<1>8. QED
  BY <1>4, <1>5, <1>6, <1>7

LEMMA MayInit == Init => MayInv
<1>1. NewFrame.pc = "new" /\ NewFrame.targets = {}
  BY DEF NewFrame
<1>2. QED
  BY <1>1 DEF Init, MayInv, FrameMay

\* All that a request is going to scale down is selected by the group label of
\* the Pod it has found (endpoint.go:116-198).
LEMMA MayInvariant == Spec => []MayInv
<1>1. TypeOK /\ MayInv /\ [Next]_vars => MayInv'
  <2> SUFFICES ASSUME TypeOK, MayInv, [Next]_vars PROVE MayInv'
    OBVIOUS
  <2>1. CASE UNCHANGED vars
    BY <2>1 DEF vars, MayInv
  <2>2. QED
    BY <2>1, MayHandled, MayAsk, MayOthers DEF Next
<1>2. QED
  BY <1>1, MayInit, ActionTyping, PTL DEF Spec

\* A request scales down and reports nothing but Deployments that share the
\* labels of its Pod's group, in the Pod's namespace, and does so only on a
\* policy that quarantines, whichever calls fail and whatever others write
\* between them, for all labels and policies (endpoint.go:116-198).
THEOREM OnlySimilar == Spec => OnlySimilarTouched
<1>1. TypeOK /\ MayInv /\ [Next]_vars =>
        [/\ writes' = writes => \A d \in Deployments : dep'[d] # dep[d] =>
               \E r \in Requests : req[r].target = d /\ MayScale(req[r], d)
         /\ \A r \in Requests : \A d \in req'[r].resp \ req[r].resp : MayScale(req[r], d)]_vars
  <2> SUFFICES ASSUME TypeOK, MayInv, Next
               PROVE  /\ writes' = writes => \A d \in Deployments : dep'[d] # dep[d] =>
                           \E r \in Requests : req[r].target = d /\ MayScale(req[r], d)
                      /\ \A r \in Requests :
                           \A d \in req'[r].resp \ req[r].resp : MayScale(req[r], d)
    OBVIOUS
  <2>1. CASE \E r \in Requests : Handle(r)
    BY <2>1, MayHandled
  <2>2. CASE Others
    <3>1. writes' = writes => dep' = dep
      <4>1. ASSUME NEW d, NEW object, Write(d, object)
            PROVE  writes' # writes
        BY <4>1 DEF Write, TypeOK
      <4>2. QED
        BY <2>2, <4>1 DEF Others, Scale, Edit, SetPolicy, DeleteDeployment, EndPod
    <3>2. QED
      BY <2>2, <3>1, MayOthers
  <2>3. CASE \E r \in Requests, p \in Pods : Ask(r, NameOf[p])
    <3>1. dep' = dep
      BY <2>3 DEF Ask, Step
    <3>2. QED
      BY <2>3, <3>1, MayAsk
  <2>4. QED
    BY <2>1, <2>2, <2>3 DEF Next
<1>2. QED
  BY <1>1, MayInvariant, ActionTyping, PTL DEF Spec, OnlySimilarTouched
=============================================================================
