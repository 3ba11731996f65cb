---------------------------- MODULE WebhookProofs ----------------------------
(***************************************************************************)
(* What is proved about the admission webhook: type correctness, that the  *)
(* Pods come and go as in Cluster, that no Pod gets the sidecar without a  *)
(* reason, and that none is missed while no call fails.                    *)
(***************************************************************************)
EXTENDS Webhook, FiniteSetTheorems, TLAPS

-----------------------------------------------------------------------------
(* Type correctness. *)

\* What TypeOK says of one admission.
AdmissionOK(f) ==
  /\ f \in Frames
  /\ f.pc # "unborn" => f.of \in Deployments /\ f.template \in Templates
  /\ f.pc = "deployments" => f.siblings # {}
  /\ f.pc = "pods" => f.dps # {} /\ f.sibling \in Pods

\* An admission that has begun and has not ended.
UnderWay(f) == AdmissionOK(f) /\ f.pc \notin {"unborn", "stored"}

LEMMA UnbornType == AdmissionOK(Unborn)
BY DEF AdmissionOK, Unborn, Frames

LEMMA UnseenType == Unseen \in Views
BY DEF Unseen, Views

\* TypeOK, admission by admission.
LEMMA TypeParts ==
  TypeOK <=> /\ ClusterTypeOK
             /\ template \in [Deployments -> Templates]
             /\ adm \in [Pods -> Frames]
             /\ \A p \in Pods : AdmissionOK(adm[p])
             /\ view \in [Pods -> Views]
             /\ faults \in Nat
             /\ \A p \in Pods : adm[p].pc = "stored" <=> pod[p].phase # "unborn"
BY DEF TypeOK, AdmissionOK

\* The admission goes on from frame f to frame g: that of the same Pod.
Continues(f, g) == UnderWay(g) /\ g.of = f.of /\ g.template = f.template

LEMMA NextSiblingType ==
  ASSUME NEW f \in Frames, f.of \in Deployments, f.template \in Templates
  PROVE  Continues(f, NextSibling(f))
BY DEF NextSibling, Continues, UnderWay, AdmissionOK, Frames

LEMMA NextDeploymentType ==
  ASSUME NEW f \in Frames, f.of \in Deployments, f.template \in Templates, f.sibling \in Pods
  PROVE  Continues(f, NextDeployment(f))
<1>1. CASE f.dps = {}
  BY <1>1, NextSiblingType DEF NextDeployment
<1>2. CASE f.dps # {}
  BY <1>2 DEF NextDeployment, Continues, UnderWay, AdmissionOK, Frames
<1>3. QED
  BY <1>1, <1>2

\* The history has its type whatever happens.
LEMMA ViewTypes ==
  ASSUME view \in [Pods -> Views],
         view' = [p \in Pods |-> IF p \in Pending' THEN Seen(p) ELSE Unseen]
  PROVE  view' \in [Pods -> Views]
<1>1. \A p \in Pods : Seen(p) \in Views
  BY DEF Seen, Views
<1>2. QED
  BY <1>1, UnseenType

\* One admission goes on, and nothing else happens.
Within(p) ==
  /\ p \in Pending
  /\ \E f : Continues(adm[p], f) /\ adm' = [adm EXCEPT ![p] = f]
  /\ UNCHANGED <<clusterVars, template>>
  /\ faults' \in Nat

LEMMA StepWithin ==
  ASSUME TypeOK, NEW p \in Pending, NEW f, Continues(adm[p], f), Step(p, f) \/ Fail(p, f)
  PROVE  Within(p)
<1> DEFINE g == [f EXCEPT !.calm = FALSE]
<1>1. Continues(adm[p], g)
  BY DEF Continues, UnderWay, AdmissionOK, Frames
<1>2. CASE Step(p, f)
  BY <1>2 DEF Step, Within, TypeOK
<1>3. CASE Fail(p, f)
  <2>1. adm' = [adm EXCEPT ![p] = g] /\ UNCHANGED <<clusterVars, template>> /\ faults' \in Nat
    BY <1>3 DEF Fail, TypeOK
  <2> HIDE DEF g
  <2>2. QED
    BY <1>1, <2>1 DEF Within
<1>4. QED
  BY <1>2, <1>3

\* A frame that is under way takes the place of another one or begins.
LEMMA FrameTypes ==
  ASSUME TypeOK, NEW p \in Pods, NEW f, UnderWay(f), adm[p].pc # "stored",
         adm' = [adm EXCEPT ![p] = f], UNCHANGED <<clusterVars, template>>,
         faults' \in Nat, view' \in [Pods -> Views]
  PROVE  TypeOK'
<1>1. /\ ClusterTypeOK'
      /\ template' \in [Deployments -> Templates]
  BY DEF TypeOK, ClusterTypeOK, clusterVars
<1>2. /\ adm' \in [Pods -> Frames]
      /\ \A q \in Pods : AdmissionOK(adm'[q])
  BY TypeParts DEF UnderWay, AdmissionOK
<1>3. \A q \in Pods : adm'[q].pc = "stored" <=> pod'[q].phase # "unborn"
  BY TypeParts DEF UnderWay, clusterVars
<1>4. QED
  BY <1>1, <1>2, <1>3 DEF TypeOK, AdmissionOK

LEMMA WithinTypes ==
  ASSUME TypeOK, NEW p \in Pods, Within(p), view' \in [Pods -> Views]
  PROVE  TypeOK'
<1>1. PICK f : UnderWay(f) /\ adm' = [adm EXCEPT ![p] = f]
  BY DEF Within, Continues
<1>2. QED
  BY <1>1, FrameTypes DEF Within, Pending

LEMMA AdmitTypes ==
  ASSUME TypeOK, NEW p \in Pods, NEW d \in Deployments, Admit(p, d), view' \in [Pods -> Views]
  PROVE  TypeOK'
<1>1. template[d] \in Templates
  BY DEF TypeOK
<1>2. adm[p].pc # "stored"
  BY DEF Admit
<1> DEFINE f == [Unborn EXCEPT !.pc = IF NsOf[d] \in Ignored THEN "answer" ELSE "siblings",
                               !.of = d, !.template = template[d],
                               !.required = NsOf[d] \notin Ignored /\ template[d] \in Asking]
<1>3. UnderWay(f)
  BY <1>1 DEF UnderWay, AdmissionOK, Frames, Unborn
<1>4. faults' \in Nat
  BY DEF Admit, Step, TypeOK
<1>5. QED
  BY <1>2, <1>3, <1>4, FrameTypes DEF Admit, Step

\* What the lists contain.
LEMMA ListTypes ==
  ASSUME TypeOK, NEW p \in Pods
  PROVE  /\ Siblings(p) \in SUBSET Pods
         /\ Annotated(NsOf[adm[p].of]) \in SUBSET Deployments
         /\ \A d : Selected(d) \in SUBSET Pods
BY DEF Siblings, Selected, Stored, Annotated, TypeOK, ClusterTypeOK

LEMMA ListSiblingsWithin ==
  ASSUME TypeOK, NEW p \in Pods, ListSiblings(p)
  PROVE  Within(p)
<1> DEFINE f(found) == [adm[p] EXCEPT !.siblings = found,
                                      !.pc = IF found = {} THEN "answer" ELSE "deployments"]
<1>1. AdmissionOK(adm[p]) /\ adm[p].pc = "siblings" /\ p \in Pending
  BY TypeParts DEF ListSiblings, Pending
<1>2. ASSUME NEW found \in SUBSET Pods
      PROVE  Continues(adm[p], f(found))
  BY <1>1 DEF Continues, UnderWay, AdmissionOK, Frames
<1>3. Step(p, f(Siblings(p))) \/ Fail(p, f({}))
  BY DEF ListSiblings
<1>4. Continues(adm[p], f(Siblings(p))) /\ Continues(adm[p], f({}))
  BY <1>2, ListTypes
<1> HIDE DEF f
<1>5. QED
  BY <1>1, <1>3, <1>4, StepWithin

LEMMA ListDeploymentsWithin ==
  ASSUME TypeOK, NEW p \in Pods, NEW q \in adm[p].siblings, ListDeployments(p, q)
  PROVE  Within(p)
<1> DEFINE f == [adm[p] EXCEPT !.sibling = q, !.siblings = @ \ {q},
                               !.dps = Annotated(NsOf[adm[p].of])]
           g == [adm[p] EXCEPT !.pc = "answer"]
<1>1. AdmissionOK(adm[p]) /\ adm[p].pc = "deployments" /\ p \in Pending
  BY TypeParts DEF ListDeployments, Pending
<1>2. q \in Pods
  BY <1>1 DEF AdmissionOK, Frames
<1>3. /\ f \in Frames /\ f.sibling \in Pods
      /\ f.of \in Deployments /\ f.template \in Templates
      /\ f.of = adm[p].of /\ f.template = adm[p].template
  BY <1>1, <1>2, ListTypes DEF AdmissionOK, Frames
<1>4. Continues(adm[p], g)
  BY <1>1 DEF Continues, UnderWay, AdmissionOK, Frames
<1>5. Step(p, NextDeployment(f)) \/ Fail(p, g)
  BY DEF ListDeployments
<1> HIDE DEF f, g
<1>6. Continues(adm[p], NextDeployment(f))
  BY <1>3, NextDeploymentType DEF Continues
<1>7. QED
  BY <1>1, <1>4, <1>5, <1>6, StepWithin

LEMMA AfterPodsType ==
  ASSUME TypeOK, NEW p \in Pods, adm[p].pc = "pods", NEW d \in Deployments, NEW found \in BOOLEAN
  PROVE  Continues(adm[p], AfterPods(p, d, found))
<1> DEFINE f == [adm[p] EXCEPT !.required = TRUE]
           g == [adm[p] EXCEPT !.dps = @ \ {d}]
<1>1. AdmissionOK(adm[p]) /\ adm[p].sibling \in Pods
  BY TypeParts DEF AdmissionOK
<1>2. /\ f \in Frames /\ f.of \in Deployments /\ f.template \in Templates
      /\ f.of = adm[p].of /\ f.template = adm[p].template
      /\ g \in Frames /\ g.of \in Deployments /\ g.template \in Templates
      /\ g.of = adm[p].of /\ g.template = adm[p].template /\ g.sibling \in Pods
  BY <1>1 DEF AdmissionOK, Frames
<1>3. AfterPods(p, d, found) = NextSibling(f) \/ AfterPods(p, d, found) = NextDeployment(g)
  BY DEF AfterPods
<1> HIDE DEF f, g
<1>4. QED
  BY <1>2, <1>3, NextSiblingType, NextDeploymentType DEF Continues

LEMMA ListPodsWithin ==
  ASSUME TypeOK, NEW p \in Pods, NEW d \in adm[p].dps, ListPods(p, d)
  PROVE  Within(p)
<1> DEFINE g == [adm[p] EXCEPT !.dps = @ \ {d}]
<1>1. AdmissionOK(adm[p]) /\ adm[p].pc = "pods" /\ p \in Pending
  BY TypeParts DEF ListPods, Pending
<1>2. d \in Deployments /\ Qualifies(p, d) \in BOOLEAN
  BY <1>1 DEF AdmissionOK, Frames, Qualifies
<1>3. /\ g \in Frames /\ g.sibling \in Pods
      /\ g.of \in Deployments /\ g.template \in Templates
      /\ g.of = adm[p].of /\ g.template = adm[p].template
  BY <1>1 DEF AdmissionOK, Frames
<1>4. Step(p, AfterPods(p, d, Qualifies(p, d))) \/ Fail(p, NextDeployment(g))
  BY DEF ListPods
<1> HIDE DEF g
<1>5. /\ Continues(adm[p], AfterPods(p, d, Qualifies(p, d)))
      /\ Continues(adm[p], NextDeployment(g))
  BY <1>1, <1>2, <1>3, AfterPodsType, NextDeploymentType DEF Continues
<1>6. QED
  BY <1>1, <1>4, <1>5, StepWithin

\* The calls of mutationRequired change nothing but the frame.
Calls(p) ==
  \/ ListSiblings(p)
  \/ \E q \in adm[p].siblings : ListDeployments(p, q)
  \/ \E d \in adm[p].dps : ListPods(p, d)

LEMMA CallsWithin ==
  ASSUME TypeOK, NEW p \in Pods, Calls(p)
  PROVE  Within(p)
BY ListSiblingsWithin, ListDeploymentsWithin, ListPodsWithin DEF Calls

\* The Pod of an admission is stored, with the sidecar or without.
LEMMA StoreTypes ==
  ASSUME TypeOK, NEW p \in Pods, UnderWay(adm[p]), NEW injected \in BOOLEAN, Store(p, injected),
         faults' \in Nat, view' \in [Pods -> Views]
  PROVE  TypeOK'
<1> DEFINE f == [Unborn EXCEPT !.pc = "stored", !.of = adm[p].of, !.template = adm[p].template]
           new == [phase |-> "running", of |-> adm[p].of,
                   injected |-> injected, covered |-> HasPolicy(adm[p].of)]
<1>1. adm[p].of \in Deployments /\ adm[p].template \in Templates
  BY DEF UnderWay, AdmissionOK
<1>2. new \in PodStates
  BY <1>1 DEF PodStates, Phases, HasPolicy
<1>3. pod' = [pod EXCEPT ![p] = new] /\ pod \in [Pods -> PodStates]
  BY DEF Store, TypeOK, ClusterTypeOK
<1>4. ClusterTypeOK'
  BY <1>1, <1>2, <1>3 DEF Store, TypeOK, ClusterTypeOK
<1>5. AdmissionOK(f) /\ f.pc = "stored"
  BY <1>1 DEF AdmissionOK, Frames, Unborn
<1>6. adm' = [adm EXCEPT ![p] = f]
  BY DEF Store
<1>7. /\ adm' \in [Pods -> Frames]
      /\ \A q \in Pods : AdmissionOK(adm'[q])
  BY <1>5, <1>6, TypeParts DEF AdmissionOK
<1>8. \A q \in Pods : adm'[q].pc = "stored" <=> pod'[q].phase # "unborn"
  BY <1>3, <1>5, <1>6, TypeParts
<1>9. template' \in [Deployments -> Templates]
  BY DEF Store, TypeOK
<1>10. QED
  BY <1>4, <1>7, <1>8, <1>9 DEF TypeOK, AdmissionOK

LEMMA AnswerTypes ==
  ASSUME TypeOK, NEW p \in Pods, Answer(p), view' \in [Pods -> Views]
  PROVE  TypeOK'
<1>1. UnderWay(adm[p]) /\ adm[p].required \in BOOLEAN
  BY TypeParts DEF Answer, UnderWay, AdmissionOK, Frames
<1>2. faults' \in Nat
  BY DEF Answer, TypeOK
<1>3. QED
  BY <1>1, <1>2, StoreTypes DEF Answer

LEMMA TimeOutTypes ==
  ASSUME TypeOK, NEW p \in Pods, TimeOut(p), view' \in [Pods -> Views]
  PROVE  TypeOK'
<1>1. UnderWay(adm[p])
  BY TypeParts DEF TimeOut, UnderWay, Pending
<1>2. faults' \in Nat
  BY DEF TimeOut, TypeOK
<1>3. QED
  BY <1>1, <1>2, StoreTypes DEF TimeOut

LEMMA OthersTypes ==
  ASSUME TypeOK, Others, view' \in [Pods -> Views]
  PROVE  TypeOK'
<1>1. adm' = adm /\ faults' = faults
  BY DEF Others, PutPolicy, TakePolicy, Rollout
<1>2. /\ deps' = deps /\ ann' \in [Deployments -> Annotations]
      /\ template' \in [Deployments -> Templates]
  <2>1. ASSUME NEW d \in Deployments, PutPolicy(d) \/ TakePolicy(d)
        PROVE  /\ deps' = deps /\ ann' \in [Deployments -> Annotations]
               /\ template' = template
    <3>1. /\ deps' = deps /\ template' = template
          /\ \E v \in Policies \cup {None} : ann' = [ann EXCEPT ![d].policy = v]
      BY <2>1 DEF PutPolicy, TakePolicy
    <3>2. ann \in [Deployments -> Annotations]
      BY DEF TypeOK, ClusterTypeOK
    <3>3. \A v \in Policies \cup {None} : [ann[d] EXCEPT !.policy = v] \in Annotations
      BY <3>2 DEF Annotations
    <3>4. QED
      BY <3>1, <3>2, <3>3
  <2>2. ASSUME NEW d \in Deployments, Rollout(d)
        PROVE  /\ deps' = deps /\ ann' = ann
               /\ template' \in [Deployments -> Templates]
    BY <2>2, WebhookAssumption DEF Rollout, TypeOK, clusterVars
  <2>3. ASSUME NEW p \in Pods, EvictPod(p) \/ RemovePod(p), UNCHANGED <<template, adm, faults>>
        PROVE  deps' = deps /\ ann' = ann /\ template' = template
    BY <2>3 DEF EvictPod, RemovePod
  <2>4. QED
    BY <2>1, <2>2, <2>3 DEF Others, TypeOK, ClusterTypeOK
<1>3. /\ pod' \in [Pods -> PodStates]
      /\ \A q \in Pods : /\ pod'[q].phase # "unborn" <=> pod[q].phase # "unborn"
                         /\ pod'[q].of = pod[q].of
                         /\ pod'[q].phase = "running" => pod[q].phase = "running"
  <2>1. ASSUME NEW d \in Deployments, PutPolicy(d) \/ TakePolicy(d) \/ Rollout(d)
        PROVE  pod' = pod
    BY <2>1 DEF PutPolicy, TakePolicy, Rollout, clusterVars
  <2>2. ASSUME NEW p \in Pods, EvictPod(p) \/ RemovePod(p)
        PROVE  /\ pod' \in [Pods -> PodStates]
               /\ \A q \in Pods : /\ pod'[q].phase # "unborn" <=> pod[q].phase # "unborn"
                                  /\ pod'[q].of = pod[q].of
                                  /\ pod'[q].phase = "running" => pod[q].phase = "running"
    <3>1. PICK phase \in {"terminating", "gone"} : pod' = [pod EXCEPT ![p].phase = phase]
      BY <2>2 DEF EvictPod, RemovePod
    <3>2. pod[p].phase # "unborn" /\ pod \in [Pods -> PodStates]
      BY <2>2 DEF EvictPod, RemovePod, TypeOK, ClusterTypeOK
    <3>3. [pod[p] EXCEPT !.phase = phase] \in PodStates
      BY <3>2 DEF PodStates, Phases
    <3>4. QED
      BY <3>1, <3>2, <3>3 DEF PodStates
  <2>3. QED
    BY <2>1, <2>2 DEF Others, TypeOK, ClusterTypeOK
<1>4. ClusterTypeOK'
  BY <1>2, <1>3 DEF TypeOK, ClusterTypeOK
<1>5. QED
  BY <1>1, <1>2, <1>3, <1>4 DEF TypeOK

LEMMA HandleTypes ==
  ASSUME TypeOK, NEW p \in Pods, Handle(p), view' \in [Pods -> Views]
  PROVE  TypeOK'
BY AdmitTypes, CallsWithin, WithinTypes, AnswerTypes, TimeOutTypes DEF Handle, Calls

LEMMA TypeInit == Init => TypeOK
<1> SUFFICES ASSUME Init PROVE TypeOK
  OBVIOUS
<1>1. ClusterTypeOK
  BY ClusterAssumption DEF Init, ClusterInit, ClusterTypeOK, Annotations, NoAnnotations,
     PodStates, UnbornPod, Phases
<1>2. \A p \in Pods : adm[p].pc = "unborn" /\ pod[p].phase = "unborn"
  BY DEF Init, ClusterInit, Unborn, UnbornPod
<1>3. QED
  BY <1>1, <1>2, UnbornType, UnseenType, TypeParts DEF Init, AdmissionOK

LEMMA TypeStep == TypeOK /\ [Next]_vars => TypeOK'
<1> SUFFICES ASSUME TypeOK, [Next]_vars PROVE TypeOK'
  OBVIOUS
<1>1. CASE UNCHANGED vars
  BY <1>1 DEF vars, clusterVars, TypeOK, ClusterTypeOK
<1>2. CASE Next
  BY <1>2, ViewTypes, HandleTypes, OthersTypes DEF Next, TypeOK
<1>3. QED
  BY <1>1, <1>2

\* The variables have their types, exactly the Pods that went through
\* admission are stored, and a handler in one of its loops always has something
\* left to look at, for all Deployments, templates and labels
\* (webhook.go:106-231).
THEOREM AdmissionTyping == Spec => []TypeOK
BY TypeInit, TypeStep, PTL DEF Spec

-----------------------------------------------------------------------------
(* The Pods of this module are created as Cluster has it. *)

WithinReplicas ==
  \A d \in Deployments : Cardinality(Running(d)) + Cardinality(PendingOf(d)) <= Replicas

LEMMA Finite ==
  /\ \A d : /\ IsFiniteSet(Running(d)) /\ Cardinality(Running(d)) \in Nat
            /\ IsFiniteSet(PendingOf(d)) /\ Cardinality(PendingOf(d)) \in Nat
  /\ \A d : /\ IsFiniteSet(Running(d)') /\ Cardinality(Running(d)') \in Nat
            /\ IsFiniteSet(PendingOf(d)') /\ Cardinality(PendingOf(d)') \in Nat
<1>1. \A d : /\ Running(d) \subseteq Pods /\ PendingOf(d) \subseteq Pods
             /\ Running(d)' \subseteq Pods /\ PendingOf(d)' \subseteq Pods
  BY DEF Running, PodsOf, PendingOf, Pending
<1>2. \A S \in SUBSET Pods : IsFiniteSet(S) /\ Cardinality(S) \in Nat
  BY WebhookAssumption, FS_Subset, FS_CardinalityType
<1>3. QED
  BY <1>1, <1>2

\* Fewer Pods than before fit as well.
LEMMA FewerPods ==
  ASSUME WithinReplicas,
         \A d \in Deployments : Running(d)' \subseteq Running(d) /\ PendingOf(d)' \subseteq PendingOf(d)
  PROVE  WithinReplicas'
<1> SUFFICES ASSUME NEW d \in Deployments
             PROVE  Cardinality(Running(d)') + Cardinality(PendingOf(d)') <= Replicas
  BY DEF WithinReplicas
<1>1. /\ Cardinality(Running(d)') <= Cardinality(Running(d))
      /\ Cardinality(PendingOf(d)') <= Cardinality(PendingOf(d))
  BY Finite, FS_Subset
<1>2. QED
  BY <1>1, Finite, ClusterAssumption DEF WithinReplicas

\* The calls of mutationRequired change neither the Pods nor who is waiting.
LEMMA SamePending ==
  ASSUME TypeOK, NEW p \in Pods, Within(p)
  PROVE  \A d : Running(d)' = Running(d) /\ PendingOf(d)' = PendingOf(d)
<1>1. Pending' = Pending /\ \A q \in Pending : adm'[q].of = adm[q].of
  BY TypeParts DEF Within, Continues, Pending, UnderWay
<1>2. \A d : PendingOf(d)' = PendingOf(d)
  BY <1>1 DEF PendingOf
<1>3. QED
  BY <1>2 DEF Running, PodsOf, Within, clusterVars

\* A Pod that waits for admission fits in already.
LEMMA StoreFits ==
  ASSUME TypeOK, WithinReplicas, NEW p \in Pending, NEW injected \in BOOLEAN, Store(p, injected)
  PROVE  WithinReplicas' /\ Cardinality(Running(adm[p].of)) < Replicas
<1>0. PICK d \in Deployments : d = adm[p].of
  BY TypeParts DEF Pending, AdmissionOK
<1>1. /\ p \in Pods /\ pod[p].phase = "unborn"
      /\ adm \in [Pods -> Frames] /\ pod \in [Pods -> PodStates]
  BY TypeParts DEF Pending, AdmissionOK, ClusterTypeOK
<1>2. /\ \A q \in Pods \ {p} : pod'[q] = pod[q]
      /\ pod'[p].phase = "running" /\ pod'[p].of = d
  BY <1>0, <1>1 DEF Store
<1>3. /\ \A q \in Pods \ {p} : adm'[q] = adm[q]
      /\ adm'[p].pc = "stored"
  BY <1>1 DEF Store, Unborn
<1>4. /\ Running(d)' = Running(d) \cup {p} /\ p \notin Running(d)
      /\ \A e \in Deployments \ {d} : Running(e)' = Running(e)
  BY <1>1, <1>2 DEF Running, PodsOf
<1>5. Pending' = Pending \ {p}
  BY <1>1, <1>3 DEF Pending
<1>6. /\ PendingOf(d)' = PendingOf(d) \ {p} /\ p \in PendingOf(d)
      /\ \A e \in Deployments \ {d} : PendingOf(e)' = PendingOf(e)
  BY <1>0, <1>1, <1>3, <1>5 DEF PendingOf, Pending
<1>7. Cardinality(Running(d)') = Cardinality(Running(d)) + 1
  <2>1. Cardinality(Running(d) \cup {p}) = Cardinality(Running(d)) + 1
    BY <1>4, Finite, FS_AddElement
  <2>2. QED
    BY <1>4, <2>1
<1>8. Cardinality(PendingOf(d)') = Cardinality(PendingOf(d)) - 1
  <2>1. Cardinality(PendingOf(d) \ {p}) = Cardinality(PendingOf(d)) - 1
    BY <1>6, Finite, FS_RemoveElement
  <2>2. QED
    BY <1>6, <2>1
<1>9. Cardinality(PendingOf(d)) > 0
  BY <1>6, Finite, FS_EmptySet
<1>10. Cardinality(Running(d)) + Cardinality(PendingOf(d)) <= Replicas
  BY DEF WithinReplicas
<1>11. Cardinality(Running(d)) < Replicas
  BY <1>9, <1>10, Finite, ClusterAssumption
<1>12. ASSUME NEW e \in Deployments
       PROVE  Cardinality(Running(e)') + Cardinality(PendingOf(e)') <= Replicas
  <2>1. CASE e = d
    BY <2>1, <1>7, <1>8, <1>10, Finite, ClusterAssumption
  <2>2. CASE e # d
    BY <2>2, <1>4, <1>6 DEF WithinReplicas
  <2>3. QED
    BY <2>1, <2>2
<1>13. QED
  BY <1>0, <1>11, <1>12 DEF WithinReplicas

\* The first frame of an admission.
LEMMA Admitted ==
  ASSUME NEW p \in Pods, NEW d \in Deployments, Admit(p, d)
  PROVE  \E f : f.pc \in {"answer", "siblings"} /\ f.of = d /\ adm' = [adm EXCEPT ![p] = f]
<1> DEFINE f == [Unborn EXCEPT !.pc = IF NsOf[d] \in Ignored THEN "answer" ELSE "siblings",
                               !.of = d, !.template = template[d],
                               !.required = NsOf[d] \notin Ignored /\ template[d] \in Asking]
<1>1. adm' = [adm EXCEPT ![p] = f]
  BY DEF Admit, Step
<1>2. f.pc \in {"answer", "siblings"} /\ f.of = d
  BY DEF Unborn
<1> HIDE DEF f
<1>3. QED
  BY <1>1, <1>2

\* A Pod is admitted only if it fits.
LEMMA AdmitFits ==
  ASSUME TypeOK, WithinReplicas, NEW p \in Pods, NEW d \in Deployments, Admit(p, d)
  PROVE  WithinReplicas'
<1>1. /\ p \notin Pending /\ adm \in [Pods -> Frames] /\ UNCHANGED <<clusterVars>>
  BY DEF TypeOK, Admit, Pending, Step
<1>2. PICK f : f.pc \in {"answer", "siblings"} /\ f.of = d /\ adm' = [adm EXCEPT ![p] = f]
  BY Admitted
<1>3. Pending' = Pending \cup {p}
  BY <1>1, <1>2 DEF Pending
<1>4. /\ PendingOf(d)' = PendingOf(d) \cup {p} /\ p \notin PendingOf(d)
      /\ \A e \in Deployments \ {d} : PendingOf(e)' = PendingOf(e)
  BY <1>1, <1>2, <1>3 DEF PendingOf
<1>5. \A e : Running(e)' = Running(e)
  BY <1>1 DEF Running, PodsOf, clusterVars
<1>6. Cardinality(PendingOf(d)') = Cardinality(PendingOf(d)) + 1
  <2>1. Cardinality(PendingOf(d) \cup {p}) = Cardinality(PendingOf(d)) + 1
    BY <1>4, Finite, FS_AddElement
  <2>2. QED
    BY <1>4, <2>1
<1>7. Cardinality(Running(d)) + Cardinality(PendingOf(d)) < Replicas
  BY DEF Admit
<1>8. ASSUME NEW e \in Deployments
      PROVE  Cardinality(Running(e)') + Cardinality(PendingOf(e)') <= Replicas
  <2>1. CASE e = d
    BY <2>1, <1>5, <1>6, <1>7, Finite, ClusterAssumption
  <2>2. CASE e # d
    BY <2>2, <1>4, <1>5 DEF WithinReplicas
  <2>3. QED
    BY <2>1, <2>2
<1>9. QED
  BY <1>8 DEF WithinReplicas

\* A Pod that waits for admission is one of a Deployment that exists, and the
\* Deployment still has room for it.
PodsInv ==
  /\ WithinReplicas
  /\ \A p \in Pending : adm[p].of \in deps

\* What the controller does to a Deployment.
PolicyWritten ==
  \E d \in Deployments : /\ ann' = [ann EXCEPT ![d].policy = ann'[d].policy]
                         /\ UNCHANGED <<deps, pod>>

ClusterStep == [ClusterNext \/ PolicyWritten]_clusterVars

LEMMA OthersInCluster ==
  ASSUME TypeOK, PodsInv, Others
  PROVE  PodsInv' /\ ClusterStep
<1>1. adm' = adm /\ deps' = deps
  BY DEF Others, PutPolicy, TakePolicy, Rollout, EvictPod, RemovePod, clusterVars
<1>2. Pending' = Pending
  BY <1>1 DEF Pending
<1>3. \A d \in Deployments : Running(d)' \subseteq Running(d)
  <2>1. CASE pod' = pod
    BY <2>1 DEF Running, PodsOf
  <2>2. ASSUME NEW p \in Pods, EvictPod(p) \/ RemovePod(p)
        PROVE  \A d \in Deployments : Running(d)' \subseteq Running(d)
    <3>1. PICK phase \in {"terminating", "gone"} : pod' = [pod EXCEPT ![p].phase = phase]
      BY <2>2 DEF EvictPod, RemovePod
    <3>2. \A q \in Pods : pod'[q].of = pod[q].of /\ (pod'[q].phase = "running" => pod[q].phase = "running")
      BY <3>1 DEF TypeOK, ClusterTypeOK, PodStates
    <3>3. QED
      BY <3>2 DEF Running, PodsOf
  <2>3. QED
    BY <2>1, <2>2 DEF Others, PutPolicy, TakePolicy, Rollout, clusterVars
<1>4. \A d \in Deployments : PendingOf(d)' = PendingOf(d)
  BY <1>1, <1>2 DEF PendingOf
<1>5. PodsInv'
  BY <1>1, <1>2, <1>3, <1>4, FewerPods DEF PodsInv
<1>6. ClusterStep
  <2>1. ASSUME NEW d \in Deployments, PutPolicy(d) \/ TakePolicy(d)
        PROVE  PolicyWritten
    <3>1. PICK policy : ann' = [ann EXCEPT ![d].policy = policy] /\ UNCHANGED <<deps, pod>>
      BY <2>1 DEF PutPolicy, TakePolicy
    <3>2. ann'[d].policy = policy
      BY <3>1 DEF TypeOK, ClusterTypeOK, Annotations
    <3>3. QED
      BY <3>1, <3>2 DEF PolicyWritten
  <2>2. ASSUME NEW d \in Deployments, Rollout(d)
        PROVE  UNCHANGED clusterVars
    BY <2>2 DEF Rollout
  <2>3. ASSUME NEW p \in Pods, EvictPod(p) \/ RemovePod(p)
        PROVE  ClusterNext
    BY <2>3 DEF ClusterNext
  <2>4. QED
    BY <2>1, <2>2, <2>3 DEF Others, ClusterStep
<1>7. QED
  BY <1>5, <1>6

LEMMA StoreInCluster ==
  ASSUME TypeOK, PodsInv, NEW p \in Pending, NEW injected \in BOOLEAN, Store(p, injected)
  PROVE  PodsInv' /\ ClusterStep
<1>1. /\ p \in Pods /\ pod[p].phase = "unborn" /\ adm \in [Pods -> Frames]
      /\ adm[p].of \in Deployments
  BY TypeParts DEF Pending, AdmissionOK
<1>2. Pending' \subseteq Pending /\ \A q \in Pending' : adm'[q].of = adm[q].of
  BY <1>1 DEF Store, Pending, Unborn
<1>3. WithinReplicas' /\ Cardinality(Running(adm[p].of)) < Replicas
  BY StoreFits DEF PodsInv
<1>4. PodsInv'
  BY <1>2, <1>3 DEF PodsInv, Store
<1>5. CreatePod(p, adm[p].of)
  BY <1>1, <1>3 DEF CreatePod, Store, PodsInv
<1>6. QED
  BY <1>1, <1>4, <1>5 DEF ClusterStep, ClusterNext

LEMMA AdmitInCluster ==
  ASSUME TypeOK, PodsInv, NEW p \in Pods, NEW d \in Deployments, Admit(p, d)
  PROVE  PodsInv' /\ ClusterStep
<1>1. WithinReplicas'
  BY AdmitFits DEF PodsInv
<1>2. PICK f : f.of = d /\ adm' = [adm EXCEPT ![p] = f]
  BY Admitted
<1>3. \A q \in Pending' : q \in Pending \/ q = p
  BY <1>2 DEF Pending, TypeOK
<1>4. \A q \in Pending' : adm'[q].of \in deps'
  BY <1>2, <1>3 DEF PodsInv, Admit, Step, clusterVars, TypeOK, Pending
<1>5. QED
  BY <1>1, <1>4 DEF PodsInv, ClusterStep, Admit, Step

LEMMA CallsInCluster ==
  ASSUME TypeOK, PodsInv, NEW p \in Pods, Calls(p)
  PROVE  PodsInv' /\ ClusterStep
<1>1. Within(p)
  BY CallsWithin
<1>2. WithinReplicas'
  BY <1>1, SamePending, FewerPods DEF PodsInv
<1>3. Pending' = Pending /\ \A q \in Pending : adm'[q].of = adm[q].of
  BY <1>1, TypeParts DEF Within, Continues, Pending, UnderWay
<1>4. QED
  BY <1>1, <1>2, <1>3 DEF PodsInv, ClusterStep, Within, clusterVars

LEMMA PodsInit == Init => PodsInv
<1> SUFFICES ASSUME Init PROVE PodsInv
  OBVIOUS
<1>1. Pending = {} /\ \A d : Running(d) = {}
  BY DEF Init, ClusterInit, Unborn, UnbornPod, Pending, Running, PodsOf
<1>2. \A d : PendingOf(d) = {}
  BY <1>1 DEF PendingOf
<1>3. WithinReplicas
  BY <1>1, <1>2, FS_EmptySet, ClusterAssumption DEF WithinReplicas
<1>4. QED
  BY <1>1, <1>3 DEF PodsInv

LEMMA PodsStep == TypeOK /\ PodsInv /\ [Next]_vars => PodsInv' /\ ClusterStep
<1> SUFFICES ASSUME TypeOK, PodsInv, [Next]_vars PROVE PodsInv' /\ ClusterStep
  OBVIOUS
<1>1. CASE UNCHANGED vars
  BY <1>1 DEF vars, clusterVars, PodsInv, WithinReplicas, PendingOf, Pending, Running, PodsOf,
              ClusterStep
<1>2. ASSUME NEW p \in Pods, Answer(p) \/ TimeOut(p)
      PROVE  PodsInv' /\ ClusterStep
  <2>1. p \in Pending /\ adm[p].required \in BOOLEAN
    BY <1>2 DEF Answer, TimeOut, Pending, TypeOK, Frames
  <2>2. QED
    BY <1>2, <2>1, StoreInCluster DEF Answer, TimeOut
<1>3. QED
  BY <1>1, <1>2, OthersInCluster, AdmitInCluster, CallsInCluster DEF Next, Handle, Calls

\* Whatever the webhook and the others do, to the rest of the system the Pods
\* come and go as Cluster, on which the controller is modelled, has it: with
\* admission spread over many calls, many Pods at a time and timeouts, a Pod is
\* still created in one step, for a Deployment that exists and has room for
\* it, and nothing but policies is written (webhook.go:106-231, 311-354).
THEOREM PodsAsInCluster == Spec => ClusterInit /\ [][ClusterNext \/ PolicyWritten]_clusterVars
<1>1. Init => ClusterInit
  BY DEF Init
<1>2. QED
  BY <1>1, TypeInit, TypeStep, PodsInit, PodsStep, PTL DEF Spec, ClusterStep

-----------------------------------------------------------------------------
(* No Pod gets the sidecar without a reason. *)

\* What is known of frame f of Pod p: that the sidecar is required has a
\* reason; the siblings still to be looked at are stored Pods with the labels
\* and the namespace of p; and when one of them turns out to belong to one of
\* the Deployments still to be looked at, the webhook could have been told so
\* at some moment.
Reason(p, f) ==
  /\ f.required => f.template \in Asking \/ view[p].ever
  /\ \A q \in f.siblings : /\ adm[q].pc = "stored"
                           /\ NsOf[adm[q].of] = NsOf[f.of]
                           /\ LabelsOf[f.template] \subseteq LabelsOf[adm[q].template]
  /\ f.pc = "pods" => /\ adm[f.sibling].pc = "stored"
                      /\ \A d \in f.dps : f.sibling \in Selected(d) => view[p].ever

ReasonInv ==
  \A p \in Pending : Reason(p, adm[p]) /\ (Telling(p) # {} => view[p].ever)

\* Stored Pods keep what they are, and none comes back.
StoredStay ==
  \A q \in Pods : adm[q].pc = "stored" =>
     /\ adm'[q] = adm[q]
     /\ pod'[q].phase \in {"running", "terminating"} => pod[q].phase \in {"running", "terminating"}

LEMMA StoredStayStep == TypeOK /\ Next => StoredStay
<1> SUFFICES ASSUME TypeOK, Next PROVE StoredStay
  OBVIOUS
<1>1. CASE Others
  <2>1. adm' = adm
    BY <1>1 DEF Others, PutPolicy, TakePolicy, Rollout
  <2>2. CASE pod' = pod
    BY <2>1, <2>2 DEF StoredStay
  <2>3. ASSUME NEW p \in Pods, EvictPod(p) \/ RemovePod(p)
        PROVE  StoredStay
    BY <2>1, <2>3 DEF StoredStay, EvictPod, RemovePod, TypeOK, ClusterTypeOK, PodStates
  <2>4. QED
    BY <1>1, <2>2, <2>3 DEF Others, PutPolicy, TakePolicy, Rollout, clusterVars
<1>2. ASSUME NEW p \in Pods, NEW d \in Deployments, Admit(p, d)
      PROVE  StoredStay
  BY <1>2 DEF Admit, Step, StoredStay, TypeOK, clusterVars
<1>3. ASSUME NEW p \in Pods, Calls(p)
      PROVE  StoredStay
  BY <1>3, CallsWithin DEF Within, Pending, StoredStay, TypeOK, clusterVars
<1>4. ASSUME NEW p \in Pods, Answer(p) \/ TimeOut(p)
      PROVE  StoredStay
  BY <1>4 DEF Answer, TimeOut, Pending, Store, StoredStay, TypeOK, ClusterTypeOK
<1>5. QED
  BY <1>1, <1>2, <1>3, <1>4 DEF Next, Handle, Calls

\* What has been seen once has been seen.
LEMMA EverSeen ==
  ASSUME TypeOK, NEW p \in Pods, view'[p] = Seen(p)
  PROVE  view[p].ever \/ Telling(p)' # {} => view'[p].ever
<1>1. view[p].ever \in BOOLEAN
  BY DEF TypeOK, Views
<1>2. Seen(p).ever = (view[p].ever \/ Telling(p)' # {})
  BY <1>1 DEF Seen
<1>3. QED
  BY <1>1, <1>2

\* What is known of a frame outlasts every step.
LEMMA ReasonKept ==
  ASSUME TypeOK, TypeOK', StoredStay, NEW p \in Pods, AdmissionOK(adm'[p]),
         view'[p] = Seen(p), Reason(p, adm'[p])
  PROVE  Reason(p, adm[p])'
<1>1. view[p].ever => view'[p].ever
  BY EverSeen
<1>2. /\ adm'[p].siblings \subseteq Pods
      /\ adm'[p].pc = "pods" => adm'[p].sibling \in Pods
  BY DEF AdmissionOK, Frames
<1>3. ASSUME NEW q \in Pods, adm[q].pc = "stored", NEW d, q \in Selected(d)'
      PROVE  q \in Selected(d)
  BY <1>3 DEF StoredStay, Selected, Stored
<1>4. QED
  BY <1>1, <1>2, <1>3 DEF Reason, StoredStay

LEMMA NextSiblingReason ==
  ASSUME NEW p, NEW f \in Frames, Reason(p, [f EXCEPT !.pc = "deployments"])
  PROVE  Reason(p, NextSibling(f))
BY DEF Reason, NextSibling, Frames

LEMMA NextDeploymentReason ==
  ASSUME NEW p, NEW f \in Frames, Reason(p, [f EXCEPT !.pc = "pods"])
  PROVE  Reason(p, NextDeployment(f))
BY DEF Reason, NextDeployment, NextSibling, Frames

LEMMA ListSiblingsReason ==
  ASSUME TypeOK, ReasonInv, NEW p \in Pods, ListSiblings(p)
  PROVE  Reason(p, adm'[p])
<1>1. adm[p] \in Frames /\ adm[p].pc = "siblings" /\ p \in Pending
  BY DEF ListSiblings, Pending, TypeOK
<1>2. Reason(p, adm[p])
  BY <1>1 DEF ReasonInv
<1>3. \A q \in Siblings(p) : /\ adm[q].pc = "stored"
                             /\ NsOf[adm[q].of] = NsOf[adm[p].of]
                             /\ LabelsOf[adm[p].template] \subseteq LabelsOf[adm[q].template]
  BY DEF Siblings, Stored, TypeOK
<1>4. /\ adm'[p].required = adm[p].required /\ adm'[p].of = adm[p].of
      /\ adm'[p].template = adm[p].template /\ adm'[p].pc # "pods"
      /\ adm'[p].siblings = Siblings(p) \/ adm'[p].siblings = {}
  <2> DEFINE f(found) == [adm[p] EXCEPT !.siblings = found,
                                        !.pc = IF found = {} THEN "answer" ELSE "deployments"]
  <2>1. \/ adm'[p] = f(Siblings(p))
        \/ adm'[p] = [f({}) EXCEPT !.calm = FALSE]
    BY DEF ListSiblings, Step, Fail, TypeOK
  <2>2. QED
    BY <1>1, <2>1 DEF Frames
<1>5. QED
  BY <1>2, <1>3, <1>4 DEF Reason

\* A sibling and a Deployment that selects it are telling at the moment the
\* Deployments are listed.
LEMMA ListDeploymentsReason ==
  ASSUME TypeOK, ReasonInv, NEW p \in Pods, NEW q \in adm[p].siblings, ListDeployments(p, q)
  PROVE  Reason(p, adm'[p])
<1> DEFINE f == [adm[p] EXCEPT !.sibling = q, !.siblings = @ \ {q},
                               !.dps = Annotated(NsOf[adm[p].of])]
           g == [[adm[p] EXCEPT !.pc = "answer"] EXCEPT !.calm = FALSE]
<1>1. adm[p] \in Frames /\ adm[p].pc = "deployments" /\ p \in Pending
  BY DEF ListDeployments, Pending, TypeOK
<1>2. Reason(p, adm[p]) /\ (Telling(p) # {} => view[p].ever) /\ q \in Pods
  BY <1>1 DEF ReasonInv, Frames
<1>3. ASSUME NEW d \in Annotated(NsOf[adm[p].of]), q \in Selected(d)
      PROVE  view[p].ever
  <2>1. q \in Siblings(p)
    BY <1>2, <1>3 DEF Reason, Siblings, Selected, Stored
  <2>2. <<q, d>> \in Telling(p)
    BY <1>3, <2>1 DEF Telling
  <2>3. QED
    BY <1>2, <2>2
<1>4. f \in Frames /\ Reason(p, [f EXCEPT !.pc = "pods"])
  BY <1>1, <1>2, <1>3, ListTypes DEF Reason, Frames
<1>5. Reason(p, g)
  BY <1>1, <1>2 DEF Reason, Frames
<1>6. adm'[p] = NextDeployment(f) \/ adm'[p] = g
  BY DEF ListDeployments, Step, Fail, TypeOK
<1> HIDE DEF f, g
<1>7. QED
  BY <1>4, <1>5, <1>6, NextDeploymentReason

\* The sidecar becomes required because the sibling belongs to the Deployment.
LEMMA ListPodsReason ==
  ASSUME TypeOK, ReasonInv, NEW p \in Pods, NEW d \in adm[p].dps, ListPods(p, d)
  PROVE  Reason(p, adm'[p])
<1> DEFINE f == [adm[p] EXCEPT !.required = TRUE]
           g == [adm[p] EXCEPT !.dps = @ \ {d}]
<1>1. adm[p] \in Frames /\ adm[p].pc = "pods" /\ p \in Pending
  BY DEF ListPods, Pending, TypeOK
<1>2. Reason(p, adm[p])
  BY <1>1 DEF ReasonInv
<1>3. g \in Frames /\ Reason(p, [g EXCEPT !.pc = "pods"])
  BY <1>1, <1>2 DEF Reason, Frames
<1>4. Qualifies(p, d) \/ adm[p].required => f \in Frames /\ Reason(p, [f EXCEPT !.pc = "deployments"])
  BY <1>1, <1>2 DEF Reason, Frames, Qualifies
<1>5. \/ adm'[p] = NextSibling(f) /\ (Qualifies(p, d) \/ adm[p].required)
      \/ adm'[p] = NextDeployment(g)
      \/ adm'[p] = [NextDeployment(g) EXCEPT !.calm = FALSE]
  BY DEF ListPods, AfterPods, Step, Fail, TypeOK
<1> HIDE DEF f, g
<1>6. Reason(p, NextDeployment(g))
  BY <1>3, NextDeploymentReason
<1>7. NextDeployment(g) \in Frames
  BY <1>3 DEF NextDeployment, NextSibling, Frames
<1>8. Reason(p, [NextDeployment(g) EXCEPT !.calm = FALSE])
  BY <1>6, <1>7 DEF Reason, Frames
<1>9. QED
  BY <1>4, <1>5, <1>6, <1>8, NextSiblingReason

LEMMA AdmitReason ==
  ASSUME TypeOK, NEW p \in Pods, NEW d \in Deployments, Admit(p, d)
  PROVE  Reason(p, adm'[p])
BY DEF Admit, Step, Unborn, Reason, TypeOK

\* An admission that is under way after a step is one that went on in the
\* step, or one that the step did not touch.
LEMMA HandleCases ==
  ASSUME TypeOK, Next, NEW p \in Pods
  PROVE  /\ adm'[p] = adm[p] \/ Handle(p)
         /\ p \in Pending' => ~Answer(p) /\ ~TimeOut(p)
<1>1. ASSUME NEW q \in Pods \ {p}, Handle(q)
      PROVE  adm'[p] = adm[p]
  BY <1>1 DEF Handle, Admit, ListSiblings, ListDeployments, ListPods, Answer, TimeOut,
              Step, Fail, Store, TypeOK
<1>2. Others => adm' = adm
  BY DEF Others, PutPolicy, TakePolicy, Rollout
<1>3. ASSUME NEW injected, Store(p, injected)
      PROVE  p \notin Pending'
  <2> DEFINE f == [Unborn EXCEPT !.pc = "stored", !.of = adm[p].of, !.template = adm[p].template]
  <2>1. adm'[p] = f
    BY <1>3 DEF Store, TypeOK
  <2>2. f.pc = "stored"
    BY DEF Unborn
  <2>3. QED
    BY <2>1, <2>2 DEF Pending
<1>4. QED
  BY <1>1, <1>2, <1>3 DEF Next, Answer, TimeOut

\* Every step leaves of the admissions that are under way what is known.
LEMMA NextReason ==
  ASSUME TypeOK, ReasonInv, Next, NEW p \in Pending'
  PROVE  Reason(p, adm'[p])
<1>1. CASE adm'[p] = adm[p]
  <2>1. p \in Pending
    BY <1>1 DEF Pending
  <2>2. QED
    BY <1>1, <2>1 DEF ReasonInv
<1>2. CASE Handle(p)
  BY <1>2, HandleCases, AdmitReason, ListSiblingsReason, ListDeploymentsReason, ListPodsReason
  DEF Handle, Pending
<1>3. QED
  BY <1>1, <1>2, HandleCases DEF Pending

LEMMA ReasonInit == Init => ReasonInv
BY DEF Init, Unborn, Pending, ReasonInv

LEMMA ReasonStep == TypeOK /\ ReasonInv /\ [Next]_vars => ReasonInv'
<1> SUFFICES ASSUME TypeOK, ReasonInv, [Next]_vars PROVE ReasonInv'
  OBVIOUS
<1>1. CASE UNCHANGED vars
  BY <1>1 DEF vars, clusterVars, ReasonInv, Reason, Pending, Telling, Siblings, Selected, Stored,
              Annotated, HasPolicy
<1>2. CASE Next
  <2>1. TypeOK' /\ StoredStay
    BY <1>2, TypeStep, StoredStayStep
  <2> SUFFICES ASSUME NEW p \in Pending'
               PROVE  Reason(p, adm[p])' /\ (Telling(p)' # {} => view'[p].ever)
    BY DEF ReasonInv
  <2>2. p \in Pods /\ view'[p] = Seen(p)
    BY <1>2 DEF Pending, Next
  <2>3. AdmissionOK(adm'[p])
    BY <2>1, <2>2 DEF TypeOK, AdmissionOK
  <2>4. Reason(p, adm[p])'
    BY <1>2, <2>1, <2>2, <2>3, NextReason, ReasonKept
  <2>5. QED
    BY <2>2, <2>4, EverSeen
<1>3. QED
  BY <1>1, <1>2

\* A Pod becomes injected when the answer says so.
LEMMA ReasonAction ==
  ASSUME TypeOK, ReasonInv, [Next]_vars, NEW p \in Pods, pod'[p].injected, ~pod[p].injected
  PROVE  adm[p].template \in Asking \/ view[p].ever
<1>1. CASE Answer(p)
  <2>1. adm[p].required
    BY <1>1 DEF Answer, Store, TypeOK, ClusterTypeOK
  <2>2. p \in Pending
    BY <1>1 DEF Answer, Pending
  <2>3. QED
    BY <2>1, <2>2 DEF ReasonInv, Reason
<1>2. ~TimeOut(p)
  BY DEF TimeOut, Store, TypeOK, ClusterTypeOK
<1>3. ASSUME NEW q \in Pods, Answer(q) \/ TimeOut(q), q # p
      PROVE  FALSE
  BY <1>3 DEF Answer, TimeOut, Store, TypeOK, ClusterTypeOK
<1>4. ASSUME NEW q \in Pods, \/ Calls(q)
                             \/ \E d \in Deployments : Admit(q, d)
      PROVE  FALSE
  BY <1>4, CallsWithin DEF Within, Admit, Step, clusterVars
<1>5. ~Others
  <2>1. ASSUME NEW q \in Pods, EvictPod(q) \/ RemovePod(q)
        PROVE  FALSE
    BY <2>1 DEF EvictPod, RemovePod, TypeOK, ClusterTypeOK, PodStates
  <2>2. QED
    BY <2>1 DEF Others, PutPolicy, TakePolicy, Rollout, clusterVars
<1>6. Next
  BY DEF vars, clusterVars
<1>7. QED
  BY <1>1, <1>2, <1>3, <1>4, <1>5, <1>6 DEF Next, Handle, Calls

\* A Pod that gets the sidecar and did not ask for it had, at one moment of
\* its admission, a stored sibling that an annotated Deployment selected,
\* although the siblings, the Deployments and the Deployments' Pods are read
\* at three moments (webhook.go:137-191).
THEOREM InjectionHasReason == Spec => InjectedForReason
<1>1. TypeOK /\ ReasonInv /\ [Next]_vars
        => [\A p \in Pods : pod'[p].injected /\ ~pod[p].injected =>
              adm[p].template \in Asking \/ view[p].ever]_vars
  BY ReasonAction
<1>2. QED
  BY <1>1, TypeInit, TypeStep, ReasonInit, ReasonStep, PTL DEF Spec, InjectedForReason

-----------------------------------------------------------------------------
(* No Pod is missed while no call fails. *)

\* What is known of frame f of Pod p while no call has failed: a template that
\* asks for the sidecar has been heard, the loops end early only with the
\* sidecar required, and a pair that has been telling all the time is one that
\* the loops have still before them.
Heard(p, f) ==
  f.calm /\ NsOf[f.of] \notin Ignored =>
    /\ f.template \in Asking => f.required
    /\ f.pc = "answer" => f.required \/ f.siblings = {}
    /\ f.pc # "siblings" =>
         \A q \in Pods, d \in Deployments : <<q, d>> \in view[p].always =>
            \/ f.required
            \/ q \in f.siblings
            \/ f.pc = "pods" /\ q = f.sibling /\ d \in f.dps

HeardInv ==
  \A p \in Pending : Heard(p, adm[p]) /\ view[p].always \subseteq Telling(p)

\* What a pair that tells is made of.
LEMMA TellingPair ==
  ASSUME NEW p, NEW q, NEW d, <<q, d>> \in Telling(p)
  PROVE  q \in Siblings(p) /\ q \in Selected(d) /\ d \in Annotated(NsOf[adm[p].of])
BY DEF Telling

LEMMA HeardKept ==
  ASSUME NEW p \in Pods, view'[p].always \subseteq view[p].always, Heard(p, adm'[p])
  PROVE  Heard(p, adm[p])'
BY DEF Heard

\* With f.pc = "deployments": what Heard says of the pairs before the loop over
\* the siblings goes on.
LEMMA NextSiblingHeard ==
  ASSUME NEW p, NEW f \in Frames, Heard(p, [f EXCEPT !.pc = "deployments"])
  PROVE  Heard(p, NextSibling(f))
BY DEF Heard, NextSibling, Frames

LEMMA NextDeploymentHeard ==
  ASSUME NEW p, NEW f \in Frames, Heard(p, [f EXCEPT !.pc = "pods"])
  PROVE  Heard(p, NextDeployment(f))
<1>1. CASE f.dps = {}
  <2>1. Heard(p, [f EXCEPT !.pc = "deployments"])
    BY <1>1 DEF Heard, Frames
  <2>2. QED
    BY <1>1, <2>1, NextSiblingHeard DEF NextDeployment
<1>2. CASE f.dps # {}
  BY <1>2 DEF NextDeployment
<1>3. QED
  BY <1>1, <1>2

LEMMA ListSiblingsHeard ==
  ASSUME TypeOK, HeardInv, NEW p \in Pods, ListSiblings(p)
  PROVE  Heard(p, adm'[p])
<1> DEFINE f(found) == [adm[p] EXCEPT !.siblings = found,
                                      !.pc = IF found = {} THEN "answer" ELSE "deployments"]
<1>1. adm[p] \in Frames /\ adm[p].pc = "siblings" /\ p \in Pending
  BY DEF ListSiblings, Pending, TypeOK
<1>2. Heard(p, adm[p]) /\ view[p].always \subseteq Telling(p)
  BY <1>1 DEF HeardInv
<1>3. \A q, d : <<q, d>> \in view[p].always => q \in Siblings(p)
  BY <1>2, TellingPair
<1>4. Heard(p, f(Siblings(p)))
  BY <1>1, <1>2, <1>3 DEF Heard, Frames
<1>5. \/ adm'[p] = f(Siblings(p))
      \/ adm'[p] = [f({}) EXCEPT !.calm = FALSE]
  BY DEF ListSiblings, Step, Fail, TypeOK
<1>6. Heard(p, [f({}) EXCEPT !.calm = FALSE])
  BY <1>1 DEF Heard, Frames
<1>7. QED
  BY <1>4, <1>5, <1>6

LEMMA ListDeploymentsHeard ==
  ASSUME TypeOK, HeardInv, NEW p \in Pods, NEW q \in adm[p].siblings, ListDeployments(p, q)
  PROVE  Heard(p, adm'[p])
<1> DEFINE f == [adm[p] EXCEPT !.sibling = q, !.siblings = @ \ {q},
                               !.dps = Annotated(NsOf[adm[p].of])]
           g == [[adm[p] EXCEPT !.pc = "answer"] EXCEPT !.calm = FALSE]
<1>1. adm[p] \in Frames /\ adm[p].pc = "deployments" /\ p \in Pending
  BY DEF ListDeployments, Pending, TypeOK
<1>2. Heard(p, adm[p]) /\ view[p].always \subseteq Telling(p) /\ q \in Pods
  BY <1>1 DEF HeardInv, Frames
<1>3. \A r, d : <<r, d>> \in view[p].always => d \in Annotated(NsOf[adm[p].of])
  BY <1>2, TellingPair
<1>4. f \in Frames /\ Heard(p, [f EXCEPT !.pc = "pods"])
  BY <1>1, <1>2, <1>3, ListTypes DEF Heard, Frames
<1>5. Heard(p, g)
  BY <1>1 DEF Heard, Frames
<1>6. adm'[p] = NextDeployment(f) \/ adm'[p] = g
  BY DEF ListDeployments, Step, Fail, TypeOK
<1> HIDE DEF f, g
<1>7. QED
  BY <1>4, <1>5, <1>6, NextDeploymentHeard

LEMMA ListPodsHeard ==
  ASSUME TypeOK, HeardInv, NEW p \in Pods, NEW d \in adm[p].dps, ListPods(p, d)
  PROVE  Heard(p, adm'[p])
<1> DEFINE f == [adm[p] EXCEPT !.required = TRUE]
           g == [adm[p] EXCEPT !.dps = @ \ {d}]
           h == [NextDeployment(g) EXCEPT !.calm = FALSE]
<1>1. adm[p] \in Frames /\ adm[p].pc = "pods" /\ p \in Pending
  BY DEF ListPods, Pending, TypeOK
<1>2. Heard(p, adm[p]) /\ view[p].always \subseteq Telling(p)
  BY <1>1 DEF HeardInv
<1>3. f \in Frames /\ Heard(p, [f EXCEPT !.pc = "deployments"])
  BY <1>1, <1>2 DEF Heard, Frames
<1>4. g \in Frames
  BY <1>1 DEF Frames
<1>5. ~Qualifies(p, d) => Heard(p, [g EXCEPT !.pc = "pods"])
  <2>1. \A q, e : <<q, e>> \in view[p].always => q \in Selected(e)
    BY <1>2, TellingPair
  <2>2. QED
    BY <1>1, <1>2, <2>1 DEF Heard, Frames, Qualifies
<1>6. NextDeployment(g) \in Frames
  BY <1>4 DEF NextDeployment, NextSibling, Frames
<1>7. Heard(p, h)
  BY <1>6 DEF Heard, Frames
<1>8. \/ adm'[p] = NextSibling(f)
      \/ adm'[p] = NextDeployment(g) /\ ~Qualifies(p, d)
      \/ adm'[p] = h
  BY DEF ListPods, AfterPods, Step, Fail, TypeOK
<1> HIDE DEF f, g, h
<1>9. QED
  BY <1>3, <1>4, <1>5, <1>7, <1>8, NextSiblingHeard, NextDeploymentHeard

LEMMA AdmitHeard ==
  ASSUME TypeOK, NEW p \in Pods, NEW d \in Deployments, Admit(p, d)
  PROVE  Heard(p, adm'[p])
BY DEF Admit, Step, Unborn, Heard, TypeOK

LEMMA NextHeard ==
  ASSUME TypeOK, HeardInv, Next, NEW p \in Pending'
  PROVE  Heard(p, adm'[p])
<1>1. CASE adm'[p] = adm[p]
  <2>1. p \in Pending
    BY <1>1 DEF Pending
  <2>2. QED
    BY <1>1, <2>1 DEF HeardInv
<1>2. CASE Handle(p)
  BY <1>2, HandleCases, AdmitHeard, ListSiblingsHeard, ListDeploymentsHeard, ListPodsHeard
  DEF Handle, Pending
<1>3. QED
  BY <1>1, <1>2, HandleCases DEF Pending

LEMMA HeardInit == Init => HeardInv
BY DEF Init, Unborn, Pending, HeardInv

LEMMA HeardStep == TypeOK /\ HeardInv /\ [Next]_vars => HeardInv'
<1> SUFFICES ASSUME TypeOK, HeardInv, [Next]_vars PROVE HeardInv'
  OBVIOUS
<1>1. CASE UNCHANGED vars
  BY <1>1 DEF vars, clusterVars, HeardInv, Heard, Pending, Telling, Siblings, Selected, Stored,
              Annotated, HasPolicy
<1>2. CASE Next
  <2> SUFFICES ASSUME NEW p \in Pending'
               PROVE  Heard(p, adm[p])' /\ view'[p].always \subseteq Telling(p)'
    BY DEF HeardInv
  <2>1. p \in Pods /\ view'[p] = Seen(p)
    BY <1>2 DEF Pending, Next
  <2>2. view'[p].always = view[p].always \cap Telling(p)'
    BY <2>1 DEF Seen
  <2>3. Heard(p, adm[p])'
    BY <1>2, <2>1, <2>2, NextHeard, HeardKept
  <2>4. QED
    BY <2>2, <2>3
<1>3. QED
  BY <1>1, <1>2

LEMMA HeardAction ==
  ASSUME TypeOK, HeardInv, [Next]_vars, NEW p \in Pods, Answered(p),
         adm[p].template \in Asking \/ view[p].always # {}
  PROVE  pod'[p].injected
<1>1. p \in Pending /\ p \notin Pending'
  BY DEF Answered
<1>2. Answer(p)
  <2>1. adm'[p] # adm[p]
    BY <1>1 DEF Pending
  <2>2. Next
    BY <2>1 DEF vars
  <2>3. Handle(p)
    BY <2>1, <2>2, HandleCases
  <2>4. ASSUME TimeOut(p)
        PROVE  FALSE
    <3>1. faults \in Nat /\ faults' = faults + 1
      BY <2>4 DEF TimeOut, TypeOK
    <3>2. faults' = faults
      BY DEF Answered
    <3>3. QED
      BY <3>1, <3>2
  <2>5. ~Calls(p)
    BY <1>1, CallsWithin DEF Within, Continues, UnderWay, Pending, TypeOK
  <2>6. ~\E d \in Deployments : Admit(p, d)
    BY <1>1 DEF Admit, Pending
  <2>7. QED
    BY <2>3, <2>4, <2>5, <2>6 DEF Handle, Calls
<1>3. adm[p].required
  <2>1. Heard(p, adm[p]) /\ adm[p].pc = "answer" /\ adm[p].calm /\ NsOf[adm[p].of] \notin Ignored
    BY <1>1, <1>2 DEF HeardInv, Answer, Answered
  <2>2. CASE view[p].always # {}
    <3>1. view[p].always \subseteq Pods \X Deployments
      BY DEF TypeOK, Views
    <3>2. PICK q \in Pods, d \in Deployments : <<q, d>> \in view[p].always
      BY <2>2, <3>1
    <3>3. QED
      BY <2>1, <3>2 DEF Heard
  <2>3. QED
    BY <2>1, <2>2 DEF Heard
<1>4. QED
  BY <1>2, <1>3 DEF Answer, Store, TypeOK, ClusterTypeOK

\* A Pod that asks for the sidecar gets it if no call fails, and so does one
\* with a sibling that an annotated Deployment selects all the time of the
\* admission, whatever else the loops over siblings and Deployments come
\* across (webhook.go:124-195).
THEOREM InjectionNotMissed == Spec => NotMissed
<1>1. TypeOK /\ HeardInv /\ [Next]_vars
        => [\A p \in Pods : Answered(p) /\ (adm[p].template \in Asking \/ view[p].always # {})
              => pod'[p].injected]_vars
  BY HeardAction
<1>2. QED
  BY <1>1, TypeInit, TypeStep, HeardInit, HeardStep, PTL DEF Spec, NotMissed
=============================================================================
