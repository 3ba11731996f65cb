----------------------------- MODULE SidecarProofs -----------------------------
(***************************************************************************)
(* Theorems about the sidecar, for any number of Pods of the same name, of *)
(* Deployments, policies and ports, and every bound.                       *)
(***************************************************************************)
EXTENDS Sidecar, TLAPS

-----------------------------------------------------------------------------
(* Type correctness. *)

\* What TypeOK says of the process q, when the first Pod of its name was
\* another one or was not.
FrameOK(q, other) ==
  /\ q \in Procs
  /\ q.pc # "start" <=> q.pod # None
  /\ q.pc = "pods" <=> q.dps # {}
  /\ q.pc \in {"probe", "hung"} =>
       q.got /\ q.urls = Ports[q.pod] /\ q.at \in 1 .. q.urls + 1
  /\ q.pc \notin {"probe", "hung"} => q.at = 1
  /\ (q.pc # "start" /\ ~other) => q.pod = Me

LEMMA TypeParts ==
  TypeOK <=> /\ pods \in [Pods -> PodObjects]
             /\ policy \in [Deployments -> Policies \cup {None}]
             /\ conns \in 0 .. MaxConns
             /\ logged \in Nat
             /\ had \in [Deployments -> SUBSET (Policies \cup {None})]
             /\ clash \in BOOLEAN
             /\ faults \in Nat /\ changes \in Nat
             /\ FrameOK(proc, clash)
BY DEF TypeOK, FrameOK

LEMMA FaultType == TypeOK /\ Fault => faults' \in Nat
BY DEF TypeOK, Fault

LEMMA PortsType == \A p \in Pods : Ports[p] \in Nat
BY SidecarAssumption

\* A process that has its Pod knows it.
LEMMA PodType == TypeOK /\ proc.pc # "start" => proc.pod \in Pods
BY TypeParts DEF FrameOK, Procs

LEMMA WatchIs ==
  ASSUME NEW q, q \in Procs, q.pod \in Pods
  PROVE  /\ Watch(q) \in Procs /\ Watch(q).pc = "probe" /\ Watch(q).got = TRUE
         /\ Watch(q).urls = Ports[q.pod]
         /\ Watch(q).pod = q.pod /\ Watch(q).env = q.env /\ Watch(q).at = q.at
         /\ Watch(q).calm = q.calm /\ Watch(q).dps = q.dps
<1>1. Ports[q.pod] \in Nat
  BY PortsType
<1>2. Watch(q) \in Procs /\ Watch(q).pc = "probe" /\ Watch(q).urls = Ports[q.pod]
  BY <1>1 DEF Watch, Procs
<1>3. Watch(q).got = TRUE
  BY DEF Watch, Procs
<1>4. Watch(q).pod = q.pod /\ Watch(q).env = q.env
  BY DEF Watch, Procs
<1>5. Watch(q).at = q.at /\ Watch(q).calm = q.calm /\ Watch(q).dps = q.dps
  BY DEF Watch, Procs
<1>6. QED
  BY <1>2, <1>3, <1>4, <1>5

\* The next thing the process does, once it has its environment or searches on.
LEMMA SearchFromOK ==
  ASSUME NEW q, NEW other, FrameOK(q, other), q.pc \in {"deployments", "pods"},
         NEW dps \in SUBSET Items
  PROVE  LET s == SearchFrom(q, dps)
         IN /\ FrameOK(s, other)
            /\ s.pod = q.pod /\ s.env = q.env /\ s.calm = q.calm /\ s.dps = dps
            /\ s.pc \in {"pods", "ip", "probe"} /\ (s.pc = "pods" <=> dps # {})
<1> DEFINE s == SearchFrom(q, dps)
<1>1. q \in Procs /\ q.pod # None /\ q.at = 1 /\ q.pod \in Pods /\ (~other => q.pod = Me)
  BY DEF FrameOK, Procs
<1>2. CASE dps # {}
  <2>1. s = [q EXCEPT !.dps = dps, !.pc = "pods"]
    BY <1>2 DEF SearchFrom
  <2>2. /\ s \in Procs /\ s.pc = "pods" /\ s.dps = dps /\ s.at = 1
        /\ s.pod = q.pod /\ s.env = q.env /\ s.calm = q.calm
    BY <1>1, <2>1 DEF Procs
  <2>3. QED
    BY <1>1, <1>2, <2>2 DEF FrameOK
<1>3. CASE dps = {} /\ q.got
  <2> DEFINE r == [q EXCEPT !.dps = {}]
  <2>1. r \in Procs /\ r.dps = {} /\ r.at = 1 /\ r.pod = q.pod /\ r.env = q.env /\ r.calm = q.calm
    BY <1>1 DEF Procs
  <2>2. s = Watch(r)
    BY <1>3, Zenon DEF SearchFrom
  <2> HIDE DEF r
  <2>3. Ports[r.pod] \in Nat
    BY <1>1, <2>1, PortsType
  <2>4. /\ s \in Procs /\ s.pc = "probe" /\ s.got = TRUE /\ s.urls = Ports[s.pod]
        /\ s.dps = {} /\ s.at = 1 /\ s.pod = q.pod /\ s.env = q.env /\ s.calm = q.calm
    <3>1. r \in Procs /\ r.pod \in Pods
      BY <1>1, <2>1
    <3>2. /\ Watch(r) \in Procs /\ Watch(r).pc = "probe" /\ Watch(r).got = TRUE
          /\ Watch(r).urls = Ports[r.pod]
          /\ Watch(r).pod = r.pod /\ Watch(r).env = r.env /\ Watch(r).at = r.at
          /\ Watch(r).calm = r.calm /\ Watch(r).dps = r.dps
      BY <3>1, WatchIs
    <3>3. QED
      BY <2>1, <2>2, <3>2
  <2>5. s.at \in 1 .. s.urls + 1
    BY <2>1, <2>3, <2>4
  <2> HIDE DEF s
  <2>6. FrameOK(s, other)
    BY <1>1, <2>4, <2>5 DEF FrameOK
  <2>7. QED
    BY <1>3, <2>4, <2>6 DEF s
<1>4. CASE dps = {} /\ ~q.got
  <2>1. s = [q EXCEPT !.dps = {}, !.pc = "ip"]
    BY <1>4 DEF SearchFrom
  <2>2. /\ s \in Procs /\ s.pc = "ip" /\ s.dps = {} /\ s.at = 1
        /\ s.pod = q.pod /\ s.env = q.env /\ s.calm = q.calm
    BY <1>1, <2>1 DEF Procs
  <2>3. QED
    BY <1>1, <1>4, <2>2 DEF FrameOK
<1>5. QED
  BY <1>2, <1>3, <1>4

LEMMA WatchOK ==
  ASSUME TypeOK, proc.pc = "ip"
  PROVE  /\ FrameOK(Watch(proc), clash)
         /\ Watch(proc).pc = "probe" /\ Watch(proc).pod = proc.pod
         /\ Watch(proc).env = proc.env /\ Watch(proc).calm = proc.calm /\ Watch(proc).dps = {}
<1>1. /\ proc \in Procs /\ proc.pod \in Pods /\ proc.pod # None /\ proc.dps = {} /\ proc.at = 1
      /\ (~clash => proc.pod = Me)
  BY TypeParts DEF FrameOK, Procs
<1>2. Ports[proc.pod] \in Nat
  BY <1>1, PortsType
<1>3. /\ Watch(proc) \in Procs /\ Watch(proc).pc = "probe" /\ Watch(proc).got = TRUE
      /\ Watch(proc).urls = Ports[proc.pod]
      /\ Watch(proc).pod = proc.pod /\ Watch(proc).env = proc.env /\ Watch(proc).at = 1
      /\ Watch(proc).calm = proc.calm /\ Watch(proc).dps = {}
  BY <1>1, WatchIs
<1>4. 1 \in 1 .. Ports[proc.pod] + 1
  BY <1>2
<1>5. QED
  BY <1>1, <1>3, <1>4 DEF FrameOK

LEMMA DisturbedOK ==
  ASSUME TypeOK
  PROVE  /\ FrameOK(Disturbed, clash)
         /\ Disturbed.pc = proc.pc /\ Disturbed.pod = proc.pod /\ Disturbed.env = proc.env
         /\ Disturbed.calm = FALSE /\ Disturbed.dps = proc.dps
BY TypeParts DEF FrameOK, Disturbed, Procs

LEMMA NewProcOK == FrameOK(NewProc, FALSE)
BY SidecarAssumption DEF FrameOK, NewProc, Procs

\* Whatever the sidecar does next, it keeps the types.
LEMMA StepType ==
  ASSUME TypeOK, NEW q, Step(q), FrameOK(q, clash'), clash' \in BOOLEAN, faults' \in Nat
  PROVE  TypeOK'
BY TypeParts DEF Step, world, TypeOK, FrameOK

\* The process past its first call.
LEMMA ProcIs ==
  ASSUME TypeOK
  PROVE  /\ proc \in Procs /\ FrameOK(proc, clash)
         /\ proc.pc # "start" => proc.pod \in Pods /\ proc.pod # None
         /\ proc.urls \in Nat /\ proc.at \in Nat
BY TypeParts DEF FrameOK, Procs

LEMMA ItemsType ==
  TypeOK => {[name |-> d, policy |-> policy[d]] : d \in Annotated} \in SUBSET Items
BY TypeParts DEF Annotated, Items

LEMMA ClusterType == TypeOK /\ Cluster => TypeOK'
<1> SUFFICES ASSUME TypeOK, Cluster PROVE TypeOK'
  OBVIOUS
<1>1. UNCHANGED <<proc, conns, clash, faults>> /\ logged' = 0
  BY DEF Cluster
<1>2. ASSUME NEW p \in Pods, Run(p) \/ OtherPod(p)
      PROVE  TypeOK'
  <2>1. \A o \in PodObjects :
          /\ [o EXCEPT !.running = TRUE] \in PodObjects /\ [o EXCEPT !.ip = TRUE] \in PodObjects
    BY DEF PodObjects
  <2>2. pods \in [Pods -> PodObjects] /\ pods[p] \in PodObjects
    BY TypeParts
  <2>3. ASSUME Run(p) PROVE pods' \in [Pods -> PodObjects]
    <3>1. [pods[p] EXCEPT !.running = TRUE] \in PodObjects
      BY <2>1, <2>2
    <3>2. [pods[p] EXCEPT !.ip = TRUE] \in PodObjects
      BY <2>1, <2>2
    <3>3. \/ pods' = [pods EXCEPT ![p] = [pods[p] EXCEPT !.running = TRUE]]
          \/ pods' = [pods EXCEPT ![p] = [pods[p] EXCEPT !.ip = TRUE]]
      BY <2>2, <2>3 DEF Run
    <3>4. QED
      BY <2>2, <3>1, <3>2, <3>3
  <2>4. ASSUME OtherPod(p) PROVE pods' \in [Pods -> PodObjects]
    <3> DEFINE new(here) == [here |-> here, running |-> FALSE, ip |-> FALSE]
    <3>1. PICK here \in BOOLEAN : here = ~pods[p].here
      BY Zenon
    <3>2. pods' = [pods EXCEPT ![p] = new(~pods[p].here)]
      BY <2>2, <2>4 DEF OtherPod
    <3>3. new(here) \in PodObjects
      BY DEF PodObjects
    <3> HIDE DEF new
    <3>4. pods' = [pods EXCEPT ![p] = new(here)]
      BY <3>1, <3>2, Zenon
    <3>5. QED
      BY <2>2, <3>3, <3>4
  <2>5. pods' \in [Pods -> PodObjects]
    BY <1>2, <2>3, <2>4
  <2>6. UNCHANGED <<policy, had, changes>>
    BY <1>2 DEF Run, OtherPod
  <2>7. QED
    BY <1>1, <2>5, <2>6 DEF TypeOK
<1>3. ASSUME NEW d \in Deployments, SetPolicy(d)
      PROVE  TypeOK'
  <2>1. PICK p \in Policies \cup {None} :
          /\ policy' = [policy EXCEPT ![d] = p]
          /\ had' = [had EXCEPT ![d] = @ \cup {p}]
    BY <1>3 DEF SetPolicy
  <2>2. policy' \in [Deployments -> Policies \cup {None}]
    BY <2>1, TypeParts
  <2>3. had' \in [Deployments -> SUBSET (Policies \cup {None})]
    BY <2>1, TypeParts
  <2>4. changes' \in Nat /\ pods' = pods
    BY <1>3, TypeParts DEF SetPolicy
  <2>5. QED
    BY <1>1, <2>2, <2>3, <2>4 DEF TypeOK
<1>4. QED
  BY <1>2, <1>3 DEF Cluster

LEMMA StartType == TypeOK /\ Start => TypeOK'
<1> SUFFICES ASSUME TypeOK, Start PROVE TypeOK'
  OBVIOUS
<1>1. PICK p \in Pods :
        Step([proc EXCEPT !.pc = "get", !.pod = p]) /\ clash' = (p # Me) /\ UNCHANGED faults
  BY DEF Start, First
<1> DEFINE q == [proc EXCEPT !.pc = "get", !.pod = p]
<1>2. proc \in Procs /\ proc.at = 1 /\ proc.dps = {} /\ p # None
  BY TypeParts, SidecarAssumption DEF Start, FrameOK
<1>3. q \in Procs /\ q.pc = "get" /\ q.pod = p /\ q.at = 1 /\ q.dps = {}
  BY <1>2 DEF Procs
<1>4. clash' \in BOOLEAN
  BY <1>1
<1>5. FrameOK(q, clash')
  BY <1>1, <1>2, <1>3 DEF FrameOK
<1>6. QED
  BY <1>1, <1>4, <1>5, StepType, TypeParts

LEMMA GetPodType == TypeOK /\ GetPod => TypeOK'
<1> SUFFICES ASSUME TypeOK, GetPod PROVE TypeOK'
  OBVIOUS
<1>1. proc \in Procs /\ proc.pod \in Pods /\ FrameOK(proc, clash) /\ proc.pc = "get"
  BY ProcIs DEF GetPod
<1>2. pods[proc.pod].ip \in BOOLEAN
  BY <1>1, TypeParts DEF PodObjects
<1>3. ASSUME NEW got \in BOOLEAN
      PROVE  FrameOK([proc EXCEPT !.pc = "deployments", !.got = got], clash)
  BY <1>1 DEF FrameOK, Procs
<1>4. QED
  BY <1>2, <1>3, StepType, TypeParts DEF GetPod

LEMMA ListDeploymentsType == TypeOK /\ ListDeployments => TypeOK'
<1> SUFFICES ASSUME TypeOK, ListDeployments PROVE TypeOK'
  OBVIOUS
<1>1. FrameOK(proc, clash) /\ proc.pc = "deployments" /\ clash' = clash /\ clash \in BOOLEAN
  BY TypeParts DEF ListDeployments
<1>2. FrameOK(SearchFrom(proc, {[name |-> d, policy |-> policy[d]] : d \in Annotated}), clash)
  BY <1>1, ItemsType, SearchFromOK
<1>3. FrameOK(SearchFrom(Disturbed, {}), clash)
  BY <1>1, DisturbedOK, SearchFromOK
<1>4. faults' \in Nat
  BY TypeParts, FaultType DEF ListDeployments
<1>5. QED
  BY <1>1, <1>2, <1>3, <1>4, StepType DEF ListDeployments

\* The environment of the item that has the Pod.
LEMMA FoundOK ==
  ASSUME TypeOK, proc.pc = "pods", NEW dp \in Items
  PROVE  LET q == [proc EXCEPT !.env = dp.policy]
         IN /\ FrameOK(q, clash) /\ q.pc = "pods" /\ q.env = dp.policy
            /\ q.pod = proc.pod /\ q.calm = proc.calm
<1>1. dp.policy \in Policies \cup {None}
  BY DEF Items
<1>2. QED
  BY <1>1, TypeParts DEF FrameOK, Procs

LEMMA ListPodsType ==
  ASSUME TypeOK, NEW dp \in proc.dps, ListPods(dp)
  PROVE  TypeOK'
<1>1. FrameOK(proc, clash) /\ proc.pc = "pods" /\ clash' = clash /\ clash \in BOOLEAN
  BY TypeParts DEF ListPods
<1>2. proc.dps \in SUBSET Items /\ dp \in Items /\ proc.dps \ {dp} \in SUBSET Items
  BY ProcIs DEF Procs
<1>3. FrameOK(SearchFrom(proc, proc.dps \ {dp}), clash)
  BY <1>1, <1>2, SearchFromOK
<1>4. FrameOK(SearchFrom(Disturbed, proc.dps \ {dp}), clash)
  BY <1>1, <1>2, DisturbedOK, SearchFromOK
<1>5. FrameOK(SearchFrom([proc EXCEPT !.env = dp.policy], {}), clash)
  BY <1>1, <1>2, FoundOK, SearchFromOK
<1>6. faults' \in Nat
  BY TypeParts, FaultType DEF ListPods
<1>7. QED
  BY <1>1, <1>3, <1>4, <1>5, <1>6, StepType DEF ListPods

LEMMA WaitForIPType == TypeOK /\ WaitForIP => TypeOK'
BY WatchOK, StepType, TypeParts DEF WaitForIP

\* The next URL follows, whatever came of the last one.
LEMMA NextUrlOK ==
  ASSUME TypeOK, proc.pc = "probe", proc.at <= proc.urls
  PROVE  FrameOK(NextUrl, clash)
<1>1. proc \in Procs /\ FrameOK(proc, clash) /\ proc.urls \in Nat /\ proc.at \in Nat
  BY ProcIs
<1>2. proc.at + 1 \in 1 .. proc.urls + 1 /\ proc.at + 1 \in Nat
  BY <1>1
<1>3. NextUrl \in Procs /\ NextUrl.at = proc.at + 1 /\ NextUrl.pc = "probe"
  BY <1>1, <1>2 DEF NextUrl, Procs
<1>4. /\ NextUrl.pod = proc.pod /\ NextUrl.dps = proc.dps /\ NextUrl.got = proc.got
      /\ NextUrl.urls = proc.urls
  BY <1>1 DEF NextUrl, Procs
<1>5. QED
  BY <1>1, <1>2, <1>3, <1>4 DEF FrameOK

LEMMA ProbeType == TypeOK /\ Probe => TypeOK'
<1> SUFFICES ASSUME TypeOK, Probe PROVE TypeOK'
  OBVIOUS
<1>1. FrameOK(proc, clash)'
  BY NextUrlOK DEF Probe, FrameOK
<1>2. conns' \in 0 .. MaxConns
  BY TypeParts, SidecarAssumption DEF Probe
<1>3. logged' \in Nat
  BY ProcIs DEF Probe
<1>4. QED
  BY <1>1, <1>2, <1>3, TypeParts DEF Probe, world, TypeOK, FrameOK

LEMMA ProbeFailsType == TypeOK /\ ProbeFails => TypeOK'
<1> SUFFICES ASSUME TypeOK, ProbeFails PROVE TypeOK'
  OBVIOUS
<1>1. FrameOK(AfterError, clash)
  BY NextUrlOK DEF ProbeFails, AfterError
<1>2. faults' \in Nat
  BY TypeParts, FaultType DEF ProbeFails
<1>3. QED
  BY <1>1, <1>2, StepType, TypeParts DEF ProbeFails

LEMMA ProbeHangsType == TypeOK /\ ProbeHangs => TypeOK'
<1> SUFFICES ASSUME TypeOK, ProbeHangs PROVE TypeOK'
  OBVIOUS
<1> DEFINE q == [proc EXCEPT !.pc = "hung"]
<1>1. proc \in Procs /\ FrameOK(proc, clash) /\ proc.pc = "probe"
  BY ProcIs DEF ProbeHangs
<1>2. q \in Procs /\ q.pc = "hung" /\ q.pod = proc.pod /\ q.dps = proc.dps
  BY <1>1 DEF Procs
<1>3. q.got = proc.got /\ q.urls = proc.urls /\ q.at = proc.at
  BY <1>1 DEF Procs
<1> HIDE DEF q
<1>4. FrameOK(q, clash)
  BY <1>1, <1>2, <1>3 DEF FrameOK
<1>5. QED
  BY <1>4, FaultType, StepType, TypeParts DEF ProbeHangs, q

LEMMA SleepType == TypeOK /\ Sleep => TypeOK'
<1> SUFFICES ASSUME TypeOK, Sleep PROVE TypeOK'
  OBVIOUS
<1> DEFINE q == [proc EXCEPT !.at = 1]
<1>1. proc \in Procs /\ FrameOK(proc, clash) /\ proc.pc = "probe" /\ proc.urls \in Nat
  BY ProcIs DEF Sleep
<1>2. q \in Procs /\ q.pc = "probe" /\ q.pod = proc.pod /\ q.dps = proc.dps
  BY <1>1 DEF Procs
<1>3. q.got = proc.got /\ q.urls = proc.urls /\ q.at = 1
  BY <1>1 DEF Procs
<1> HIDE DEF q
<1>4. FrameOK(q, clash)
  BY <1>1, <1>2, <1>3 DEF FrameOK
<1>5. QED
  BY <1>4, StepType, TypeParts DEF Sleep, q

LEMMA RestartType == TypeOK /\ Restart => TypeOK'
<1> SUFFICES ASSUME TypeOK, Restart PROVE TypeOK'
  OBVIOUS
<1>1. FrameOK(proc, clash)'
  BY NewProcOK DEF Restart, FrameOK
<1>2. had' \in [Deployments -> SUBSET (Policies \cup {None})]
  BY TypeParts DEF Restart
<1>3. conns' \in 0 .. MaxConns /\ logged' \in Nat
  <2>1. conns' = 0 /\ logged' = 0 /\ MaxConns \in Nat
    BY SidecarAssumption DEF Restart
  <2>2. QED
    BY <2>1
<1>4. clash' \in BOOLEAN
  BY Zenon DEF Restart
<1>5. QED
  BY <1>1, <1>2, <1>3, <1>4, FaultType, TypeParts DEF Restart, world, TypeOK, FrameOK

LEMMA TypeInit == Init => TypeOK
<1> SUFFICES ASSUME Init PROVE TypeOK
  OBVIOUS
<1>1. FrameOK(proc, clash)
  BY NewProcOK DEF Init
<1>2. pods \in [Pods -> PodObjects]
  <2>1. PICK there \in BOOLEAN :
          pods = [p \in Pods |-> [here |-> p = Me \/ there, running |-> FALSE, ip |-> FALSE]]
    BY DEF Init
  <2>2. \A p \in Pods : (p = Me \/ there) \in BOOLEAN
    BY Zenon
  <2>3. \A here \in BOOLEAN : [here |-> here, running |-> FALSE, ip |-> FALSE] \in PodObjects
    BY DEF PodObjects
  <2>4. \A p \in Pods : [here |-> p = Me \/ there, running |-> FALSE, ip |-> FALSE] \in PodObjects
    BY <2>2, <2>3, Zenon
  <2>5. QED
    BY <2>1, <2>4
<1>3. conns \in 0 .. MaxConns
  BY SidecarAssumption DEF Init
<1>4. QED
  BY <1>1, <1>2, <1>3, TypeParts DEF Init

LEMMA TypeStep == TypeOK /\ [Next]_vars => TypeOK'
<1>1. TypeOK /\ UNCHANGED vars => TypeOK'
  BY DEF TypeOK, vars
<1>2. QED
  BY <1>1, ClusterType, StartType, GetPodType, ListDeploymentsType, ListPodsType, WaitForIPType,
     ProbeType, ProbeFailsType, ProbeHangsType, SleepType, RestartType DEF Next, Work

\* The variables keep their types; a process past its first call has a Pod, its
\* own one unless another of the same name came first, and one that checks
\* containers has all ports of that Pod before it (sidecar.go:90-204).
THEOREM SidecarTyping == Spec => []TypeOK
BY TypeInit, TypeStep, PTL DEF Spec

-----------------------------------------------------------------------------
(* The environment comes from an owner. *)

\* The Deployments of this Pod that have had a policy all the time.
Steady == {d \in Owners(Me) : None \notin had[d]}

\* What is true of an item of the list of the Deployments as long as it is left.
Listed(it, q) ==
  /\ Namespace[it.name] = Namespace[q.pod]
  /\ it.policy # None /\ it.policy \in had[it.name]

FromOwner(q) == q.env # None => \E d \in Owners(q.pod) : q.env \in had[d]

\* What EnvironmentFromOwner needs of the process q at each of its steps: while
\* it searches, the steady owners of the Pod are among the Deployments left.
EnvFrame(q, other) ==
  /\ q.pc = "start" => q.env = None
  /\ \A it \in q.dps : Listed(it, q)
  /\ FromOwner(q)
  /\ q.calm /\ ~other /\ q.pc = "pods" => \A d \in Steady : \E it \in q.dps : it.name = d
  /\ q.calm /\ ~other /\ q.pc \in {"ip", "probe", "hung"} /\ Steady # {} => q.env # None

EnvOK ==
  /\ EnvFrame(proc, clash)
  /\ \A d \in Deployments : policy[d] \in had[d]
  /\ pods[Me].here

LEMMA EnvKept ==
  ASSUME EnvOK, NEW q, Step(q), EnvFrame(q, clash')
  PROVE  EnvOK'
BY DEF EnvOK, EnvFrame, Step, world, Listed, FromOwner, Steady, Owners

\* A process that keeps its Pod and its environment, and does not search.
LEMMA EnvCarried ==
  ASSUME TypeOK, EnvOK, NEW q, q.pod = proc.pod, q.env = proc.env, q.calm = proc.calm,
         q.dps = {}, q.pc \in {"get", "deployments", "probe", "hung"},
         q.pc \in {"probe", "hung"} => proc.pc \in {"ip", "probe", "hung"}
  PROVE  EnvFrame(q, clash)
<1>1. EnvFrame(proc, clash)
  BY DEF EnvOK
<1>2. QED
  BY <1>1 DEF EnvFrame, FromOwner

\* The search that goes on with the Deployments left, or is over.
LEMMA EnvSearch ==
  ASSUME NEW q, FrameOK(q, clash), q.pc \in {"deployments", "pods"},
         NEW dps \in SUBSET Items,
         \A it \in dps : Listed(it, q),
         FromOwner(q),
         q.calm /\ ~clash /\ dps # {} => \A d \in Steady : \E it \in dps : it.name = d,
         q.calm /\ ~clash /\ dps = {} /\ Steady # {} => q.env # None
  PROVE  EnvFrame(SearchFrom(q, dps), clash)
<1> DEFINE s == SearchFrom(q, dps)
<1>1. /\ s.pod = q.pod /\ s.env = q.env /\ s.calm = q.calm /\ s.dps = dps
      /\ s.pc \in {"pods", "ip", "probe"} /\ (s.pc = "pods" <=> dps # {})
  BY SearchFromOK
<1> HIDE DEF s
<1>2. \A it \in s.dps : Listed(it, s)
  BY <1>1 DEF Listed
<1>3. FromOwner(s)
  BY <1>1 DEF FromOwner
<1>4. EnvFrame(s, clash)
  BY <1>1, <1>2, <1>3 DEF EnvFrame
<1>5. QED
  BY <1>4 DEF s

LEMMA EnvCluster == TypeOK /\ EnvOK /\ Cluster => EnvOK'
<1> SUFFICES ASSUME TypeOK, EnvOK, Cluster PROVE EnvOK'
  OBVIOUS
<1>1. UNCHANGED <<proc, clash>>
  BY DEF Cluster
<1>2. pods \in [Pods -> PodObjects] /\ Me \in Pods
  BY TypeParts, SidecarAssumption
<1>3. ASSUME NEW p \in Pods, Run(p) \/ OtherPod(p)
      PROVE  EnvOK'
  <2>1. UNCHANGED <<policy, had>>
    BY <1>3 DEF Run, OtherPod
  <2>2. pods[Me].here
    BY DEF EnvOK
  <2>3. ASSUME Run(p) PROVE pods'[Me].here
    <3>1. \/ pods' = [pods EXCEPT ![p] = [pods[p] EXCEPT !.running = TRUE]]
          \/ pods' = [pods EXCEPT ![p] = [pods[p] EXCEPT !.ip = TRUE]]
      BY <1>2, <2>3 DEF Run
    <3>2. pods[p] \in PodObjects
      BY <1>2
    <3>3. /\ [pods[p] EXCEPT !.running = TRUE].here = pods[p].here
          /\ [pods[p] EXCEPT !.ip = TRUE].here = pods[p].here
      BY <3>2 DEF PodObjects
    <3>4. CASE p = Me
      BY <1>2, <2>2, <3>1, <3>3, <3>4
    <3>5. CASE p # Me
      BY <1>2, <2>2, <3>1, <3>5
    <3>6. QED
      BY <3>4, <3>5
  <2>4. ASSUME OtherPod(p) PROVE pods'[Me].here
    BY <1>2, <2>2, <2>4 DEF OtherPod
  <2>5. pods'[Me].here
    BY <1>3, <2>3, <2>4
  <2>6. QED
    BY <1>1, <2>1, <2>5 DEF EnvOK, EnvFrame, Listed, FromOwner, Steady, Owners
<1>4. ASSUME NEW d \in Deployments, SetPolicy(d)
      PROVE  EnvOK'
  <2>1. PICK p \in Policies \cup {None} :
          /\ policy' = [policy EXCEPT ![d] = p]
          /\ had' = [had EXCEPT ![d] = @ \cup {p}]
    BY <1>4 DEF SetPolicy
  <2>2. /\ policy \in [Deployments -> Policies \cup {None}]
        /\ had \in [Deployments -> SUBSET (Policies \cup {None})]
        /\ \A e \in Deployments : policy[e] \in had[e]
    BY TypeParts DEF EnvOK
  <2>3. \A e \in Deployments : had[e] \subseteq had'[e] /\ policy'[e] \in had'[e]
    BY <2>1, <2>2
  <2>4. Steady' \subseteq Steady
    BY <2>3 DEF Steady, Owners
  <2>5. pods' = pods
    BY <1>4 DEF SetPolicy
  <2>6. EnvFrame(proc, clash)
    BY DEF EnvOK
  <2>7. \A it \in proc.dps : Listed(it, proc)'
    <3>1. \A it \in proc.dps : it.name \in Deployments
      BY ProcIs DEF Procs, Items
    <3>2. QED
      BY <1>1, <2>3, <2>6, <3>1 DEF EnvFrame, Listed
  <2>8. FromOwner(proc)'
    BY <1>1, <2>3, <2>6 DEF EnvFrame, FromOwner, Owners
  <2>9. EnvFrame(proc, clash)'
    BY <1>1, <2>4, <2>6, <2>7, <2>8 DEF EnvFrame
  <2>10. QED
    BY <2>3, <2>5, <2>9 DEF EnvOK
<1>5. QED
  BY <1>3, <1>4 DEF Cluster

LEMMA EnvStart == TypeOK /\ EnvOK /\ Start => EnvOK'
<1> SUFFICES ASSUME TypeOK, EnvOK, Start PROVE EnvOK'
  OBVIOUS
<1>1. PICK p \in Pods : Step([proc EXCEPT !.pc = "get", !.pod = p])
  BY DEF Start, First
<1> DEFINE q == [proc EXCEPT !.pc = "get", !.pod = p]
<1>2. proc \in Procs /\ proc.dps = {} /\ proc.env = None
  BY TypeParts DEF Start, FrameOK, EnvOK, EnvFrame
<1>3. q.pc = "get" /\ q.env = None /\ q.dps = {}
  BY <1>2 DEF Procs
<1>4. EnvFrame(q, clash')
  BY <1>3 DEF EnvFrame, FromOwner
<1>5. QED
  BY <1>1, <1>4, EnvKept

LEMMA EnvGetPod == TypeOK /\ EnvOK /\ GetPod => EnvOK'
<1> SUFFICES ASSUME TypeOK, EnvOK, GetPod PROVE EnvOK'
  OBVIOUS
<1> DEFINE q == [proc EXCEPT !.pc = "deployments", !.got = pods[proc.pod].ip]
<1>1. proc \in Procs /\ proc.dps = {} /\ proc.pc = "get"
  BY TypeParts DEF GetPod, FrameOK
<1>2. /\ q.pc = "deployments" /\ q.env = proc.env /\ q.dps = {}
      /\ q.pod = proc.pod /\ q.calm = proc.calm
  BY <1>1 DEF Procs
<1>3. EnvFrame(q, clash)
  BY <1>2, EnvCarried
<1>4. Step(q) /\ clash' = clash
  BY DEF GetPod
<1>5. QED
  BY <1>3, <1>4, EnvKept

LEMMA EnvListDeployments == TypeOK /\ EnvOK /\ ListDeployments => EnvOK'
<1> SUFFICES ASSUME TypeOK, EnvOK, ListDeployments PROVE EnvOK'
  OBVIOUS
<1> DEFINE all == {[name |-> d, policy |-> policy[d]] : d \in Annotated}
<1>1. /\ FrameOK(proc, clash) /\ proc.pc = "deployments" /\ clash' = clash /\ FromOwner(proc)
      /\ \A d \in Deployments : policy[d] \in had[d]
  BY TypeParts DEF ListDeployments, EnvOK, EnvFrame
<1>2. EnvFrame(SearchFrom(proc, all), clash)
  <2>1. \A it \in all : Listed(it, proc)
    BY <1>1 DEF Annotated, Listed
  <2>2. ~clash => \A d \in Steady : \E it \in all : it.name = d
    <3> SUFFICES ASSUME ~clash, NEW d \in Steady PROVE \E it \in all : it.name = d
      OBVIOUS
    <3>1. d \in Annotated
      BY <1>1 DEF Steady, Owners, Annotated, FrameOK
    <3>2. [name |-> d, policy |-> policy[d]] \in all
      BY <3>1
    <3>3. QED
      BY <3>2
  <2>3. all \in SUBSET Items
    BY ItemsType
  <2> HIDE DEF all
  <2>4. ~clash /\ all = {} => Steady = {}
    BY <2>2
  <2>5. QED
    BY <1>1, <2>1, <2>2, <2>3, <2>4, EnvSearch
<1>3. EnvFrame(SearchFrom(Disturbed, {}), clash)
  <2>1. FrameOK(Disturbed, clash) /\ Disturbed.pc = "deployments" /\ Disturbed.calm = FALSE
    BY <1>1, DisturbedOK
  <2>2. FromOwner(Disturbed)
    BY <1>1, DisturbedOK DEF FromOwner
  <2>3. QED
    BY <2>1, <2>2, EnvSearch
<1>4. QED
  BY <1>1, <1>2, <1>3, EnvKept DEF ListDeployments

LEMMA EnvListPods ==
  ASSUME TypeOK, EnvOK, NEW dp \in proc.dps, ListPods(dp)
  PROVE  EnvOK'
<1> DEFINE rest == proc.dps \ {dp}
           q == [proc EXCEPT !.env = dp.policy]
           found == pods[proc.pod].here /\ proc.pod \in Selects[dp.name]
<1>1. FrameOK(proc, clash) /\ proc.pc = "pods" /\ clash' = clash /\ EnvFrame(proc, clash)
  BY TypeParts DEF ListPods, EnvOK
<1>2. dp \in Items /\ rest \in SUBSET Items /\ Listed(dp, proc)
  BY <1>1, ProcIs DEF Procs, EnvFrame
<1>3. dp.name \in Deployments
  BY <1>2 DEF Items
<1>4. \/ found /\ Step(SearchFrom(q, {}))
      \/ ~found /\ Step(SearchFrom(proc, rest))
      \/ Step(SearchFrom(Disturbed, rest))
  BY DEF ListPods
<1>5. \A it \in rest : Listed(it, proc)
  BY <1>1 DEF EnvFrame
<1>6. ASSUME found PROVE EnvFrame(SearchFrom(q, {}), clash)
  <2>1. /\ FrameOK(q, clash) /\ q.pc = "pods" /\ q.env = dp.policy
        /\ q.pod = proc.pod /\ q.calm = proc.calm
    BY <1>1, <1>2, FoundOK
  <2> HIDE DEF q
  <2>2. dp.name \in Owners(q.pod) /\ q.env \in had[dp.name] /\ q.env # None
    BY <1>2, <1>3, <1>6, <2>1 DEF Owners, Listed
  <2>3. FromOwner(q)
    BY <2>2 DEF FromOwner
  <2>4. QED
    BY <2>1, <2>2, <2>3, EnvSearch
<1>7. ASSUME ~found PROVE EnvFrame(SearchFrom(proc, rest), clash)
  <2>1. ~clash => dp.name \notin Steady
    BY <1>1, <1>7 DEF Steady, Owners, EnvOK, FrameOK
  <2>2. proc.calm /\ ~clash => \A d \in Steady : \E it \in rest : it.name = d
    BY <1>1, <2>1 DEF EnvFrame
  <2> HIDE DEF rest
  <2>3. proc.calm /\ ~clash /\ rest = {} => Steady = {}
    BY <2>2
  <2>4. FromOwner(proc)
    BY <1>1 DEF EnvFrame
  <2>5. QED
    BY <1>1, <1>2, <1>5, <2>2, <2>3, <2>4, EnvSearch
<1>8. EnvFrame(SearchFrom(Disturbed, rest), clash)
  <2>1. /\ FrameOK(Disturbed, clash) /\ Disturbed.pc = "pods" /\ Disturbed.calm = FALSE
        /\ Disturbed.pod = proc.pod /\ Disturbed.env = proc.env
    BY <1>1, DisturbedOK
  <2>2. FromOwner(Disturbed)
    BY <1>1, <2>1 DEF FromOwner, EnvFrame
  <2>3. \A it \in rest : Listed(it, Disturbed)
    BY <1>5, <2>1 DEF Listed
  <2> HIDE DEF rest
  <2>4. QED
    BY <1>2, <2>1, <2>2, <2>3, EnvSearch
<1> HIDE DEF found, q, rest
<1>9. QED
  BY <1>1, <1>4, <1>6, <1>7, <1>8, EnvKept

LEMMA EnvWaitForIP == TypeOK /\ EnvOK /\ WaitForIP => EnvOK'
<1> SUFFICES ASSUME TypeOK, EnvOK, WaitForIP PROVE EnvOK'
  OBVIOUS
<1>1. Step(Watch(proc)) /\ clash' = clash /\ proc.pc = "ip"
  BY DEF WaitForIP
<1>2. EnvFrame(Watch(proc), clash)
  BY <1>1, WatchOK, EnvCarried
<1>3. QED
  BY <1>1, <1>2, EnvKept

\* A step among the checks.
LEMMA EnvChecking ==
  ASSUME TypeOK, EnvOK, NEW q, q \in {NextUrl, [proc EXCEPT !.pc = "hung"], [proc EXCEPT !.at = 1]},
         proc.pc = "probe"
  PROVE  EnvFrame(q, clash)
<1>1. proc \in Procs /\ proc.dps = {}
  BY TypeParts DEF FrameOK
<1>2. /\ q.pc \in {"probe", "hung"} /\ q.env = proc.env /\ q.dps = {}
      /\ q.pod = proc.pod /\ q.calm = proc.calm
  BY <1>1 DEF NextUrl, Procs
<1>3. QED
  BY <1>2, EnvCarried

LEMMA EnvProbe == TypeOK /\ EnvOK /\ Probe => EnvOK'
<1> SUFFICES ASSUME TypeOK, EnvOK, Probe PROVE EnvOK'
  OBVIOUS
<1>1. EnvFrame(NextUrl, clash)
  BY EnvChecking DEF Probe
<1> DEFINE q == NextUrl
<1>2. proc' = q /\ UNCHANGED <<pods, policy, had, clash>>
  BY DEF Probe, world
<1> HIDE DEF q
<1>3. QED
  BY <1>1, <1>2 DEF EnvOK, EnvFrame, Listed, FromOwner, Steady, Owners, q

LEMMA EnvProbing == TypeOK /\ EnvOK /\ (ProbeFails \/ ProbeHangs \/ Sleep) => EnvOK'
BY EnvChecking, EnvKept DEF ProbeFails, ProbeHangs, Sleep, AfterError

LEMMA EnvRestart == TypeOK /\ EnvOK /\ Restart => EnvOK'
<1> SUFFICES ASSUME TypeOK, EnvOK, Restart PROVE EnvOK'
  OBVIOUS
<1>1. proc' = NewProc /\ had' = [d \in Deployments |-> {policy[d]}] /\ UNCHANGED <<pods, policy>>
  BY DEF Restart, world
<1>2. EnvFrame(proc, clash)'
  BY <1>1 DEF EnvFrame, FromOwner, NewProc
<1>3. QED
  BY <1>1, <1>2 DEF EnvOK

LEMMA EnvInit == Init => EnvOK
<1> SUFFICES ASSUME Init PROVE EnvOK
  OBVIOUS
<1>1. EnvFrame(proc, clash)
  BY DEF Init, EnvFrame, FromOwner, NewProc
<1>2. pods[Me].here
  <2>1. PICK there \in BOOLEAN :
          pods = [p \in Pods |-> [here |-> p = Me \/ there, running |-> FALSE, ip |-> FALSE]]
    BY DEF Init
  <2>2. pods[Me] = [here |-> Me = Me \/ there, running |-> FALSE, ip |-> FALSE]
    BY <2>1, SidecarAssumption
  <2>3. pods[Me].here = (Me = Me \/ there)
    BY <2>2
  <2>4. QED
    BY <2>3, Zenon
<1>3. QED
  BY <1>1, <1>2 DEF EnvOK, Init

LEMMA EnvStep == TypeOK /\ EnvOK /\ [Next]_vars => EnvOK'
<1>1. EnvOK /\ UNCHANGED vars => EnvOK'
  BY DEF EnvOK, EnvFrame, Listed, FromOwner, Steady, Owners, vars
<1>2. QED
  BY <1>1, EnvCluster, EnvStart, EnvGetPod, EnvListDeployments, EnvListPods, EnvWaitForIP, EnvProbe,
     EnvProbing, EnvRestart DEF Next, Work

LEMMA EnvEnough == TypeOK /\ EnvOK => EnvironmentFromOwner
BY TypeParts DEF EnvOK, EnvFrame, FromOwner, Steady, EnvironmentFromOwner, FrameOK

\* The strengthening that is inductive together with the types: the steady
\* owners of the Pod are among the Deployments left to search, and every item
\* left has a policy that Deployment has had (sidecar.go:90-138).
THEOREM EnvironmentInvariant == Spec => []EnvOK
BY TypeInit, TypeStep, EnvInit, EnvStep, PTL DEF Spec

\* The environment of a process that has it comes from a Deployment that owns
\* the Pod, and is not left empty when an owner had one policy throughout, no
\* list failed and no other Pod of the name came first (sidecar.go:90-138).
THEOREM OwnerSetsEnvironment == Spec => []EnvironmentFromOwner
BY SidecarTyping, EnvironmentInvariant, EnvEnough, PTL

=============================================================================
