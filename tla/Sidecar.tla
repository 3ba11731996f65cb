------------------------------- MODULE Sidecar -------------------------------
(***************************************************************************)
(* The sidecar of one Pod (sidecar/sidecar.go): it looks up its own Pod    *)
(* and its Deployment's policy when it starts, waits until the Pod has an  *)
(* address, and then checks the Pod's containers for ever.  One step is    *)
(* one call, or one sleep.                                                 *)
(***************************************************************************)
EXTENDS Integers, Sequences, FiniteSets

CONSTANTS Pods,         \* the Pods that have the name of this one
          Me,           \* this one
          Position,     \* where Pods and Deployments come in a list
          Deployments,  \* the Deployments of all namespaces
          Namespace,    \* the namespace of each Pod and Deployment
          Selects,      \* the Pods each Deployment's selector matches
          Policies,     \* what the annotations may say
          Ports,        \* how many ports the containers of each Pod have
          Answering,    \* which of them answer
          MaxConns,     \* the connections a process may have open
          MaxPolicies,  \* bound: changes of policies
          MaxFaults,    \* bound: failed calls, restarts, hangs
          None          \* no value

ASSUME SidecarAssumption ==
  /\ Me \in Pods
  /\ Position \in [Pods \cup Deployments -> Nat]
  /\ Selects \in [Deployments -> SUBSET Pods]
  /\ Ports \in [Pods -> Nat]
  /\ MaxConns \in Nat /\ MaxPolicies \in Nat /\ MaxFaults \in Nat
  /\ None \notin Policies \cup Pods

VARIABLES pods,     \* the Pods in the API server
          policy,   \* the annotations of each Deployment
          proc,     \* the sidecar's process
          conns,    \* the connections it has open
          logged,   \* the port whose check the last step has logged, or 0
          had,      \* history: the policies each Deployment has had in this process's time
          clash,    \* history: the first Pod of that name was another one
          faults,   \* what has gone wrong so far
          changes   \* changes of policies so far

vars == <<pods, policy, proc, conns, logged, had, clash, faults, changes>>
world == <<pods, policy, changes>>

PodObjects == [here : BOOLEAN, running : BOOLEAN, ip : BOOLEAN]

\* dps.Items: an annotated Deployment as it was listed.
Items == [name : Deployments, policy : Policies]

Procs ==
  [pc   : {"start", "get", "deployments", "pods", "ip", "probe", "hung"},
   pod  : Pods \cup {None},       \* namespace: that of the first Pod of the name
   dps  : SUBSET Items,           \* dps.Items that are left
   env  : Policies \cup {None},   \* Action, GroupLabel, LogFrequency
   got  : BOOLEAN,                \* whether podIP is known
   urls : Nat,                    \* how many there are
   at   : Nat,                    \* the one that is next
   calm : BOOLEAN]                \* history: no list has failed

NewProc == [pc |-> "start", pod |-> None, dps |-> {}, env |-> None, got |-> FALSE,
            urls |-> 0, at |-> 1, calm |-> TRUE]

Init ==
  /\ pods \in {[p \in Pods |-> [here |-> p = Me \/ there, running |-> FALSE, ip |-> FALSE]] :
                 there \in BOOLEAN}
  /\ policy \in [Deployments -> Policies \cup {None}]
  /\ proc = NewProc
  /\ conns = 0
  /\ logged = 0
  /\ had = [d \in Deployments |-> {policy[d]}]
  /\ clash = FALSE
  /\ faults = 0
  /\ changes = 0

First(S) == {x \in S : \A y \in S : Position[x] <= Position[y]}

-----------------------------------------------------------------------------
(* The cluster. *)

Run(p) ==
  /\ pods[p].here
  /\ \/ ~pods[p].running /\ pods' = [pods EXCEPT ![p].running = TRUE]
     \/ ~pods[p].ip /\ pods' = [pods EXCEPT ![p].ip = TRUE]
  /\ UNCHANGED <<policy, had, changes>>

\* Another Pod of this name comes or goes.
OtherPod(p) ==
  /\ p # Me
  /\ pods' = [pods EXCEPT ![p] = [here |-> ~@.here, running |-> FALSE, ip |-> FALSE]]
  /\ UNCHANGED <<policy, had, changes>>

\* The controller puts a policy on, or takes it off.
SetPolicy(d) ==
  /\ changes < MaxPolicies /\ changes' = changes + 1
  /\ \E p \in Policies \cup {None} :
       /\ p # policy[d]
       /\ policy' = [policy EXCEPT ![d] = p]
       /\ had' = [had EXCEPT ![d] = @ \cup {p}]
  /\ UNCHANGED pods

Cluster ==
  /\ \/ \E p \in Pods : Run(p) \/ OtherPod(p)
     \/ \E d \in Deployments : SetPolicy(d)
  /\ logged' = 0
  /\ UNCHANGED <<proc, conns, clash, faults>>

-----------------------------------------------------------------------------
(* The sidecar. *)

Step(next) ==
  /\ proc' = next
  /\ logged' = 0
  /\ UNCHANGED <<world, conns, had>>

Fault == faults < MaxFaults /\ faults' = faults + 1

\* The Pods of all namespaces are listed, and the first that has the name of
\* the host says what the namespace is, for as long as the process lives.
Start ==
  /\ proc.pc = "start"
  /\ \E p \in First({q \in Pods : pods[q].here}) :
       /\ Step([proc EXCEPT !.pc = "get", !.pod = p])
       /\ clash' = (p # Me)
  /\ UNCHANGED faults

\* A Pod that is not running, not there, or not got is asked for again.
GetPod ==
  /\ proc.pc = "get"
  /\ pods[proc.pod].here /\ pods[proc.pod].running
  /\ Step([proc EXCEPT !.pc = "deployments", !.got = pods[proc.pod].ip])
  /\ UNCHANGED <<clash, faults>>

\* Mutant: one URL too many.
WatchMore(frame) == [frame EXCEPT !.pc = "probe", !.got = TRUE, !.urls = Ports[frame.pod] + 1]

\* Every port of every other container makes a URL.
Watch(frame) == [frame EXCEPT !.pc = "probe", !.got = TRUE, !.urls = Ports[frame.pod]]

\* The next Deployment is searched, or the environment is as it will be.
SearchFrom(frame, dps) ==
  IF dps # {} THEN [frame EXCEPT !.dps = dps, !.pc = "pods"]
  ELSE IF frame.got THEN Watch([frame EXCEPT !.dps = {}])
  ELSE [frame EXCEPT !.dps = {}, !.pc = "ip"]

Disturbed == [proc EXCEPT !.calm = FALSE]

\* Mutant: the Deployments of all namespaces are listed.
AnnotatedAnywhere == {d \in Deployments : policy[d] # None}

Annotated ==
  {d \in Deployments : policy[d] # None /\ Namespace[d] = Namespace[proc.pod]}

\* The Deployments of the namespace that are annotated.  After an error the
\* list is empty.
ListDeployments ==
  /\ proc.pc = "deployments"
  /\ \/ /\ Step(SearchFrom(proc, {[name |-> d, policy |-> policy[d]] : d \in Annotated}))
        /\ UNCHANGED faults
     \/ Step(SearchFrom(Disturbed, {})) /\ Fault
  /\ UNCHANGED clash

\* The first Deployment that has the Pod sets the environment.
ListPods(dp) ==
  /\ proc.pc = "pods"
  /\ dp.name \in First({other.name : other \in proc.dps})
  /\ LET found == pods[proc.pod].here /\ proc.pod \in Selects[dp.name]
     IN \/ found /\ Step(SearchFrom([proc EXCEPT !.env = dp.policy], {})) /\ UNCHANGED faults
        \/ ~found /\ Step(SearchFrom(proc, proc.dps \ {dp})) /\ UNCHANGED faults
        \/ Step(SearchFrom(Disturbed, proc.dps \ {dp})) /\ Fault
  /\ UNCHANGED clash

WaitForIP ==
  /\ proc.pc = "ip"
  /\ pods[proc.pod].here /\ pods[proc.pod].ip
  /\ Step(Watch(proc))
  /\ UNCHANGED <<clash, faults>>

NextUrl == [proc EXCEPT !.at = @ + 1]

\* http.Get, and addLogData if there is a response.  Its body is never closed:
\* unless it is empty, the connection stays open.
Probe ==
  /\ proc.pc = "probe" /\ proc.at <= proc.urls
  /\ pods[proc.pod].here /\ proc.at \in Answering[proc.pod] /\ conns < MaxConns
  /\ conns' \in {conns, conns + 1}
  /\ logged' = proc.at
  /\ proc' = NextUrl
  /\ UNCHANGED <<world, had, clash, faults>>

\* Mutant: the loop is left after an error.
AfterErrorBreak == [proc EXCEPT !.at = proc.urls + 1]

AfterError == NextUrl

\* An error is logged.
ProbeFails ==
  /\ proc.pc = "probe" /\ proc.at <= proc.urls
  /\ \/ Fault
     \/ /\ ~pods[proc.pod].here \/ proc.at \notin Answering[proc.pod] \/ conns = MaxConns
        /\ UNCHANGED faults
  /\ Step(AfterError)
  /\ UNCHANGED clash

\* The container takes the connection and never answers; there is no timeout.
ProbeHangs ==
  /\ proc.pc = "probe" /\ proc.at <= proc.urls /\ Fault
  /\ Step([proc EXCEPT !.pc = "hung"])
  /\ UNCHANGED clash

\* After the sleep of LogFrequency the round begins again.
Sleep ==
  /\ proc.pc = "probe" /\ proc.at > proc.urls
  /\ Step([proc EXCEPT !.at = 1])
  /\ UNCHANGED <<clash, faults>>

\* The process ends, after an error of its first call at the latest, and is
\* restarted.
Restart ==
  /\ proc' = NewProc /\ conns' = 0 /\ logged' = 0
  /\ had' = [d \in Deployments |-> {policy[d]}]
  /\ clash' = FALSE
  /\ Fault
  /\ UNCHANGED world

Work ==
  \/ Start \/ GetPod \/ ListDeployments \/ WaitForIP \/ Probe \/ ProbeFails \/ Sleep
  \/ \E dp \in proc.dps : ListPods(dp)

Next == Cluster \/ Work \/ ProbeHangs \/ Restart

Spec == Init /\ [][Next]_vars

\* The process is scheduled, its calls are answered in the end, and its Pod
\* gets to run and is given an address.
FairSpec == Spec /\ WF_vars(Work) /\ WF_vars(Cluster /\ Run(Me))

-----------------------------------------------------------------------------
(* Properties. *)

\* The types of the variables; a process past its first call has a Pod, and
\* one that checks containers has all of that Pod's ports before it.
TypeOK ==
  /\ pods \in [Pods -> PodObjects]
  /\ policy \in [Deployments -> Policies \cup {None}]
  /\ proc \in Procs
  /\ conns \in 0 .. MaxConns
  /\ logged \in Nat
  /\ had \in [Deployments -> SUBSET (Policies \cup {None})]
  /\ clash \in BOOLEAN
  /\ faults \in Nat /\ changes \in Nat
  /\ proc.pc # "start" <=> proc.pod # None
  /\ proc.pc = "pods" <=> proc.dps # {}
  /\ proc.pc \in {"probe", "hung"} =>
       proc.got /\ proc.urls = Ports[proc.pod] /\ proc.at \in 1 .. proc.urls + 1
  /\ proc.pc \notin {"probe", "hung"} => proc.at = 1
  /\ (proc.pc # "start" /\ ~clash) => proc.pod = Me

\* The Deployments of the namespace whose selector matches Pod p.
Owners(p) == {d \in Deployments : Namespace[d] = Namespace[p] /\ p \in Selects[d]}

\* What the environment says was a policy of one of the Pod's own Deployments
\* at one moment since the process began; and if one of them has had the same
\* policy all the time and no list failed, the environment is not left empty
\* (sidecar.go:90-138, 162-204).
EnvironmentFromOwner ==
  proc.pc \in {"ip", "probe", "hung"} =>
    /\ proc.env # None => \E d \in Owners(proc.pod) : proc.env \in had[d]
    /\ proc.calm /\ (\E d \in Owners(Me) : None \notin had[d]) /\ ~clash
         => proc.env # None

\* A port that answers is checked and logged again and again; unless another
\* Pod of the same name came first in the list when the process began, a
\* container never answers a request, or the connections that are never closed
\* have used up all the process may have (sidecar.go:162-204, 257-273).
ChecksGoOn ==
  \A i \in 1 .. Ports[Me] : i \in Answering[Me] =>
    \/ []<>(logged = i)
    \/ <>[](clash \/ proc.pc = "hung" \/ conns = MaxConns)
=============================================================================
