------------------------------ MODULE Collector ------------------------------
(***************************************************************************)
(* The log collector (logger/collector/collector.go).  In every round it   *)
(* lists the Pods, gets from each sidecar what it has printed in the last  *)
(* LogDuration seconds, appends that to its file in one write, and sleeps  *)
(* for LogDuration seconds.  The clock ticks between any two calls, so a   *)
(* round may take its time.  A line is printed at a tick, and calls come   *)
(* between ticks; lines of types other than liveness-check are left out,   *)
(* and so are Pods without the status annotation.                          *)
(***************************************************************************)
EXTENDS LogFile, SequencesExt, FiniteSets, Integers

CONSTANTS Pods,         \* the Pods with a sidecar
          Position,     \* their places in what the API server lists
          LogDuration,  \* of the window, and of the sleep
          MaxClock,     \* bound: ticks
          MaxLines,     \* bound: the lines of a Pod
          MaxFaults,    \* bound: failed calls and writes, and restarts
          None          \* no value

ASSUME CollectorAssumption ==
  /\ IsFiniteSet(Pods)
  /\ Position \in [Pods -> Nat]
  /\ LogDuration \in Nat \ {0}
  /\ MaxClock \in Nat /\ MaxLines \in Nat /\ MaxFaults \in Nat
  /\ None \notin Nat

VARIABLES clock,
          life,     \* whether each Pod is not yet, is, or is no longer there
          printed,  \* the lines the sidecar of each Pod has printed, in order
          missing,  \* the file is not there
          proc,     \* the collector's process
          since,    \* history: from when on each Pod's lines have been read ...
          last,     \* history: ... without a gap, up to its last read
          faults    \* what has gone wrong so far

vars == <<log, end, clock, life, printed, missing, proc, since, last, faults>>
history == <<since, last>>
world == <<clock, life, printed>>

\* A line names the Pod and the time it was printed.
Lines == [pod : Pods, at : Nat]

\* An entry is what processLine and addToLog make of a line, or of the beginning
\* of one, which lacks the url; and, as history, which of the collector's
\* processes has read it.
LogEntries == [pod : Pods, at : Nat, whole : BOOLEAN, run : Nat]

Procs ==
  [pc    : {"start", "list", "read", "write", "sleep"},
   first : BOOLEAN,           \* fileExistsBool = 0
   todo  : Seq(Pods),         \* pods.Items that are left
   logs  : Seq(LogEntries),   \* what is still to be written
   wake  : Nat,               \* the end of the sleep
   run   : Nat]               \* history: the number of the process

NewProc(run) ==
  [pc |-> "start", first |-> FALSE, todo |-> <<>>, logs |-> <<>>, wake |-> 0, run |-> run]

Init ==
  /\ LogInit
  /\ clock = 0
  /\ life \in [Pods -> {"unborn", "here"}]
  /\ printed = [p \in Pods |-> <<>>]
  /\ missing = TRUE
  /\ proc = NewProc(1)
  /\ since = [p \in Pods |-> 0]
  /\ last = [p \in Pods |-> None]
  /\ faults = 0

-----------------------------------------------------------------------------
(* The cluster. *)

Tick ==
  /\ clock < MaxClock
  /\ clock' = clock + 1
  /\ UNCHANGED <<life, printed>>

\* The sidecar logs a liveness check (addLogData, sidecar.go).
LogLine(p) ==
  /\ life[p] = "here" /\ clock < MaxClock /\ Len(printed[p]) < MaxLines
  /\ clock' = clock + 1
  /\ printed' = [printed EXCEPT ![p] = Append(@, [pod |-> p, at |-> clock + 1])]
  /\ UNCHANGED life

StartPod(p) ==
  /\ life[p] = "unborn"
  /\ life' = [life EXCEPT ![p] = "here"]
  /\ UNCHANGED <<clock, printed>>

EndPod(p) ==
  /\ life[p] = "here"
  /\ life' = [life EXCEPT ![p] = "gone"]
  /\ UNCHANGED <<clock, printed>>

World ==
  /\ Tick \/ \E p \in Pods : LogLine(p) \/ StartPod(p) \/ EndPod(p)
  /\ UNCHANGED <<log, end, missing, proc, history, faults>>

-----------------------------------------------------------------------------
(* The collector. *)

Fault == faults < MaxFaults /\ faults' = faults + 1

\* What has been read and not been written is lost, and with it the claim to
\* have everything.
Forget == last' = [p \in Pods |-> None] /\ UNCHANGED since

\* Mutant: the file is truncated.
StartAfresh ==
  /\ proc.pc = "start"
  /\ proc' = [proc EXCEPT !.pc = "list", !.first = missing]
  /\ missing' = FALSE /\ log' = <<>>
  /\ UNCHANGED <<end, world, history, faults>>

\* main: the file is created unless it is there.
Start ==
  /\ proc.pc = "start"
  /\ proc' = [proc EXCEPT !.pc = "list", !.first = missing]
  /\ missing' = FALSE
  /\ UNCHANGED <<log, end, world, history, faults>>

\* The process ends, in the middle of a write at worst, and is restarted.
Restart ==
  /\ proc' = NewProc(proc.run + 1) /\ Fault
  /\ TearEntry \/ (end # "half" /\ UNCHANGED <<log, end>>)
  /\ Forget
  /\ UNCHANGED <<world, missing>>

\* The next Pod is read, or the round is written.
ReadFrom(todo, logs) ==
  [proc EXCEPT !.pc = IF todo = <<>> THEN "write" ELSE "read",
               !.todo = todo, !.logs = logs]

\* A call that fails ends the process, which is Restart.
ListPods ==
  /\ proc.pc = "list"
  /\ \E todo \in SetToSeqs({p \in Pods : life[p] = "here"}) :
       /\ \A i, j \in DOMAIN todo : i < j => Position[todo[i]] <= Position[todo[j]]
       /\ proc' = ReadFrom(todo, <<>>)
  /\ UNCHANGED <<log, end, world, missing, history, faults>>

\* Mutants: the window is longer, or shorter, than the sleep.
AfterMore == IF proc.first THEN 0 ELSE clock - LogDuration - 1
AfterLess == IF proc.first THEN 0 ELSE clock - LogDuration + 1

\* The time after which lines are asked for: those of the window, or all.
After == IF proc.first THEN 0 ELSE clock - LogDuration

\* processLine and addToLog: the entry has the Pod and the time of the text.
Entry(line, whole) == [pod |-> line.pod, at |-> line.at, whole |-> whole, run |-> proc.run]

\* Of Pod p's lines the n that come after the first ones.
LinesOf(p, from, n) == [i \in 1 .. n |-> Entry(printed[p][from + i], TRUE)]

\* from lines are older than that.
Older(p, from) ==
  /\ \A i \in 1 .. from : printed[p][i].at <= After
  /\ \A i \in from + 1 .. Len(printed[p]) : printed[p][i].at > After

ReadNext(lines) ==
  [ReadFrom(Tail(proc.todo), proc.logs \o lines) EXCEPT !.first = FALSE]

\* All lines asked for are read.  The claim to have everything begins anew if
\* more time than the window has passed since the last time.
ReadLogs(p) ==
  /\ proc.pc = "read" /\ p = Head(proc.todo)
  /\ life[p] = "here"
  /\ \E from \in 0 .. Len(printed[p]) :
       /\ Older(p, from)
       /\ proc' = ReadNext(LinesOf(p, from, Len(printed[p]) - from))
  /\ last' = [last EXCEPT ![p] = clock]
  /\ since' = IF last[p] # None /\ clock <= last[p] + LogDuration THEN since
              ELSE [since EXCEPT ![p] = IF After > 0 THEN After ELSE 0]
  /\ UNCHANGED <<log, end, world, missing, faults>>

\* The request fails, or the stream breaks off, which goes unnoticed: at the end
\* of a line or before its type is complete, or else before its url.
ReadFails(p) ==
  /\ proc.pc = "read" /\ p = Head(proc.todo)
  /\ \/ life[p] # "here" /\ proc' = ReadNext(<<>>) /\ UNCHANGED faults
     \/ /\ Fault
        /\ \E from \in 0 .. Len(printed[p]) : \E n \in 0 .. Len(printed[p]) - from :
             /\ Older(p, from)
             /\ \/ proc' = ReadNext(LinesOf(p, from, n))
                \/ /\ from + n < Len(printed[p])
                   /\ proc' = ReadNext(Append(LinesOf(p, from, n),
                                              Entry(printed[p][from + n + 1], FALSE)))
  /\ last' = [last EXCEPT ![p] = None]
  /\ UNCHANGED <<log, end, world, missing, since>>

\* It breaks off within a quoted value or before any value, and processLine ends
\* the process.
ReadPanics(p) ==
  /\ proc.pc = "read" /\ p = Head(proc.todo)
  /\ \E i \in 1 .. Len(printed[p]) : printed[p][i].at > After
  /\ proc' = NewProc(proc.run + 1) /\ Fault
  /\ Forget
  /\ UNCHANGED <<log, end, world, missing>>

\* Mutant: the entries are kept for the next round.
GoToSleepKeeping == [proc EXCEPT !.pc = "sleep", !.wake = clock + LogDuration]

\* The round is over.
GoToSleep ==
  [proc EXCEPT !.pc = "sleep", !.logs = <<>>, !.wake = clock + LogDuration]

\* One entry after the other comes to be in the file.
WriteLogs ==
  /\ proc.pc = "write" /\ proc.logs # <<>>
  /\ \/ BeginEntry /\ UNCHANGED proc
     \/ EndEntry(Head(proc.logs)) /\ proc' = [proc EXCEPT !.logs = Tail(@)]
  /\ UNCHANGED <<world, missing, history, faults>>

\* All is written, or what is written can no longer be read.
Written ==
  /\ proc.pc = "write" /\ (proc.logs = <<>> \/ end = "torn")
  /\ proc' = GoToSleep
  /\ UNCHANGED <<log, end, world, missing, history, faults>>

\* An error is logged, and the round counts as written.
WriteFails ==
  /\ proc.pc = "write" /\ proc.logs # <<>> /\ Fault
  /\ TearEntry \/ (end = "whole" /\ UNCHANGED <<log, end>>)
  /\ proc' = GoToSleep
  /\ Forget
  /\ UNCHANGED <<world, missing>>

WakeUp ==
  /\ proc.pc = "sleep" /\ clock >= proc.wake
  /\ proc' = [proc EXCEPT !.pc = "list"]
  /\ UNCHANGED <<log, end, world, missing, history, faults>>

Collect ==
  \/ Start \/ ListPods \/ WriteLogs \/ Written \/ WriteFails \/ WakeUp \/ Restart
  \/ \E p \in Pods : ReadLogs(p) \/ ReadFails(p) \/ ReadPanics(p)

Next == World \/ Collect

Spec == Init /\ [][Next]_vars

-----------------------------------------------------------------------------
(* Properties. *)

\* All entries that were read and not lost: those in the file, and those that
\* are to be written.
Kept == log \o proc.logs

\* The types of the variables; an entry is half written only during a write
\* that has entries left.
TypeOK ==
  /\ log \in Seq(LogEntries) /\ end \in {"whole", "half", "torn"}
  /\ clock \in Nat
  /\ life \in [Pods -> {"unborn", "here", "gone"}]
  /\ printed \in [Pods -> Seq(Lines)]
  /\ missing \in BOOLEAN
  /\ proc \in Procs
  /\ since \in [Pods -> Nat]
  /\ last \in [Pods -> Nat \cup {None}]
  /\ faults \in Nat
  /\ end = "half" => proc.pc = "write" /\ proc.logs # <<>>
  /\ proc.pc = "read" <=> proc.todo # <<>>
  /\ proc.pc \notin {"read", "write"} => proc.logs = <<>>

\* Neither the overlap of two windows nor the first full read brings an entry
\* twice: however long a round takes, what one process has read of a Pod is in
\* the file once and in the order it was printed.  So after k restarts an
\* entry is there k + 1 times at most (collector.go:216-284).
InOrderOnce ==
  \A i, j \in 1 .. Len(Kept) :
    i < j /\ Kept[i].pod = Kept[j].pod /\ Kept[i].run = Kept[j].run
      => Kept[i].at < Kept[j].at

\* Nothing is lost as long as a Pod is read every LogDuration seconds and no
\* call fails: every line from the first window on, and from the beginning for
\* the first Pod of a new file, up to the last read is whole in the file or about
\* to be written (collector.go:230-258, 278).
Collected ==
  end # "torn" => \A p \in Pods : last[p] # None =>
    \A line \in ToSet(printed[p]) :
      since[p] < line.at /\ line.at <= last[p] =>
        \E i \in 1 .. Len(Kept) :
          Kept[i].pod = line.pod /\ Kept[i].at = line.at /\ Kept[i].whole

\* The collector writes the file as the endpoint and the sender take it to be
\* written, through failed writes and restarts: one whole entry after the other
\* comes to be at its end, and nothing more once one is torn (collector.go:207,
\* 278).
ImplementsFile == FileSpec
=============================================================================
