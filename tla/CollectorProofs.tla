---------------------------- MODULE CollectorProofs ----------------------------
(***************************************************************************)
(* Theorems about the log collector, for any number of Pods, any window,   *)
(* and every bound on the clock and on what goes wrong.                    *)
(***************************************************************************)
EXTENDS Collector, SequenceTheorems, FiniteSetTheorems, TLAPS

-----------------------------------------------------------------------------
(* Sequences. *)

\* A function on the first n numbers is a sequence.
LEMMA FunctionIsSeq ==
  ASSUME NEW S, NEW n \in Nat, NEW f \in [1 .. n -> S]
  PROVE  f \in Seq(S) /\ Len(f) = n
OBVIOUS

\* Moving an entry from what is to be written to the file.
LEMMA MoveHead ==
  ASSUME NEW S, NEW s \in Seq(S), NEW t \in Seq(S), t # <<>>
  PROVE  Append(s, Head(t)) \o Tail(t) = s \o t
<1> DEFINE l == Append(s, Head(t)) \o Tail(t)
           r == s \o t
<1>1. /\ Head(t) \in S /\ Tail(t) \in Seq(S) /\ Len(Tail(t)) = Len(t) - 1
      /\ \A i \in 1 .. Len(Tail(t)) : Tail(t)[i] = t[i + 1]
  BY HeadTailProperties
<1>2. /\ Append(s, Head(t)) \in Seq(S) /\ Len(Append(s, Head(t))) = Len(s) + 1
      /\ \A i \in 1 .. Len(s) : Append(s, Head(t))[i] = s[i]
      /\ Append(s, Head(t))[Len(s) + 1] = Head(t)
  BY <1>1, AppendProperties
<1>3. Len(s) \in Nat /\ Len(t) \in Nat \ {0} /\ Head(t) = t[1]
  BY LenProperties, EmptySeq
<1>4. /\ l \in Seq(S) /\ Len(l) = Len(s) + Len(t)
      /\ \A i \in 1 .. Len(s) + Len(t) :
           l[i] = IF i <= Len(s) + 1 THEN Append(s, Head(t))[i] ELSE Tail(t)[i - (Len(s) + 1)]
  <2>1. /\ l \in Seq(S) /\ Len(l) = Len(Append(s, Head(t))) + Len(Tail(t))
        /\ \A i \in 1 .. Len(Append(s, Head(t))) + Len(Tail(t)) :
             l[i] = IF i <= Len(Append(s, Head(t))) THEN Append(s, Head(t))[i]
                    ELSE Tail(t)[i - Len(Append(s, Head(t)))]
    BY <1>1, <1>2, ConcatProperties
  <2>2. Len(Append(s, Head(t))) + Len(Tail(t)) = Len(s) + Len(t)
    BY <1>1, <1>2, <1>3
  <2>3. QED
    BY <1>2, <2>1, <2>2
<1>5. /\ r \in Seq(S) /\ Len(r) = Len(s) + Len(t)
      /\ \A i \in 1 .. Len(s) + Len(t) : r[i] = IF i <= Len(s) THEN s[i] ELSE t[i - Len(s)]
  BY ConcatProperties
<1>6. ASSUME NEW i \in 1 .. Len(s) + Len(t) PROVE l[i] = r[i]
  <2>1. CASE i <= Len(s)
    BY <1>2, <1>3, <1>4, <1>5, <2>1
  <2>2. CASE i = Len(s) + 1
    BY <1>2, <1>3, <1>4, <1>5, <2>2
  <2>3. CASE i > Len(s) + 1
    <3>1. i - (Len(s) + 1) \in 1 .. Len(Tail(t)) /\ (i - (Len(s) + 1)) + 1 = i - Len(s)
      BY <1>1, <1>3, <2>3
    <3>2. Tail(t)[i - (Len(s) + 1)] = t[i - Len(s)]
      BY <1>1, <3>1
    <3>3. QED
      BY <1>3, <1>4, <1>5, <2>3, <3>2
  <2>4. QED
    BY <1>3, <2>1, <2>2, <2>3
<1> HIDE DEF l, r
<1>7. l = r
  BY <1>4, <1>5, <1>6, SeqEqual
<1>8. QED
  BY <1>7 DEF l, r

\* What SetToSeqs makes of a finite set.
LEMMA SetToSeqsIs ==
  ASSUME NEW S, NEW T \in SUBSET S, IsFiniteSet(T), NEW s \in SetToSeqs(T)
  PROVE  /\ s \in Seq(S)
         /\ \A i, j \in 1 .. Len(s) : i # j => s[i] # s[j]
<1>1. Cardinality(T) \in Nat
  BY FS_CardinalityType
<1>2. s \in [1 .. Cardinality(T) -> T] /\ \A i, j \in 1 .. Cardinality(T) : i # j => s[i] # s[j]
  BY DEF SetToSeqs
<1>3. s \in [1 .. Cardinality(T) -> S]
  BY <1>2
<1>4. s \in Seq(S) /\ Len(s) = Cardinality(T)
  BY <1>1, <1>3, FunctionIsSeq
<1>5. QED
  BY <1>2, <1>4
-----------------------------------------------------------------------------
(* Type correctness. *)

LEMMA LogDurationType == LogDuration \in Nat \ {0}
BY CollectorAssumption

\* What TypeOK says of the process.
ProcOK(q) ==
  /\ q \in Procs
  /\ q.pc = "read" <=> q.todo # <<>>
  /\ q.pc \notin {"read", "write"} => q.logs = <<>>

\* ... and of an entry that is being written.
HalfOK(e, q) == e = "half" => q.pc = "write" /\ q.logs # <<>>

LEMMA TypeParts ==
  TypeOK <=> /\ log \in Seq(LogEntries) /\ end \in {"whole", "half", "torn"}
             /\ clock \in Nat
             /\ life \in [Pods -> {"unborn", "here", "gone"}]
             /\ printed \in [Pods -> Seq(Lines)]
             /\ missing \in BOOLEAN
             /\ ProcOK(proc)
             /\ since \in [Pods -> Nat]
             /\ last \in [Pods -> Nat \cup {None}]
             /\ faults \in Nat
             /\ HalfOK(end, proc)
BY DEF TypeOK, ProcOK, HalfOK

LEMMA FaultType == TypeOK /\ Fault => faults' \in Nat
BY DEF TypeOK, Fault

LEMMA NewProcOK == \A run \in Nat : ProcOK(NewProc(run)) /\ NewProc(run).pc = "start"
BY EmptySeq DEF NewProc, ProcOK, Procs

LEMMA ReadFromOK ==
  ASSUME TypeOK, NEW todo \in Seq(Pods), NEW logs \in Seq(LogEntries)
  PROVE  /\ ProcOK(ReadFrom(todo, logs))
         /\ ReadFrom(todo, logs).todo = todo /\ ReadFrom(todo, logs).logs = logs
         /\ ReadFrom(todo, logs).run = proc.run /\ ReadFrom(todo, logs).first = proc.first
         /\ ReadFrom(todo, logs).pc \in {"read", "write"}
<1> DEFINE f(pc) == [proc EXCEPT !.pc = pc, !.todo = todo, !.logs = logs]
<1>1. proc \in Procs
  BY TypeParts DEF ProcOK
<1>2. ASSUME NEW pc \in {"write", "read"}
      PROVE  /\ f(pc) \in Procs
             /\ f(pc).pc = pc /\ f(pc).todo = todo /\ f(pc).logs = logs
             /\ f(pc).run = proc.run /\ f(pc).first = proc.first
  BY <1>1 DEF Procs
<1>3. CASE todo = <<>>
  <2>1. ReadFrom(todo, logs) = f("write")
    BY <1>3 DEF ReadFrom
  <2>2. QED
    BY <1>2, <1>3, <2>1 DEF ProcOK
<1>4. CASE todo # <<>>
  <2>1. ReadFrom(todo, logs) = f("read")
    BY <1>4 DEF ReadFrom
  <2>2. QED
    BY <1>2, <1>4, <2>1 DEF ProcOK
<1>5. QED
  BY <1>3, <1>4

LEMMA ReadFromNothing ==
  ASSUME TypeOK, NEW todo \in Seq(Pods)
  PROVE  LET r == ReadFrom(todo, <<>>)
         IN /\ ProcOK(r) /\ r.todo = todo /\ r.logs = <<>> /\ r.run = proc.run
            /\ r.first = proc.first /\ r.pc \in {"read", "write"}
<1>1. <<>> \in Seq(LogEntries)
  BY EmptySeq
<1>2. QED
  BY <1>1, ReadFromOK

\* Entries of the n lines of Pod p that come after the first ones.
IsRead(p, from, n, lines) ==
  /\ lines \in Seq(LogEntries) /\ Len(lines) = n
  /\ \A i \in 1 .. n : /\ from + i \in 1 .. Len(printed[p])
                       /\ lines[i].pod = printed[p][from + i].pod
                       /\ lines[i].at = printed[p][from + i].at
                       /\ lines[i].run = proc.run

LEMMA PrintedType ==
  ASSUME TypeOK, NEW p \in Pods
  PROVE  /\ printed[p] \in Seq(Lines) /\ Len(printed[p]) \in Nat
         /\ \A i \in 1 .. Len(printed[p]) : /\ printed[p][i] \in Lines
                                            /\ printed[p][i].pod \in Pods
                                            /\ printed[p][i].at \in Nat
<1>1. printed[p] \in Seq(Lines)
  BY TypeParts
<1>2. \A i \in 1 .. Len(printed[p]) : printed[p][i] \in Lines
  BY <1>1, ElementOfSeq
<1>3. QED
  BY <1>1, <1>2, LenProperties DEF Lines

LEMMA EntryType ==
  ASSUME TypeOK, NEW line \in Lines, NEW whole \in BOOLEAN
  PROVE  /\ Entry(line, whole) \in LogEntries
         /\ Entry(line, whole).pod = line.pod /\ Entry(line, whole).at = line.at
         /\ Entry(line, whole).whole = whole /\ Entry(line, whole).run = proc.run
<1>1. proc.run \in Nat
  BY TypeParts DEF ProcOK, Procs
<1>2. line.pod \in Pods /\ line.at \in Nat
  BY DEF Lines
<1>3. QED
  BY <1>1, <1>2 DEF Entry, LogEntries

\* What has been read of a Pod.
LEMMA LinesOfType ==
  ASSUME TypeOK, NEW p \in Pods, NEW from \in Nat, NEW n \in Nat,
         from + n <= Len(printed[p])
  PROVE  /\ IsRead(p, from, n, LinesOf(p, from, n))
         /\ \A i \in 1 .. n : LinesOf(p, from, n)[i].whole = TRUE
<1>1. Len(printed[p]) \in Nat
  BY PrintedType
<1>2. \A i \in 1 .. n : from + i \in 1 .. Len(printed[p])
  BY <1>1
<1>3. \A i \in 1 .. n : printed[p][from + i] \in Lines
  BY <1>2, PrintedType
<1>4. \A i \in 1 .. n : /\ Entry(printed[p][from + i], TRUE) \in LogEntries
                        /\ Entry(printed[p][from + i], TRUE).pod = printed[p][from + i].pod
                        /\ Entry(printed[p][from + i], TRUE).at = printed[p][from + i].at
                        /\ Entry(printed[p][from + i], TRUE).run = proc.run
                        /\ Entry(printed[p][from + i], TRUE).whole = TRUE
  BY <1>3, EntryType
<1>5. LinesOf(p, from, n) \in [1 .. n -> LogEntries]
  BY <1>4 DEF LinesOf
<1>6. LinesOf(p, from, n) \in Seq(LogEntries) /\ Len(LinesOf(p, from, n)) = n
  BY <1>5, FunctionIsSeq
<1>7. \A i \in 1 .. n : LinesOf(p, from, n)[i] = Entry(printed[p][from + i], TRUE)
  BY DEF LinesOf
<1>8. QED
  BY <1>2, <1>4, <1>6, <1>7 DEF IsRead

\* ... and if the stream breaks off in the middle of a line.
LEMMA CutType ==
  ASSUME TypeOK, NEW p \in Pods, NEW from \in Nat, NEW n \in Nat,
         from + n < Len(printed[p])
  PROVE  IsRead(p, from, n + 1, Append(LinesOf(p, from, n),
                                       Entry(printed[p][from + n + 1], FALSE)))
<1> DEFINE lines == LinesOf(p, from, n)
           e == Entry(printed[p][from + n + 1], FALSE)
<1>1. Len(printed[p]) \in Nat /\ from + (n + 1) \in 1 .. Len(printed[p])
      /\ from + (n + 1) = from + n + 1 /\ from + n <= Len(printed[p])
  BY PrintedType
<1>2. printed[p][from + n + 1] \in Lines
  BY <1>1, PrintedType
<1>3. /\ e \in LogEntries /\ e.run = proc.run
      /\ e.pod = printed[p][from + (n + 1)].pod /\ e.at = printed[p][from + (n + 1)].at
  BY <1>1, <1>2, EntryType
<1>4. IsRead(p, from, n, lines)
  BY <1>1, LinesOfType
<1> HIDE DEF lines, e
<1>5. /\ lines \in Seq(LogEntries) /\ Len(lines) = n
      /\ \A i \in 1 .. n : /\ from + i \in 1 .. Len(printed[p])
                           /\ lines[i].pod = printed[p][from + i].pod
                           /\ lines[i].at = printed[p][from + i].at
                           /\ lines[i].run = proc.run
  BY <1>4 DEF IsRead
<1>6. /\ Append(lines, e) \in Seq(LogEntries) /\ Len(Append(lines, e)) = n + 1
      /\ \A i \in 1 .. n : Append(lines, e)[i] = lines[i]
      /\ Append(lines, e)[n + 1] = e
  BY <1>3, <1>5, AppendProperties
<1>7. ASSUME NEW i \in 1 .. n + 1
      PROVE  /\ from + i \in 1 .. Len(printed[p])
             /\ Append(lines, e)[i].pod = printed[p][from + i].pod
             /\ Append(lines, e)[i].at = printed[p][from + i].at
             /\ Append(lines, e)[i].run = proc.run
  <2>1. CASE i \in 1 .. n
    BY <1>5, <1>6, <2>1
  <2>2. CASE i = n + 1
    BY <1>1, <1>3, <1>6, <2>2
  <2>3. i \in 1 .. n \/ i = n + 1
    OBVIOUS
  <2>4. QED
    BY <2>1, <2>2, <2>3, Zenon
<1>8. IsRead(p, from, n + 1, Append(lines, e))
  BY <1>6, <1>7 DEF IsRead
<1>9. QED
  BY <1>8 DEF lines, e

\* A read, or a part of it.
LEMMA ReadIs ==
  ASSUME TypeOK, NEW p \in Pods, ReadLogs(p) \/ ReadFails(p)
  PROVE  \E lines \in Seq(LogEntries) :
           /\ proc' = ReadNext(lines)
           /\ lines = <<>> \/ \E from \in 0 .. Len(printed[p]) :
                                \E n \in 0 .. Len(printed[p]) - from :
                                  Older(p, from) /\ IsRead(p, from, n, lines)
<1> DEFINE Some(lines) ==
      \E from \in 0 .. Len(printed[p]) : \E n \in 0 .. Len(printed[p]) - from :
        Older(p, from) /\ IsRead(p, from, n, lines)
<1>1. Len(printed[p]) \in Nat /\ <<>> \in Seq(LogEntries)
  BY PrintedType, EmptySeq
<1>2. ASSUME NEW from \in 0 .. Len(printed[p]), NEW n \in 0 .. Len(printed[p]) - from,
             Older(p, from)
      PROVE  LinesOf(p, from, n) \in Seq(LogEntries) /\ Some(LinesOf(p, from, n))
  <2>1. from \in Nat /\ n \in Nat /\ from + n <= Len(printed[p])
    BY <1>1
  <2>2. IsRead(p, from, n, LinesOf(p, from, n))
    BY <2>1, LinesOfType
  <2>3. QED
    BY <1>2, <2>2 DEF IsRead
<1>3. ASSUME NEW from \in 0 .. Len(printed[p]), NEW n \in 0 .. Len(printed[p]) - from,
             Older(p, from), from + n < Len(printed[p])
      PROVE  LET lines == Append(LinesOf(p, from, n), Entry(printed[p][from + n + 1], FALSE))
             IN lines \in Seq(LogEntries) /\ Some(lines)
  <2> DEFINE lines == Append(LinesOf(p, from, n), Entry(printed[p][from + n + 1], FALSE))
  <2>1. n + 1 \in 0 .. Len(printed[p]) - from
    BY <1>1, <1>3
  <2>2. IsRead(p, from, n + 1, lines)
    <3>1. from \in Nat /\ n \in Nat
      BY <1>1
    <3>2. QED
      BY <1>3, <3>1, CutType
  <2> HIDE DEF lines
  <2>3. lines \in Seq(LogEntries) /\ Some(lines)
    BY <1>3, <2>1, <2>2 DEF IsRead
  <2>4. QED
    BY <2>3 DEF lines
<1>4. \A from \in 0 .. Len(printed[p]) : Len(printed[p]) - from \in 0 .. Len(printed[p]) - from
  BY <1>1
<1> HIDE DEF Some
<1>5. CASE ReadLogs(p)
  BY <1>2, <1>4, <1>5 DEF ReadLogs, Some
<1>6. CASE ReadFails(p)
  <2>1. CASE proc' = ReadNext(<<>>)
    BY <1>1, <2>1
  <2>2. CASE proc' # ReadNext(<<>>)
    <3>1. PICK from \in 0 .. Len(printed[p]) : \E n \in 0 .. Len(printed[p]) - from :
            /\ Older(p, from)
            /\ \/ proc' = ReadNext(LinesOf(p, from, n))
               \/ /\ from + n < Len(printed[p])
                  /\ proc' = ReadNext(Append(LinesOf(p, from, n),
                                             Entry(printed[p][from + n + 1], FALSE)))
      BY <1>6, <2>2 DEF ReadFails
    <3>2. \E lines \in Seq(LogEntries) : proc' = ReadNext(lines) /\ Some(lines)
      BY <1>2, <1>3, <3>1
    <3>3. QED
      BY <3>2 DEF Some
  <2>3. QED
    BY <2>1, <2>2
<1>7. QED
  BY <1>5, <1>6

LEMMA ReadNextOK ==
  ASSUME TypeOK, proc.pc = "read", NEW lines \in Seq(LogEntries)
  PROVE  /\ ProcOK(ReadNext(lines)) /\ ReadNext(lines).pc \in {"read", "write"}
         /\ ReadNext(lines).todo = Tail(proc.todo)
         /\ ReadNext(lines).logs = proc.logs \o lines
         /\ ReadNext(lines).run = proc.run /\ ReadNext(lines).first = FALSE
<1> DEFINE todo == Tail(proc.todo)
           logs == proc.logs \o lines
           r == ReadFrom(todo, logs)
<1>1. todo \in Seq(Pods)
  BY TypeParts, HeadTailProperties DEF ProcOK, Procs
<1>2. logs \in Seq(LogEntries)
  BY TypeParts, ConcatProperties DEF ProcOK, Procs
<1> HIDE DEF todo, logs
<1>3. /\ ProcOK(r) /\ r.todo = todo /\ r.logs = logs
      /\ r.run = proc.run /\ r.pc \in {"read", "write"}
  BY <1>1, <1>2, ReadFromOK
<1> USE DEF todo, logs
<1>4. ReadNext(lines) = [r EXCEPT !.first = FALSE]
  BY DEF ReadNext
<1> HIDE DEF r
<1>5. r \in Procs /\ ReadNext(lines) \in Procs
  BY <1>3, <1>4 DEF ProcOK, Procs
<1>6. /\ ReadNext(lines).pc = r.pc /\ ReadNext(lines).todo = r.todo
      /\ ReadNext(lines).logs = r.logs /\ ReadNext(lines).run = r.run
      /\ ReadNext(lines).wake = r.wake /\ ReadNext(lines).first = FALSE
  BY <1>4, <1>5 DEF Procs
<1>7. QED
  BY <1>3, <1>5, <1>6 DEF ProcOK

LEMMA GoToSleepOK ==
  ASSUME TypeOK, proc.pc = "write"
  PROVE  /\ ProcOK(GoToSleep) /\ GoToSleep.pc = "sleep"
         /\ GoToSleep.logs = <<>> /\ GoToSleep.todo = <<>>
         /\ GoToSleep.wake = clock + LogDuration
         /\ GoToSleep.run = proc.run /\ GoToSleep.first = proc.first
<1>1. clock + LogDuration \in Nat
  BY TypeParts, LogDurationType
<1>2. proc \in Procs /\ proc.todo = <<>>
  BY TypeParts DEF ProcOK
<1>3. GoToSleep \in Procs
  BY <1>1, <1>2, EmptySeq DEF GoToSleep, Procs
<1>4. /\ GoToSleep.pc = "sleep" /\ GoToSleep.logs = <<>> /\ GoToSleep.todo = <<>>
      /\ GoToSleep.wake = clock + LogDuration
  BY <1>2 DEF GoToSleep, Procs
<1>5. GoToSleep.run = proc.run /\ GoToSleep.first = proc.first
  BY <1>2 DEF GoToSleep, Procs
<1>6. QED
  BY <1>3, <1>4, <1>5 DEF ProcOK

\* Another Pod's lines, a tick, a Pod that comes or goes.
LEMMA WorldType == TypeOK /\ World => TypeOK'
<1> SUFFICES ASSUME TypeOK, World PROVE TypeOK'
  OBVIOUS
<1>1. clock' \in Nat /\ life' \in [Pods -> {"unborn", "here", "gone"}]
  <2>1. clock' = clock \/ clock' = clock + 1
    BY DEF World, Tick, LogLine, StartPod, EndPod
  <2>2. \/ life' = life
        \/ \E p \in Pods : life' = [life EXCEPT ![p] = "here"] \/ life' = [life EXCEPT ![p] = "gone"]
    BY DEF World, Tick, LogLine, StartPod, EndPod
  <2>3. clock' \in Nat
    BY <2>1 DEF TypeOK
  <2>4. life \in [Pods -> {"unborn", "here", "gone"}]
    BY DEF TypeOK
  <2>5. QED
    BY <2>2, <2>3, <2>4
<1>2. printed' \in [Pods -> Seq(Lines)]
  <2>1. ASSUME NEW p \in Pods
        PROVE  Append(printed[p], [pod |-> p, at |-> clock + 1]) \in Seq(Lines)
    <3>1. clock + 1 \in Nat /\ printed[p] \in Seq(Lines)
      BY TypeParts
    <3>2. [pod |-> p, at |-> clock + 1] \in Lines
      BY <3>1 DEF Lines
    <3>3. QED
      BY <3>1, <3>2, AppendProperties
  <2>2. \/ printed' = printed
        \/ \E p \in Pods :
             printed' = [printed EXCEPT ![p] = Append(@, [pod |-> p, at |-> clock + 1])]
    BY DEF World, Tick, LogLine, StartPod, EndPod
  <2>3. QED
    BY <2>1, <2>2 DEF TypeOK
<1>3. UNCHANGED <<log, end, missing, proc, since, last, faults>>
  BY DEF World, history
<1>4. QED
  BY <1>1, <1>2, <1>3 DEF TypeOK

\* What the collector has to do to keep the types.
LEMMA CollectType ==
  ASSUME TypeOK, UNCHANGED world,
         log' \in Seq(LogEntries), end' \in {"whole", "half", "torn"}, missing' \in BOOLEAN,
         ProcOK(proc'), since' \in [Pods -> Nat], last' \in [Pods -> Nat \cup {None}],
         faults' \in Nat, HalfOK(end', proc')
  PROVE  TypeOK'
BY TypeParts DEF TypeOK, ProcOK, HalfOK, world

LEMMA ForgetType == Forget => last' \in [Pods -> Nat \cup {None}] /\ UNCHANGED since
BY DEF Forget

\* No entry is half written while the collector does not write.
LEMMA NotHalf == TypeOK /\ proc.pc # "write" => end # "half"
BY TypeParts DEF HalfOK

LEMMA StartType == TypeOK /\ Start => TypeOK'
<1> SUFFICES ASSUME TypeOK, Start PROVE TypeOK'
  OBVIOUS
<1>1. ASSUME NEW first \in BOOLEAN
      PROVE  ProcOK([proc EXCEPT !.pc = "list", !.first = first])
  BY TypeParts DEF Start, ProcOK, Procs
<1>2. ProcOK(proc')
  BY <1>1, TypeParts DEF Start
<1>3. QED
  BY <1>2, CollectType, NotHalf, TypeParts DEF Start, history, HalfOK

\* The process ends and is restarted, for whatever reason.
Ends == Restart \/ \E p \in Pods : ReadPanics(p)

LEMMA EndsIs ==
  ASSUME TypeOK, Ends
  PROVE  /\ proc' = NewProc(proc.run + 1) /\ Fault /\ Forget /\ UNCHANGED <<world, log, missing>>
         /\ end' \in {"whole", "torn"}
<1>1. end \in {"whole", "half", "torn"} /\ (proc.pc = "read" => end # "half")
  BY TypeParts, NotHalf
<1>2. CASE Restart
  BY <1>1, <1>2 DEF Restart, TearEntry
<1>3. CASE \E p \in Pods : ReadPanics(p)
  BY <1>1, <1>3 DEF ReadPanics
<1>4. QED
  BY <1>2, <1>3 DEF Ends

LEMMA EndsType == TypeOK /\ Ends => TypeOK'
<1> SUFFICES ASSUME TypeOK, Ends PROVE TypeOK'
  OBVIOUS
<1>1. proc.run + 1 \in Nat
  BY TypeParts DEF ProcOK, Procs
<1>2. ProcOK(proc')
  BY <1>1, NewProcOK, EndsIs
<1>3. log' = log /\ end' \in {"whole", "torn"}
  BY EndsIs
<1>4. QED
  BY <1>2, <1>3, EndsIs, CollectType, ForgetType, FaultType, TypeParts DEF HalfOK

LEMMA ListType ==
  ASSUME TypeOK, ListPods
  PROVE  /\ TypeOK'
         /\ \E todo \in Seq(Pods) :
              /\ \A i, j \in 1 .. Len(todo) : i # j => todo[i] # todo[j]
              /\ proc' = ReadFrom(todo, <<>>)
<1>1. PICK todo \in SetToSeqs({p \in Pods : life[p] = "here"}) : proc' = ReadFrom(todo, <<>>)
  BY DEF ListPods
<1>2. {p \in Pods : life[p] = "here"} \in SUBSET Pods
  OBVIOUS
<1>3. IsFiniteSet({p \in Pods : life[p] = "here"})
  BY <1>2, FS_Subset, CollectorAssumption
<1>4. /\ todo \in Seq(Pods)
      /\ \A i, j \in 1 .. Len(todo) : i # j => todo[i] # todo[j]
  BY <1>2, <1>3, SetToSeqsIs
<1>5. ProcOK(proc')
  BY <1>1, <1>4, ReadFromNothing
<1>6. TypeOK'
  BY <1>5, CollectType, NotHalf, TypeParts DEF ListPods, history, HalfOK
<1>7. QED
  BY <1>1, <1>4, <1>6

LEMMA AfterType == TypeOK /\ After > 0 => After \in Nat
BY TypeParts, LogDurationType DEF After, ProcOK, Procs

LEMMA ReadLogsType ==
  ASSUME TypeOK, NEW p \in Pods, ReadLogs(p)
  PROVE  TypeOK'
<1>1. PICK lines \in Seq(LogEntries) : proc' = ReadNext(lines)
  BY ReadIs
<1>4. ProcOK(proc') /\ proc.pc = "read"
  BY <1>1, ReadNextOK DEF ReadLogs
<1>5. last' \in [Pods -> Nat \cup {None}]
  BY TypeParts DEF ReadLogs
<1>6. since' \in [Pods -> Nat]
  BY AfterType, TypeParts DEF ReadLogs
<1>7. QED
  BY <1>4, <1>5, <1>6, CollectType, NotHalf, TypeParts DEF ReadLogs, HalfOK

LEMMA ReadFailsType ==
  ASSUME TypeOK, NEW p \in Pods, ReadFails(p)
  PROVE  TypeOK'
<1>1. \E lines \in Seq(LogEntries) : proc' = ReadNext(lines)
  BY ReadIs
<1>2. ProcOK(proc') /\ proc.pc = "read"
  BY <1>1, ReadNextOK DEF ReadFails
<1>3. last' \in [Pods -> Nat \cup {None}] /\ faults' \in Nat
  BY TypeParts, FaultType DEF ReadFails
<1>4. QED
  BY <1>2, <1>3, CollectType, NotHalf, TypeParts DEF ReadFails, HalfOK

LEMMA WriteLogsType ==
  ASSUME TypeOK, WriteLogs
  PROVE  TypeOK' /\ Kept' = Kept /\ [proc EXCEPT !.logs = proc'.logs] = proc'
<1>1. proc \in Procs /\ proc.logs \in Seq(LogEntries) /\ proc.logs # <<>> /\ proc.pc = "write"
      /\ proc.todo = <<>>
  BY TypeParts DEF WriteLogs, ProcOK, Procs
<1>2. CASE BeginEntry /\ UNCHANGED proc
  <2>1. TypeOK'
    BY <1>1, <1>2, CollectType, TypeParts DEF BeginEntry, WriteLogs, HalfOK, history
  <2>2. QED
    BY <1>1, <1>2, <2>1 DEF BeginEntry, Kept, Procs
<1>3. CASE EndEntry(Head(proc.logs)) /\ proc' = [proc EXCEPT !.logs = Tail(@)]
  <2>1. Head(proc.logs) \in LogEntries /\ Tail(proc.logs) \in Seq(LogEntries)
    BY <1>1, HeadTailProperties
  <2>2. log' = Append(log, Head(proc.logs)) /\ log' \in Seq(LogEntries) /\ end' = "whole"
    BY <1>3, <2>1, AppendProperties, TypeParts DEF EndEntry
  <2>3. proc' \in Procs /\ proc'.logs = Tail(proc.logs) /\ proc'.pc = "write" /\ proc'.todo = <<>>
    BY <1>1, <1>3, <2>1 DEF Procs
  <2>4. ProcOK(proc')
    BY <2>3 DEF ProcOK
  <2>5. TypeOK'
    BY <2>2, <2>4, CollectType, TypeParts DEF WriteLogs, HalfOK, history
  <2>6. Kept' = Kept
    BY <1>1, <2>2, <2>3, MoveHead, TypeParts DEF Kept
  <2>7. [proc EXCEPT !.logs = proc'.logs] = proc'
    BY <1>1, <1>3, <2>3 DEF Procs
  <2>8. QED
    BY <2>5, <2>6, <2>7
<1>4. QED
  BY <1>2, <1>3 DEF WriteLogs

LEMMA WrittenType == TypeOK /\ Written => TypeOK'
<1> SUFFICES ASSUME TypeOK, Written PROVE TypeOK'
  OBVIOUS
<1>1. ProcOK(proc')
  BY GoToSleepOK DEF Written
<1>2. end # "half"
  BY TypeParts DEF Written, HalfOK
<1>3. QED
  BY <1>1, <1>2, CollectType, TypeParts DEF Written, HalfOK, history

LEMMA WriteFailsType == TypeOK /\ WriteFails => TypeOK'
<1> SUFFICES ASSUME TypeOK, WriteFails PROVE TypeOK'
  OBVIOUS
<1>1. ProcOK(proc')
  BY GoToSleepOK DEF WriteFails
<1>2. log' = log /\ end' \in {"whole", "torn"}
  BY DEF WriteFails, TearEntry
<1>3. QED
  BY <1>1, <1>2, CollectType, ForgetType, FaultType, TypeParts DEF WriteFails, HalfOK

LEMMA WakeUpType == TypeOK /\ WakeUp => TypeOK'
<1> SUFFICES ASSUME TypeOK, WakeUp PROVE TypeOK'
  OBVIOUS
<1>1. ProcOK(proc')
  BY TypeParts DEF WakeUp, ProcOK, Procs
<1>2. QED
  BY <1>1, CollectType, NotHalf, TypeParts DEF WakeUp, HalfOK, history

LEMMA TypeInit == Init => TypeOK
<1> SUFFICES ASSUME Init PROVE TypeOK
  OBVIOUS
<1>1. ProcOK(proc) /\ proc.pc = "start"
  BY NewProcOK DEF Init
<1>2. QED
  BY <1>1, EmptySeq, TypeParts DEF Init, LogInit, HalfOK

LEMMA TypeStep == TypeOK /\ [Next]_vars => TypeOK'
<1>1. TypeOK /\ UNCHANGED vars => TypeOK'
  BY DEF TypeOK, vars
<1>2. QED
  BY <1>1, WorldType, StartType, EndsType, ListType, ReadLogsType, ReadFailsType,
     WriteLogsType, WrittenType, WriteFailsType, WakeUpType DEF Next, Collect, Ends

\* The file, the process and the history keep their types, and an entry is half
\* written only during a write (collector.go:63-68, 216-284).
THEOREM CollectorTyping == Spec => []TypeOK
BY TypeInit, TypeStep, PTL DEF Spec

-----------------------------------------------------------------------------
(* The file only grows. *)

\* What a step does to the file.
LEMMA FileStep == TypeOK /\ [Next]_vars => [FileNext]_<<log, end>>
<1> SUFFICES ASSUME TypeOK, [Next]_vars PROVE [FileNext]_<<log, end>>
  OBVIOUS
<1>1. CASE WriteLogs
  <2>1. log \in Seq(LogEntries) /\ proc.logs # <<>> /\ Head(proc.logs) \in LogEntries
    BY <1>1, TypeParts, HeadTailProperties DEF WriteLogs, ProcOK, Procs
  <2>2. CASE EndEntry(Head(proc.logs))
    <3>1. PICK e \in LogEntries : e = Head(proc.logs)
      BY <2>1
    <3>2. log' = Append(log, e)
      BY <2>2, <3>1 DEF EndEntry
    <3>3. Len(log') = Len(log) + 1 /\ log'[Len(log) + 1] = e /\ Len(log) \in Nat
      BY <2>1, <3>2, AppendProperties, LenProperties
    <3>4. log'[Len(log')] = e /\ log' # <<>>
      BY <3>3, EmptySeq
    <3>5. QED
      BY <2>2, <3>1, <3>4 DEF FileNext
  <2>3. QED
    BY <1>1, <2>2 DEF WriteLogs, FileNext
<1>2. CASE Restart \/ WriteFails
  BY <1>2 DEF Restart, WriteFails, FileNext
<1>3. QED
  BY <1>1, <1>2 DEF Next, vars, World, Collect, Start, ListPods, Written, WakeUp,
     ReadLogs, ReadFails, ReadPanics

\* The collector's steps are those of the file the endpoint reads: entries come
\* to be at its end one after the other, and none after a torn one, through
\* failed writes and restarts (collector.go:207, 278).
THEOREM CollectorWritesFile == Spec => ImplementsFile
<1>1. Init => LogInit
  BY DEF Init
<1>2. QED
  BY <1>1, FileStep, CollectorTyping, PTL DEF Spec, ImplementsFile, FileSpec

\* So entries are only ever added, and a torn one stays.
LEMMA LogStep ==
  ASSUME TypeOK, [Next]_vars
  PROVE  /\ log' = log \/ \E e \in LogEntries : log' = Append(log, e)
         /\ end = "torn" => end' = "torn"
<1>1. [FileNext]_<<log, end>>
  BY FileStep
<1>2. log' # <<>> => log'[Len(log')] \in LogEntries
  <2>1. log' \in Seq(LogEntries)
    BY TypeStep DEF TypeOK
  <2>2. QED
    BY <2>1, LenProperties, ElementOfSeq, EmptySeq
<1>3. QED
  BY <1>1, <1>2 DEF FileNext, BeginEntry, EndEntry, TearEntry

-----------------------------------------------------------------------------
(* No entry comes twice. *)

\* What a sidecar has printed is its Pod's, ascends, and is not after now.
PrintedOK(p, lines, now) ==
  /\ \A i \in 1 .. Len(lines) : lines[i].pod = p /\ lines[i].at \in 1 .. now
  /\ \A i, j \in 1 .. Len(lines) : i < j => lines[i].at < lines[j].at

\* An entry that process q has read itself is older than the next window of
\* its Pod.
EntryOK(e, q, now) ==
  /\ e.run <= q.run /\ e.at <= now
  /\ q.pc = "start" \/ q.first => e.run # q.run
  /\ e.run = q.run =>
       /\ q.pc = "sleep" => e.at + LogDuration <= q.wake
       /\ q.pc = "list" => e.at + LogDuration <= now
       /\ \A n \in 1 .. Len(q.todo) : e.pod = q.todo[n] => e.at + LogDuration <= now

\* The inductive invariant.
RoundOK ==
  /\ \A p \in Pods : PrintedOK(p, printed[p], clock)
  /\ \A i, j \in 1 .. Len(proc.todo) : i # j => proc.todo[i] # proc.todo[j]
  /\ \A i \in 1 .. Len(Kept) : EntryOK(Kept[i], proc, clock)
  /\ InOrderOnce

LEMMA KeptType ==
  TypeOK => /\ Kept \in Seq(LogEntries) /\ Len(Kept) \in Nat
            /\ \A i \in 1 .. Len(Kept) : Kept[i] \in LogEntries
<1> SUFFICES ASSUME TypeOK
             PROVE  /\ Kept \in Seq(LogEntries) /\ Len(Kept) \in Nat
                    /\ \A i \in 1 .. Len(Kept) : Kept[i] \in LogEntries
  OBVIOUS
<1>1. Kept \in Seq(LogEntries)
  BY TypeParts, ConcatProperties DEF Kept, ProcOK, Procs
<1>2. QED
  BY <1>1, LenProperties, ElementOfSeq

\* The file alone is a beginning of what is kept.
LEMMA LogBeginsKept ==
  ASSUME TypeOK
  PROVE  Len(log) <= Len(Kept) /\ \A i \in 1 .. Len(log) : log[i] = Kept[i]
<1>1. log \in Seq(LogEntries) /\ proc.logs \in Seq(LogEntries)
  BY TypeParts DEF ProcOK, Procs
<1>2. Len(log) \in Nat /\ Len(proc.logs) \in Nat
  BY <1>1, LenProperties
<1>3. QED
  BY <1>1, <1>2, ConcatProperties DEF Kept

LEMMA PrintedStep ==
  ASSUME TypeOK, \A p \in Pods : PrintedOK(p, printed[p], clock), [Next]_vars
  PROVE  \A p \in Pods : PrintedOK(p, printed[p], clock)'
<1>1. CASE UNCHANGED printed /\ (clock' = clock \/ clock' = clock + 1)
  BY <1>1, TypeParts DEF PrintedOK
<1>2. ASSUME NEW q \in Pods, LogLine(q)
      PROVE  \A p \in Pods : PrintedOK(p, printed[p], clock)'
  <2> TAKE p \in Pods
  <2>1. clock' = clock + 1 /\ clock \in Nat /\ PrintedOK(p, printed[p], clock)
    BY <1>2, TypeParts DEF LogLine
  <2>2. CASE p # q
    <3>1. printed'[p] = printed[p]
      BY <1>2, <2>2, TypeParts DEF LogLine
    <3>2. QED
      BY <2>1, <3>1 DEF PrintedOK
  <2>3. CASE p = q
    <3> DEFINE s == printed[p]
    <3>1. /\ printed'[p] = Append(s, [pod |-> p, at |-> clock + 1]) /\ s \in Seq(Lines)
          /\ [pod |-> p, at |-> clock + 1] \in Lines
      <4>1. clock + 1 \in Nat
        BY <2>1
      <4>2. [pod |-> p, at |-> clock + 1] \in Lines
        BY <4>1 DEF Lines
      <4>3. printed' = [printed EXCEPT ![p] = Append(@, [pod |-> p, at |-> clock + 1])]
        BY <1>2, <2>3 DEF LogLine
      <4>4. printed \in [Pods -> Seq(Lines)]
        BY TypeParts
      <4>5. QED
        BY <4>2, <4>3, <4>4
    <3>2. /\ Len(printed'[p]) = Len(s) + 1 /\ Len(s) \in Nat
          /\ \A i \in 1 .. Len(s) : printed'[p][i] = s[i]
          /\ printed'[p][Len(s) + 1] = [pod |-> p, at |-> clock + 1]
      BY <3>1, AppendProperties, LenProperties
    <3>3. ASSUME NEW i \in 1 .. Len(printed'[p])
          PROVE  /\ printed'[p][i].pod = p
                 /\ \/ /\ i \in 1 .. Len(s) /\ printed'[p][i].at = s[i].at
                       /\ s[i].at \in 1 .. clock
                    \/ i = Len(s) + 1 /\ printed'[p][i].at = clock + 1
      <4>1. \A k \in 1 .. Len(s) : s[k].pod = p /\ s[k].at \in 1 .. clock
        BY <2>1 DEF PrintedOK
      <4>2. i \in 1 .. Len(s) \/ i = Len(s) + 1
        BY <3>2
      <4>3. QED
        BY <3>2, <4>1, <4>2
    <3>4. \A i \in 1 .. Len(printed'[p]) : printed'[p][i].pod = p /\ printed'[p][i].at \in 1 .. clock'
      BY <2>1, <3>3
    <3>5. \A i, j \in 1 .. Len(s) : i < j => s[i].at < s[j].at
      BY <2>1 DEF PrintedOK
    <3>6. ASSUME NEW i \in 1 .. Len(printed'[p]), NEW j \in 1 .. Len(printed'[p]), i < j
          PROVE  printed'[p][i].at < printed'[p][j].at
      <4>1. i \in 1 .. Len(s) /\ printed'[p][i].at = s[i].at /\ s[i].at \in 1 .. clock
        BY <3>2, <3>3, <3>6
      <4>2. CASE j \in 1 .. Len(s)
        BY <3>2, <3>5, <3>6, <4>1, <4>2
      <4>3. CASE j = Len(s) + 1
        <5>1. printed'[p][j].at = clock + 1
          BY <3>2, <4>3
        <5>2. QED
          BY <2>1, <4>1, <5>1
      <4>4. QED
        BY <3>2, <4>2, <4>3
    <3>7. QED
      BY <3>4, <3>6 DEF PrintedOK
  <2>4. QED
    BY <2>2, <2>3
<1>3. QED
  BY <1>1, <1>2
     DEF Next, vars, world, World, Tick, StartPod, EndPod, Collect, Start, Restart, ListPods,
         ReadLogs, ReadFails, ReadPanics, WriteLogs, Written, WriteFails, WakeUp

\* The lines that are read of the first Pod that is left.
LEMMA ReadNextStep ==
  ASSUME TypeOK, RoundOK, proc.pc = "read", NEW lines \in Seq(LogEntries),
         proc' = ReadNext(lines), UNCHANGED clock,
         \A i \in 1 .. Len(lines) : /\ lines[i].pod = Head(proc.todo)
                                   /\ lines[i].run = proc.run /\ lines[i].at <= clock
  PROVE  /\ \A i, j \in 1 .. Len(proc'.todo) : i # j => proc'.todo[i] # proc'.todo[j]
         /\ \A e \in LogEntries : EntryOK(e, proc, clock) => EntryOK(e, proc', clock')
         /\ \A i \in 1 .. Len(lines) : EntryOK(lines[i], proc', clock')
<1>1. proc.todo \in Seq(Pods) /\ proc.todo # <<>>
  BY TypeParts DEF ProcOK, Procs
<1>2. /\ proc'.todo = Tail(proc.todo) /\ proc'.pc \in {"read", "write"}
      /\ proc'.run = proc.run /\ proc'.first = FALSE
  BY ReadNextOK
<1>3. /\ Tail(proc.todo) \in Seq(Pods) /\ Len(Tail(proc.todo)) = Len(proc.todo) - 1
      /\ \A i \in 1 .. Len(Tail(proc.todo)) : Tail(proc.todo)[i] = proc.todo[i + 1]
      /\ Len(proc.todo) \in Nat \ {0} /\ Head(proc.todo) = proc.todo[1]
  BY <1>1, HeadTailProperties, EmptySeq
<1>4. \A i \in 1 .. Len(proc'.todo) :
        /\ i + 1 \in 1 .. Len(proc.todo) /\ i + 1 # 1
        /\ proc'.todo[i] = proc.todo[i + 1]
  BY <1>2, <1>3
<1>5. \A i, j \in 1 .. Len(proc.todo) : i # j => proc.todo[i] # proc.todo[j]
  BY DEF RoundOK
<1>6. \A i, j \in 1 .. Len(proc'.todo) : i # j => proc'.todo[i] # proc'.todo[j]
  BY <1>4, <1>5
<1>7. ASSUME NEW e \in LogEntries, EntryOK(e, proc, clock)
      PROVE  EntryOK(e, proc', clock')
  BY <1>2, <1>4, <1>7 DEF EntryOK
<1>8. ASSUME NEW i \in 1 .. Len(lines)
      PROVE  EntryOK(lines[i], proc', clock')
  <2>1. ASSUME NEW n \in 1 .. Len(proc'.todo)
        PROVE  lines[i].pod # proc'.todo[n]
    <3>1. 1 \in 1 .. Len(proc.todo) /\ n + 1 \in 1 .. Len(proc.todo) /\ 1 # n + 1
      BY <1>3, <1>4
    <3>2. proc.todo[1] # proc.todo[n + 1]
      BY <1>5, <3>1
    <3>3. lines[i].pod = proc.todo[1] /\ proc'.todo[n] = proc.todo[n + 1]
      BY <1>3, <1>4
    <3>4. QED
      BY <3>2, <3>3
  <2>2. lines[i].run <= proc'.run
    BY <1>2, TypeParts DEF ProcOK, Procs
  <2>3. lines[i].at <= clock' /\ proc'.pc \notin {"start", "sleep", "list"}
    BY <1>2
  <2>4. QED
    BY <1>2, <2>1, <2>2, <2>3 DEF EntryOK
<1>9. QED
  BY <1>6, <1>7, <1>8

\* What a step that reads nothing means for an entry.
LEMMA EntryStep ==
  ASSUME TypeOK, NEW e \in LogEntries, EntryOK(e, proc, clock),
         World \/ Start \/ Ends \/ ListPods \/ WriteLogs \/ Written \/ WriteFails \/ WakeUp
  PROVE  EntryOK(e, proc', clock')
<1>1. /\ e.run \in Nat /\ e.at \in Nat /\ clock \in Nat /\ proc.run \in Nat /\ proc.wake \in Nat
      /\ proc \in Procs /\ (proc.pc # "read" => proc.todo = <<>>) /\ LogDuration \in Nat
  BY TypeParts, LogDurationType DEF LogEntries, ProcOK, Procs
<1>2. CASE World
  <2>1. proc' = proc /\ (clock' = clock \/ clock' = clock + 1)
    BY <1>2 DEF World, Tick, LogLine, StartPod, EndPod
  <2>2. QED
    BY <1>1, <2>1 DEF EntryOK
<1>3. CASE Start
  <2>1. proc'.run = proc.run /\ proc'.pc = "list" /\ proc'.todo = proc.todo
    BY <1>1, <1>3 DEF Start, Procs
  <2>2. e.run # proc.run /\ clock' = clock
    BY <1>3 DEF Start, EntryOK, world
  <2>3. QED
    BY <2>1, <2>2 DEF EntryOK
<1>4. CASE Ends
  <2>1. proc'.run = proc.run + 1 /\ clock' = clock
    BY <1>4, EndsIs DEF NewProc, world
  <2>2. e.run # proc.run + 1 /\ e.run <= proc.run + 1
    BY <1>1 DEF EntryOK
  <2>3. QED
    BY <2>1, <2>2 DEF EntryOK
<1>5. CASE ListPods
  <2>1. PICK todo \in Seq(Pods) : proc' = ReadFrom(todo, <<>>)
    BY <1>5, ListType
  <2>2. /\ proc'.run = proc.run /\ proc'.first = proc.first /\ proc'.pc \in {"read", "write"}
    BY <2>1, ReadFromNothing
  <2>3. proc.pc = "list" /\ clock' = clock
    BY <1>5 DEF ListPods, world
  <2>4. QED
    BY <2>2, <2>3 DEF EntryOK
<1>6. CASE WriteLogs
  <2>1. clock' = clock /\ proc.pc = "write" /\ proc' = [proc EXCEPT !.logs = proc'.logs]
    BY <1>6, WriteLogsType DEF WriteLogs, world
  <2>2. /\ proc'.run = proc.run /\ proc'.first = proc.first /\ proc'.pc = "write"
        /\ proc'.todo = proc.todo
    BY <1>1, <2>1 DEF Procs
  <2>3. QED
    BY <2>1, <2>2 DEF EntryOK
<1>7. CASE Written \/ WriteFails
  <2>1. proc' = GoToSleep /\ proc.pc = "write" /\ clock' = clock
    BY <1>7 DEF Written, WriteFails, world
  <2>2. /\ proc'.pc = "sleep" /\ proc'.todo = <<>> /\ proc'.wake = clock + LogDuration
        /\ proc'.run = proc.run /\ proc'.first = proc.first
    BY <2>1, GoToSleepOK
  <2>3. Len(proc'.todo) = 0
    BY <2>2, EmptySeq
  <2>4. e.at <= clock => e.at + LogDuration <= proc'.wake
    BY <1>1, <2>2
  <2>5. QED
    BY <1>1, <2>1, <2>2, <2>3, <2>4 DEF EntryOK
<1>8. CASE WakeUp
  <2>1. /\ clock' = clock /\ proc.pc = "sleep" /\ clock >= proc.wake
        /\ proc'.run = proc.run /\ proc'.first = proc.first /\ proc'.pc = "list"
        /\ proc'.todo = proc.todo
    BY <1>1, <1>8 DEF WakeUp, world, Procs
  <2>2. QED
    BY <1>1, <2>1 DEF EntryOK
<1>9. QED
  BY <1>2, <1>3, <1>4, <1>5, <1>6, <1>7, <1>8

\* A beginning of what was kept is in order.
LEMMA FewerInOrder ==
  ASSUME InOrderOnce, Len(Kept) \in Nat, Len(Kept') \in Nat, Len(Kept') <= Len(Kept),
         \A i \in 1 .. Len(Kept') : Kept'[i] = Kept[i]
  PROVE  InOrderOnce'
BY DEF InOrderOnce

\* A step that reads nothing adds nothing to what is kept.
LEMMA QuietKept ==
  ASSUME TypeOK, [Next]_vars,
         World \/ Start \/ Ends \/ ListPods \/ WriteLogs \/ Written \/ WriteFails \/ WakeUp
  PROVE  Len(Kept') <= Len(Kept) /\ \A i \in 1 .. Len(Kept') : Kept'[i] = Kept[i]
<1>1. CASE UNCHANGED <<log, proc>>
  BY <1>1, KeptType DEF Kept
<1>2. CASE log' = log /\ proc'.logs = <<>>
  <2>1. Kept' = log
    BY <1>2, ConcatEmptySeq, TypeParts DEF Kept
  <2>2. QED
    BY <2>1, LogBeginsKept
<1>3. CASE log' = log /\ proc'.logs = proc.logs
  BY <1>3, KeptType DEF Kept
<1>4. CASE WriteLogs
  BY <1>4, WriteLogsType, KeptType
<1>5. CASE World
  BY <1>1, <1>5 DEF World
<1>6. CASE Start \/ WakeUp
  BY <1>3, <1>6, TypeParts DEF Start, WakeUp, ProcOK, Procs
<1>7. CASE Ends
  BY <1>2, <1>7, EndsIs DEF NewProc
<1>8. CASE ListPods
  <2>1. PICK todo \in Seq(Pods) : proc' = ReadFrom(todo, <<>>)
    BY <1>8, ListType
  <2>2. proc'.logs = <<>> /\ log' = log
    BY <1>8, <2>1, ReadFromNothing DEF ListPods
  <2>3. QED
    BY <1>2, <2>2
<1>9. CASE Written \/ WriteFails
  BY <1>2, <1>9, GoToSleepOK DEF Written, WriteFails, TearEntry
<1>10. QED
  BY <1>4, <1>5, <1>6, <1>7, <1>8, <1>9

\* A step that reads nothing.
LEMMA QuietStep ==
  ASSUME TypeOK, RoundOK, [Next]_vars,
         World \/ Start \/ Ends \/ ListPods \/ WriteLogs \/ Written \/ WriteFails \/ WakeUp
  PROVE  RoundOK'
<1>1. Len(Kept') <= Len(Kept) /\ \A i \in 1 .. Len(Kept') : Kept'[i] = Kept[i]
  BY QuietKept
<1>2. TypeOK' /\ Len(Kept) \in Nat /\ Len(Kept') \in Nat
  BY TypeStep, KeptType
<1>3. \A i \in 1 .. Len(Kept') : EntryOK(Kept'[i], proc', clock')
  <2> TAKE i \in 1 .. Len(Kept')
  <2>1. i \in 1 .. Len(Kept) /\ Kept'[i] = Kept[i]
    BY <1>1, <1>2
  <2>2. Kept[i] \in LogEntries /\ EntryOK(Kept[i], proc, clock)
    BY <2>1, KeptType DEF RoundOK
  <2>3. QED
    BY <2>1, <2>2, EntryStep
<1>4. InOrderOnce'
  BY <1>1, <1>2, FewerInOrder DEF RoundOK
<1>5. \A i, j \in 1 .. Len(proc'.todo) : i # j => proc'.todo[i] # proc'.todo[j]
  <2>1. \A i, j \in 1 .. Len(proc.todo) : i # j => proc.todo[i] # proc.todo[j]
    BY DEF RoundOK
  <2>2. CASE proc'.todo = proc.todo
    BY <2>1, <2>2
  <2>3. CASE proc'.todo = <<>>
    BY <2>3, EmptySeq
  <2>4. CASE ListPods
    <3>1. PICK todo \in Seq(Pods) :
            /\ \A i, j \in 1 .. Len(todo) : i # j => todo[i] # todo[j]
            /\ proc' = ReadFrom(todo, <<>>)
      BY <2>4, ListType
    <3>2. proc'.todo = todo
      BY <3>1, ReadFromNothing
    <3>3. QED
      BY <3>1, <3>2
  <2>5. CASE World
    BY <2>2, <2>5 DEF World
  <2>6. CASE Start \/ WakeUp
    BY <2>2, <2>6, TypeParts DEF Start, WakeUp, ProcOK, Procs
  <2>7. CASE Ends
    BY <2>3, <2>7, EndsIs DEF NewProc
  <2>8. CASE WriteLogs
    <3>1. proc' = [proc EXCEPT !.logs = proc'.logs] /\ proc \in Procs
      BY <2>8, WriteLogsType, TypeParts DEF ProcOK
    <3>2. proc'.todo = proc.todo
      BY <3>1 DEF Procs
    <3>3. QED
      BY <2>2, <3>2
  <2>9. CASE Written \/ WriteFails
    BY <2>3, <2>9, GoToSleepOK DEF Written, WriteFails
  <2>10. QED
    BY <2>4, <2>5, <2>6, <2>7, <2>8, <2>9
<1>6. QED
  BY <1>3, <1>4, <1>5, PrintedStep DEF RoundOK

-----------------------------------------------------------------------------
(* What a read brings. *)

\* Lines of Pod p in the order they were printed, all of them after what is kept.
ReadInOrder(p, n, lines) ==
  /\ lines \in Seq(LogEntries) /\ Len(lines) = n
  /\ \A i \in 1 .. n : /\ lines[i].pod = p /\ lines[i].run = proc.run
                       /\ lines[i].at <= clock /\ lines[i].at > After
  /\ \A i, j \in 1 .. n : i < j => lines[i].at < lines[j].at
  /\ \A i \in 1 .. Len(Kept) : Kept[i].pod = p /\ Kept[i].run = proc.run
                                => Kept[i].at <= After

\* Lines that were read of Pod p come after all entries of the process that are
\* kept of it, and are in order.
LEMMA LinesInOrder ==
  ASSUME TypeOK, RoundOK, proc.pc = "read", NEW p \in Pods, p = Head(proc.todo),
         NEW from \in 0 .. Len(printed[p]), NEW n \in 0 .. Len(printed[p]) - from,
         Older(p, from), NEW lines, IsRead(p, from, n, lines)
  PROVE  ReadInOrder(p, n, lines)
<1>1. Len(printed[p]) \in Nat /\ clock \in Nat /\ PrintedOK(p, printed[p], clock)
  BY TypeParts, PrintedType DEF RoundOK
<1>2. from \in Nat /\ n \in Nat /\ from + n <= Len(printed[p])
  BY <1>1
<1>3. /\ lines \in Seq(LogEntries) /\ Len(lines) = n
      /\ \A i \in 1 .. n : /\ from + i \in 1 .. Len(printed[p])
                           /\ lines[i].pod = printed[p][from + i].pod
                           /\ lines[i].at = printed[p][from + i].at
                           /\ lines[i].run = proc.run
  BY DEF IsRead
<1>4. ASSUME NEW i \in 1 .. n
      PROVE  /\ lines[i].pod = p /\ lines[i].run = proc.run
             /\ lines[i].at = printed[p][from + i].at
             /\ lines[i].at <= clock /\ lines[i].at > After
  <2>1. /\ lines[i].pod = printed[p][from + i].pod /\ lines[i].run = proc.run
        /\ lines[i].at = printed[p][from + i].at
    BY <1>3
  <2>2. from + i \in 1 .. Len(printed[p]) /\ from + i \in from + 1 .. Len(printed[p])
    BY <1>1, <1>2, <1>3
  <2>3. /\ printed[p][from + i].pod = p
        /\ printed[p][from + i].at <= clock /\ printed[p][from + i].at > After
    BY <1>1, <2>2 DEF PrintedOK, Older
  <2>4. QED
    BY <2>1, <2>3
<1>5. ASSUME NEW i \in 1 .. n, NEW j \in 1 .. n, i < j
      PROVE  lines[i].at < lines[j].at
  <2>1. from + i \in 1 .. Len(printed[p]) /\ from + j \in 1 .. Len(printed[p]) /\ from + i < from + j
    BY <1>2, <1>3, <1>5
  <2>2. printed[p][from + i].at < printed[p][from + j].at
    BY <1>1, <2>1 DEF PrintedOK
  <2>3. QED
    BY <1>4, <2>2
<1>6. ASSUME NEW i \in 1 .. Len(Kept), Kept[i].pod = p, Kept[i].run = proc.run
      PROVE  Kept[i].at <= After
  <2>1. EntryOK(Kept[i], proc, clock) /\ Kept[i].at \in Nat
    BY KeptType DEF RoundOK, LogEntries
  <2>2. proc.first = FALSE
    BY <1>6, <2>1, TypeParts DEF EntryOK, ProcOK, Procs
  <2>3. 1 \in 1 .. Len(proc.todo) /\ proc.todo[1] = p
    <3>1. proc.todo \in Seq(Pods) /\ proc.todo # <<>>
      BY TypeParts DEF ProcOK, Procs
    <3>2. QED
      BY <3>1, EmptySeq
  <2>4. Kept[i].at + LogDuration <= clock
    BY <1>6, <2>1, <2>3 DEF EntryOK
  <2>5. After = clock - LogDuration
    BY <2>2 DEF After
  <2>6. QED
    BY <1>1, <2>1, <2>4, <2>5, LogDurationType
<1>7. QED
  BY <1>3, <1>4, <1>5, <1>6 DEF ReadInOrder

\* Entries that are put together in either order.
LEMMA EntriesConcat == \A s, t, u \in Seq(LogEntries) : (s \o t) \o u = s \o (t \o u)
BY ConcatAssociative

\* What is kept after a read.
LEMMA KeptRead ==
  ASSUME TypeOK, proc.pc = "read", NEW lines \in Seq(LogEntries),
         proc' = ReadNext(lines), UNCHANGED log
  PROVE  /\ Kept' = Kept \o lines
         /\ Len(Kept') = Len(Kept) + Len(lines)
         /\ \A i \in 1 .. Len(Kept) : Kept'[i] = Kept[i]
         /\ \A i \in 1 .. Len(lines) : Kept'[Len(Kept) + i] = lines[i]
<1>1. log \in Seq(LogEntries) /\ proc.logs \in Seq(LogEntries)
  BY TypeParts DEF ProcOK, Procs
<1>2. Kept' = log \o (proc.logs \o lines)
  BY ReadNextOK DEF Kept
<1>3. Kept' = Kept \o lines
  <2>1. Kept \o lines = log \o (proc.logs \o lines)
    BY <1>1, EntriesConcat DEF Kept
  <2>2. QED
    BY <1>2, <2>1
<1>4. Kept \in Seq(LogEntries) /\ Len(Kept) \in Nat /\ Len(lines) \in Nat
  BY KeptType, LenProperties
<1>5. /\ Len(Kept \o lines) = Len(Kept) + Len(lines)
      /\ \A i \in 1 .. Len(Kept) + Len(lines) :
           (Kept \o lines)[i] = IF i <= Len(Kept) THEN Kept[i] ELSE lines[i - Len(Kept)]
  BY <1>4, ConcatProperties
<1>6. ASSUME NEW i \in 1 .. Len(lines)
      PROVE  (Kept \o lines)[Len(Kept) + i] = lines[i]
  <2>1. /\ Len(Kept) + i \in 1 .. Len(Kept) + Len(lines) /\ ~(Len(Kept) + i <= Len(Kept))
        /\ (Len(Kept) + i) - Len(Kept) = i
    BY <1>4
  <2>2. QED
    BY <1>5, <2>1
<1>7. \A i \in 1 .. Len(Kept) : (Kept \o lines)[i] = Kept[i]
  BY <1>4, <1>5
<1>8. QED
  BY <1>3, <1>5, <1>6, <1>7, Zenon

\* A step that reads.
LEMMA ReadStep ==
  ASSUME TypeOK, RoundOK, proc.pc = "read", NEW p \in Pods, p = Head(proc.todo),
         NEW lines \in Seq(LogEntries), proc' = ReadNext(lines), [Next]_vars,
         UNCHANGED <<log, clock>>,
         lines = <<>> \/ \E from \in 0 .. Len(printed[p]) :
                           \E n \in 0 .. Len(printed[p]) - from :
                             Older(p, from) /\ IsRead(p, from, n, lines)
  PROVE  RoundOK'
<1> DEFINE Fresh(s) ==
             /\ \A i \in 1 .. Len(s) : /\ s[i].pod = p /\ s[i].run = proc.run
                                     /\ s[i].at <= clock /\ s[i].at > After
             /\ \A i, j \in 1 .. Len(s) : i < j => s[i].at < s[j].at
             /\ Len(s) # 0 => \A i \in 1 .. Len(Kept) :
                  Kept[i].pod = p /\ Kept[i].run = proc.run => Kept[i].at <= After
<1>1. Fresh(lines)
  <2>1. CASE lines = <<>>
    BY <2>1, EmptySeq
  <2>2. ASSUME NEW from \in 0 .. Len(printed[p]), NEW n \in 0 .. Len(printed[p]) - from,
               Older(p, from), IsRead(p, from, n, lines)
        PROVE  Fresh(lines)
    <3>1. ReadInOrder(p, n, lines)
      BY <2>2, LinesInOrder
    <3>2. QED
      BY <3>1 DEF ReadInOrder
  <2>3. QED
    BY <2>1, <2>2
<1>2. /\ Len(Kept') = Len(Kept) + Len(lines)
      /\ \A i \in 1 .. Len(Kept) : Kept'[i] = Kept[i]
      /\ \A i \in 1 .. Len(lines) : Kept'[Len(Kept) + i] = lines[i]
  BY KeptRead
<1>3. /\ \A i, j \in 1 .. Len(proc'.todo) : i # j => proc'.todo[i] # proc'.todo[j]
      /\ \A e \in LogEntries : EntryOK(e, proc, clock) => EntryOK(e, proc', clock')
      /\ \A i \in 1 .. Len(lines) : EntryOK(lines[i], proc', clock')
  BY <1>1, ReadNextStep
<1>4. /\ Len(Kept) \in Nat /\ Len(lines) \in Nat
      /\ \A i \in 1 .. Len(Kept) : Kept[i] \in LogEntries
      /\ \A i \in 1 .. Len(lines) : lines[i] \in LogEntries
  BY KeptType, LenProperties, ElementOfSeq
<1>5. ASSUME NEW i \in 1 .. Len(Kept')
      PROVE  \/ i \in 1 .. Len(Kept) /\ Kept'[i] = Kept[i]
             \/ \E k \in 1 .. Len(lines) : i = Len(Kept) + k /\ Kept'[i] = lines[k]
  <2>1. CASE i <= Len(Kept)
    BY <1>2, <1>4, <2>1
  <2>2. CASE i > Len(Kept)
    <3>1. i - Len(Kept) \in 1 .. Len(lines) /\ i = Len(Kept) + (i - Len(Kept))
      BY <1>2, <1>4, <2>2
    <3>2. QED
      BY <1>2, <3>1
  <2>3. QED
    BY <1>2, <1>4, <2>1, <2>2
<1>6. \A i \in 1 .. Len(Kept') : EntryOK(Kept'[i], proc', clock')
  BY <1>3, <1>4, <1>5 DEF RoundOK
<1>7. InOrderOnce'
  <2> SUFFICES ASSUME NEW i \in 1 .. Len(Kept'), NEW j \in 1 .. Len(Kept'), i < j,
                      Kept'[i].pod = Kept'[j].pod, Kept'[i].run = Kept'[j].run
               PROVE  Kept'[i].at < Kept'[j].at
    BY DEF InOrderOnce
  <2>1. CASE j \in 1 .. Len(Kept)
    <3>1. i \in 1 .. Len(Kept)
      BY <1>4, <2>1
    <3>2. Kept'[i] = Kept[i] /\ Kept'[j] = Kept[j]
      BY <1>2, <2>1, <3>1
    <3>3. QED
      BY <2>1, <3>1, <3>2 DEF RoundOK, InOrderOnce
  <2>2. CASE i \in 1 .. Len(Kept) /\ j \notin 1 .. Len(Kept)
    <3>1. PICK k \in 1 .. Len(lines) : Kept'[j] = lines[k]
      BY <1>5, <2>2
    <3>2. Kept'[i] = Kept[i]
      BY <1>2, <2>2
    <3>3. Kept[i].at <= After /\ lines[k].at > After
      BY <1>1, <1>4, <2>2, <3>1, <3>2
    <3>4. Kept[i].at \in Nat /\ lines[k].at \in Nat /\ After \in Int
      <4>1. Kept[i] \in LogEntries /\ lines[k] \in LogEntries
        BY <1>4, <2>2, <3>1
      <4>2. After \in Int
        BY TypeParts, LogDurationType DEF After
      <4>3. \A e \in LogEntries : e.at \in Nat
        BY DEF LogEntries
      <4>4. QED
        BY <4>1, <4>2, <4>3
    <3>5. Kept[i].at < lines[k].at
      <4>1. \A x, y \in Nat : \A z \in Int : x <= z /\ y > z => x < y
        OBVIOUS
      <4>2. QED
        BY <3>3, <3>4, <4>1, Zenon
    <3>6. QED
      BY <3>1, <3>2, <3>5
  <2>3. CASE i \notin 1 .. Len(Kept)
    <3>1. PICK k \in 1 .. Len(lines) : i = Len(Kept) + k /\ Kept'[i] = lines[k]
      BY <1>5, <2>3
    <3>2. j \notin 1 .. Len(Kept)
      BY <1>4, <3>1
    <3>3. PICK m \in 1 .. Len(lines) : j = Len(Kept) + m /\ Kept'[j] = lines[m]
      BY <1>5, <3>2
    <3>4. k < m
      BY <1>4, <3>1, <3>3
    <3>5. QED
      BY <1>1, <3>1, <3>3, <3>4
  <2>4. QED
    BY <2>1, <2>2, <2>3
<1>8. QED
  BY <1>3, <1>6, <1>7, PrintedStep DEF RoundOK

LEMMA RoundInit == Init => RoundOK
<1> SUFFICES ASSUME Init PROVE RoundOK
  OBVIOUS
<1>1. log = <<>> /\ proc.logs = <<>> /\ proc.todo = <<>>
  BY DEF Init, LogInit, NewProc
<1>2. Kept = <<>>
  BY <1>1, ConcatEmptySeq, EmptySeq DEF Kept
<1>3. Len(Kept) = 0 /\ Len(proc.todo) = 0
  BY <1>1, <1>2, EmptySeq
<1>4. \A p \in Pods : Len(printed[p]) = 0
  BY EmptySeq DEF Init
<1>5. QED
  BY <1>3, <1>4 DEF RoundOK, PrintedOK, InOrderOnce

LEMMA RoundStep == TypeOK /\ RoundOK /\ [Next]_vars => RoundOK'
<1> SUFFICES ASSUME TypeOK, RoundOK, [Next]_vars PROVE RoundOK'
  OBVIOUS
<1>1. ASSUME NEW p \in Pods, ReadLogs(p) \/ ReadFails(p)
      PROVE  RoundOK'
  <2>1. proc.pc = "read" /\ p = Head(proc.todo) /\ UNCHANGED <<log, clock>>
    BY <1>1 DEF ReadLogs, ReadFails, world
  <2>2. QED
    BY <1>1, <2>1, ReadIs, ReadStep
<1>2. CASE UNCHANGED vars
  <2>1. UNCHANGED <<Kept, proc, clock, printed>>
    BY <1>2 DEF vars, Kept
  <2>2. InOrderOnce'
    BY <2>1 DEF RoundOK, InOrderOnce
  <2>3. QED
    BY <2>1, <2>2 DEF RoundOK
<1>3. QED
  BY <1>1, <1>2, QuietStep DEF Next, Collect, Ends

\* Whatever a process has read of a Pod is older than what it will ask for next:
\* the inductive invariant behind InOrderOnce.
THEOREM RoundInvariant == Spec => []RoundOK
BY TypeInit, TypeStep, RoundInit, RoundStep, PTL DEF Spec

\* What one process has read of a Pod is kept once and in the order it was
\* printed, however long a round takes, for any window, any number of Pods and
\* of restarts (collector.go:216-284).
THEOREM EntriesInOrderOnce == Spec => []InOrderOnce
<1>1. RoundOK => InOrderOnce
  BY DEF RoundOK
<1>2. QED
  BY <1>1, RoundInvariant, PTL

-----------------------------------------------------------------------------
(* Nothing is lost. *)

\* The last read of a Pod is not in the future.
ClaimOK == \A p \in Pods : last[p] # None => last[p] <= clock

\* All of the line is kept.
IsKept(line) ==
  \E i \in 1 .. Len(Kept) : Kept[i].pod = line.pod /\ Kept[i].at = line.at /\ Kept[i].whole

\* What has been claimed is there.
HasAll(p) ==
  last[p] # None => \A k \in 1 .. Len(printed[p]) :
    since[p] < printed[p][k].at /\ printed[p][k].at <= last[p] => IsKept(printed[p][k])

LEMMA CollectedIs ==
  ASSUME TypeOK
  PROVE  Collected <=> (end # "torn" => \A p \in Pods : HasAll(p))
<1>1. \A p \in Pods : ToSet(printed[p]) = {printed[p][k] : k \in 1 .. Len(printed[p])}
  BY LenProperties, TypeParts DEF ToSet
<1>2. ASSUME NEW p \in Pods
      PROVE  HasAll(p) <=> (last[p] # None => \A line \in ToSet(printed[p]) :
                              since[p] < line.at /\ line.at <= last[p] => IsKept(line))
  BY <1>1 DEF HasAll
<1>3. QED
  BY <1>2 DEF Collected, IsKept

LEMMA ClaimStep == TypeOK /\ ClaimOK /\ [Next]_vars => ClaimOK'
<1> SUFFICES ASSUME TypeOK, ClaimOK, [Next]_vars PROVE ClaimOK'
  OBVIOUS
<1>1. clock \in Nat /\ (clock' = clock \/ clock' = clock + 1)
  BY TypeParts DEF Next, vars, world, World, Tick, LogLine, StartPod, EndPod, Collect, Start,
     Restart, ListPods, ReadLogs, ReadFails, ReadPanics, WriteLogs, Written, WriteFails, WakeUp
<1>2. \A p \in Pods : last'[p] \in {last[p], None} \/ (last'[p] = clock /\ clock' = clock)
  BY TypeParts DEF Next, vars, world, history, World, Tick, LogLine, StartPod, EndPod, Collect,
     Start, Restart, ListPods, ReadLogs, ReadFails, ReadPanics, WriteLogs, Written, WriteFails,
     WakeUp, Forget
<1>3. \A p \in Pods : last[p] \in Nat \cup {None}
  BY TypeParts
<1>4. QED
  BY <1>1, <1>2, <1>3 DEF ClaimOK

\* A line stays kept, unless its read is forgotten or the file is spoilt.
LEMMA KeptStays ==
  ASSUME TypeOK, [Next]_vars, end' # "torn", ~Ends, ~WriteFails
  PROVE  \A line \in Lines : IsKept(line) => IsKept(line)'
<1> SUFFICES Len(Kept) <= Len(Kept') /\ \A i \in 1 .. Len(Kept) : Kept'[i] = Kept[i]
  <2>1. Len(Kept) \in Nat /\ Len(Kept') \in Nat
    BY TypeStep, KeptType
  <2>2. QED
    BY <2>1 DEF IsKept
<1>1. Len(Kept) \in Nat
  BY KeptType
<1>2. CASE Kept' = Kept
  BY <1>1, <1>2
<1>3. CASE log' = log /\ proc'.logs = proc.logs
  BY <1>2, <1>3 DEF Kept
<1>4. CASE World \/ UNCHANGED vars
  BY <1>3, <1>4 DEF World, vars
<1>5. CASE Start \/ WakeUp
  BY <1>3, <1>5, TypeParts DEF Start, WakeUp, ProcOK, Procs
<1>6. CASE ListPods
  <2>1. PICK todo \in Seq(Pods) : proc' = ReadFrom(todo, <<>>)
    BY <1>6, ListType
  <2>2. proc'.logs = <<>> /\ proc.logs = <<>> /\ log' = log
    BY <1>6, <2>1, ReadFromNothing, TypeParts DEF ListPods, ProcOK
  <2>3. QED
    BY <1>3, <2>2
<1>7. CASE WriteLogs
  BY <1>2, <1>7, WriteLogsType
<1>8. CASE Written
  <2>1. end # "torn" /\ log' = log
    BY <1>8 DEF Written
  <2>2. proc.logs = <<>> /\ proc'.logs = <<>>
    BY <1>8, <2>1, GoToSleepOK DEF Written
  <2>3. QED
    BY <1>3, <2>1, <2>2
<1>9. ASSUME NEW p \in Pods, ReadLogs(p) \/ ReadFails(p)
      PROVE  Len(Kept) <= Len(Kept') /\ \A i \in 1 .. Len(Kept) : Kept'[i] = Kept[i]
  <2>1. PICK lines \in Seq(LogEntries) : proc' = ReadNext(lines)
    BY <1>9, ReadIs
  <2>2. proc.pc = "read" /\ log' = log
    BY <1>9 DEF ReadLogs, ReadFails
  <2>3. /\ Len(Kept') = Len(Kept) + Len(lines) /\ Len(lines) \in Nat
        /\ \A i \in 1 .. Len(Kept) : Kept'[i] = Kept[i]
    BY <2>1, <2>2, KeptRead, LenProperties
  <2>4. QED
    BY <1>1, <2>3
<1>10. QED
  BY <1>4, <1>5, <1>6, <1>7, <1>8, <1>9 DEF Next, Collect, Ends

\* After a read the Pod's claim holds up to now.
LEMMA ReadClaims ==
  ASSUME TypeOK, RoundOK, [Next]_vars, end' # "torn", NEW p \in Pods, HasAll(p), ReadLogs(p)
  PROVE  HasAll(p)'
<1>1. PICK from \in 0 .. Len(printed[p]) :
        /\ Older(p, from)
        /\ proc' = ReadNext(LinesOf(p, from, Len(printed[p]) - from))
  BY DEF ReadLogs
<1> DEFINE n == Len(printed[p]) - from
           lines == LinesOf(p, from, n)
<1>2. /\ UNCHANGED <<log, printed, clock, end>> /\ proc.pc = "read" /\ last'[p] = clock
      /\ Len(printed[p]) \in Nat /\ clock \in Nat
  BY TypeParts, LenProperties DEF ReadLogs, world
<1>3. /\ from \in Nat /\ n \in Nat /\ from + n = Len(printed[p])
  BY <1>2
<1>4. /\ lines \in Seq(LogEntries) /\ Len(lines) = n
      /\ \A i \in 1 .. n : /\ lines[i].pod = printed[p][from + i].pod
                           /\ lines[i].at = printed[p][from + i].at /\ lines[i].whole = TRUE
  <2>1. from + n <= Len(printed[p])
    BY <1>2, <1>3
  <2> HIDE DEF n
  <2>2. /\ IsRead(p, from, n, lines)
        /\ \A i \in 1 .. n : lines[i].whole = TRUE
    BY <1>3, <2>1, LinesOfType
  <2> HIDE DEF lines
  <2>3. QED
    BY <2>2 DEF IsRead
<1>5. \A i \in 1 .. n : Kept'[Len(Kept) + i] = lines[i] /\ Len(Kept') = Len(Kept) + n
  BY <1>1, <1>2, <1>4, KeptRead
<1>6. ASSUME NEW k \in 1 .. Len(printed[p]), printed[p][k].at > After
      PROVE  IsKept(printed[p][k])'
  <2>1. k \in from + 1 .. Len(printed[p])
    <3>1. CASE k \in 1 .. from
      <4>1. printed[p][k].at <= After
        BY <1>1, <3>1 DEF Older
      <4>2. printed[p][k].at \in Nat /\ After \in Int
        BY PrintedType, TypeParts, LogDurationType DEF After
      <4>3. QED
        BY <1>6, <4>1, <4>2
    <3>2. QED
      BY <1>2, <1>3, <3>1
  <2>2. k - from \in 1 .. n /\ from + (k - from) = k
    BY <1>2, <1>3, <2>1
  <2> DEFINE m == Len(Kept) + (k - from)
  <2>3. Kept'[m] = lines[k - from] /\ m \in 1 .. Len(Kept')
    BY <1>3, <1>5, <2>2, KeptType
  <2>4. /\ lines[k - from].pod = printed[p][k].pod /\ lines[k - from].at = printed[p][k].at
        /\ lines[k - from].whole = TRUE
    BY <1>4, <2>2
  <2> HIDE DEF m, lines, n
  <2>5. \E i \in 1 .. Len(Kept') : /\ Kept'[i].pod = printed[p][k].pod
                                   /\ Kept'[i].at = printed[p][k].at /\ Kept'[i].whole
    BY <2>3, <2>4
  <2>6. QED
    BY <1>2, <2>5 DEF IsKept
<1> HIDE DEF n, lines
<1>7. SUFFICES ASSUME NEW k \in 1 .. Len(printed[p]), since'[p] < printed[p][k].at
               PROVE  IsKept(printed[p][k])'
  BY <1>2 DEF HasAll
<1>8. printed[p][k].at \in 1 .. clock
  BY DEF RoundOK, PrintedOK
<1>9. printed[p][k].at \in Nat /\ After \in Int /\ since[p] \in Nat
  BY TypeParts, PrintedType, LogDurationType DEF After
<1>10. CASE printed[p][k].at > After
  BY <1>6, <1>10
<1>11. CASE ~(printed[p][k].at > After)
  <2>1. CASE last[p] # None /\ clock <= last[p] + LogDuration
    <3>1. since' = since /\ last[p] \in Nat
      BY <2>1, TypeParts DEF ReadLogs
    <3>2. After \in {0, clock - LogDuration}
      BY DEF After
    <3>3. printed[p][k].at <= last[p]
      BY <1>2, <1>8, <1>9, <1>11, <2>1, <3>1, <3>2, LogDurationType
    <3>4. IsKept(printed[p][k])
      BY <1>7, <2>1, <3>1, <3>3 DEF HasAll
    <3>5. ~Ends /\ ~WriteFails
      <4>1. last'[p] # None
        BY <1>2, CollectorAssumption
      <4>2. Forget => last'[p] = None
        BY DEF Forget
      <4>3. QED
        BY <4>1, <4>2, EndsIs DEF WriteFails
    <3>6. IsKept(printed[p][k]) => (\E i \in 1 .. Len(Kept') :
             /\ Kept'[i].pod = printed[p][k].pod /\ Kept'[i].at = printed[p][k].at
             /\ Kept'[i].whole)
      BY <3>5, PrintedType, KeptStays DEF IsKept
    <3>7. QED
      BY <1>2, <3>4, <3>6 DEF IsKept
  <2>2. CASE ~(last[p] # None /\ clock <= last[p] + LogDuration)
    <3>1. since'[p] = IF After > 0 THEN After ELSE 0
      BY <2>2, TypeParts DEF ReadLogs
    <3>2. QED
      BY <1>7, <1>8, <1>9, <1>11, <3>1
  <2>3. QED
    BY <2>1, <2>2
<1>12. QED
  BY <1>10, <1>11

\* The claim to have everything is right.
ClaimsRight == ClaimOK /\ (end # "torn" => \A p \in Pods : HasAll(p))

\* A step that does not read the Pod keeps its claim, unless it forgets it.
LEMMA OthersKeepClaims ==
  ASSUME TypeOK, ClaimOK, [Next]_vars, end' # "torn", NEW p \in Pods, HasAll(p),
         UNCHANGED <<last[p], since[p]>>, ~Ends, ~WriteFails
  PROVE  HasAll(p)'
<1> SUFFICES ASSUME last[p] # None, NEW k \in 1 .. Len(printed'[p]),
                    since[p] < printed'[p][k].at, printed'[p][k].at <= last[p]
             PROVE  \E i \in 1 .. Len(Kept') :
                      /\ Kept'[i].pod = printed'[p][k].pod /\ Kept'[i].at = printed'[p][k].at
                      /\ Kept'[i].whole
  BY DEF HasAll, IsKept
<1>1. /\ printed[p] \in Seq(Lines) /\ Len(printed[p]) \in Nat /\ last[p] \in Nat
      /\ clock \in Nat /\ last[p] <= clock
  BY TypeParts, LenProperties DEF ClaimOK
<1>2. k \in 1 .. Len(printed[p]) /\ printed'[p][k] = printed[p][k]
  <2> DEFINE line == [pod |-> p, at |-> clock + 1]
  <2>1. printed'[p] \in {printed[p], Append(printed[p], line)}
    BY TypeParts DEF Next, vars, world, World, Tick, LogLine, StartPod, EndPod, Collect, Start,
       Restart, ListPods, ReadLogs, ReadFails, ReadPanics, WriteLogs, Written, WriteFails, WakeUp
  <2>2. CASE printed'[p] = printed[p]
    BY <2>2
  <2>3. CASE printed'[p] = Append(printed[p], line)
    <3>1. /\ Len(printed'[p]) = Len(printed[p]) + 1
          /\ \A i \in 1 .. Len(printed[p]) : printed'[p][i] = printed[p][i]
          /\ printed'[p][Len(printed[p]) + 1] = line
      <4>1. line \in Lines
        BY <1>1 DEF Lines
      <4>2. QED
        BY <1>1, <2>3, <4>1, AppendProperties
    <3>2. k # Len(printed[p]) + 1
      <4>1. line.at = clock + 1
        OBVIOUS
      <4> HIDE DEF line
      <4>2. QED
        BY <1>1, <3>1, <4>1
    <3>3. QED
      BY <1>1, <3>1, <3>2
  <2>4. QED
    BY <2>1, <2>2, <2>3
<1>3. printed[p][k] \in Lines
  BY <1>1, <1>2, ElementOfSeq
<1>4. IsKept(printed[p][k])
  BY <1>2 DEF HasAll
<1>5. IsKept(printed[p][k]) => \E i \in 1 .. Len(Kept') :
        /\ Kept'[i].pod = printed[p][k].pod /\ Kept'[i].at = printed[p][k].at /\ Kept'[i].whole
  BY <1>3, KeptStays DEF IsKept
<1>6. QED
  BY <1>2, <1>4, <1>5

LEMMA ClaimsStep == TypeOK /\ RoundOK /\ ClaimsRight /\ [Next]_vars => ClaimsRight'
<1> SUFFICES ASSUME TypeOK, RoundOK, ClaimsRight, [Next]_vars PROVE ClaimsRight'
  OBVIOUS
<1>1. ClaimOK /\ ClaimOK'
  BY ClaimStep DEF ClaimsRight
<1>2. ASSUME end' # "torn", NEW p \in Pods
      PROVE  HasAll(p)'
  <2>1. HasAll(p)
    BY <1>2, LogStep DEF ClaimsRight
  <2>2. CASE Ends \/ WriteFails \/ ReadFails(p)
    <3>1. last'[p] = None
      BY <2>2, EndsIs, TypeParts DEF WriteFails, ReadFails, Forget
    <3>2. QED
      BY <3>1 DEF HasAll
  <2>3. CASE ReadLogs(p)
    BY <1>2, <2>1, <2>3, ReadClaims
  <2>4. CASE ~Ends /\ ~WriteFails /\ UNCHANGED <<last[p], since[p]>>
    BY <1>1, <1>2, <2>1, <2>4, OthersKeepClaims
  <2>5. ASSUME NEW q \in Pods, q # p, ReadLogs(q) \/ ReadFails(q)
        PROVE  UNCHANGED <<last[p], since[p]>>
    BY <2>5, TypeParts DEF ReadLogs, ReadFails
  <2>6. CASE UNCHANGED <<last, since>>
    BY <2>2, <2>4, <2>6
  <2>7. QED
    BY <2>2, <2>3, <2>4, <2>5, <2>6
       DEF Next, vars, history, World, Collect, Ends, Start, ListPods, WriteLogs, Written, WakeUp
<1>3. QED
  BY <1>1, <1>2 DEF ClaimsRight

LEMMA ClaimsInit == Init => ClaimsRight
BY DEF Init, ClaimsRight, ClaimOK, HasAll

\* No line is lost while a Pod is read every LogDuration seconds and no call
\* fails: from the first window on, every line up to the last read is in the
\* file or about to be written, for any window, any number of Pods and any
\* length of a round (collector.go:230-258, 278).
THEOREM NothingLost == Spec => []Collected
<1>1. Spec => [](TypeOK /\ RoundOK)
  BY CollectorTyping, RoundInvariant, PTL
<1>2. Spec => []ClaimsRight
  BY <1>1, ClaimsInit, ClaimsStep, PTL DEF Spec
<1>3. TypeOK /\ ClaimsRight => Collected
  BY CollectedIs DEF ClaimsRight
<1>4. QED
  BY <1>1, <1>2, <1>3, PTL

=============================================================================
