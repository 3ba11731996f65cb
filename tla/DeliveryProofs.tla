---------------------------- MODULE DeliveryProofs ----------------------------
(***************************************************************************)
(* Theorems about the way of the log to the analysis tools, for any number *)
(* of destinations, addresses and posts under way, and every bound.        *)
(***************************************************************************)
EXTENDS Delivery, SequenceTheorems, TLAPS

-----------------------------------------------------------------------------
(* What is written over a file. *)

\* A function on the first n numbers is a sequence.
LEMMA FunctionIsSeq ==
  ASSUME NEW S, NEW n \in Nat, NEW f \in [1 .. n -> S]
  PROVE  f \in Seq(S) /\ Len(f) = n
OBVIOUS

\* Every byte stands where it stands in one of two sequences.
Mixed(new, data, csv) ==
  \A k \in 1 .. Len(new) :
    \/ k \in 1 .. Len(data) /\ new[k] = data[k]
    \/ k \in 1 .. Len(csv) /\ new[k] = csv[k]

\* Overwriting leaves no gap, and every byte is in its place of the text or
\* of what was there.
LEMMA OverwriteIs ==
  ASSUME NEW S, NEW csv \in Seq(S), NEW data \in Seq(S), NEW from \in Nat, NEW to \in Nat,
         from < to, to <= Len(data), from <= Len(csv)
  PROVE  LET new == Overwrite(csv, data, from, to)
         IN /\ new \in Seq(S)
            /\ Len(csv) <= Len(new) /\ to <= Len(new)
            /\ Mixed(new, data, csv)
<1> DEFINE n == IF to > Len(csv) THEN to ELSE Len(csv)
<1> DEFINE f == [k \in 1 .. n |-> IF k \in from + 1 .. to THEN data[k] ELSE csv[k]]
<1>1. n \in Nat /\ Len(csv) <= n /\ to <= n
  OBVIOUS
<1>2. \A k \in 1 .. n : \/ k \in 1 .. Len(data) /\ f[k] = data[k]
                        \/ k \in 1 .. Len(csv) /\ f[k] = csv[k]
  OBVIOUS
<1>3. f \in [1 .. n -> S]
  BY <1>2, ElementOfSeq
<1>4. f \in Seq(S) /\ Len(f) = n
  BY <1>1, <1>3, FunctionIsSeq
<1>5. f = Overwrite(csv, data, from, to)
  BY DEF Overwrite
<1> HIDE DEF f, n
<1>6. QED
  BY <1>1, <1>2, <1>4, <1>5 DEF Mixed

-----------------------------------------------------------------------------
(* Type correctness. *)

\* The logs within the bound, and what is known of them.
LEMMA LogsAre ==
  /\ \A l \in Logs : l \in Seq(Entries) /\ Len(l) \in Nat /\ Len(l) <= MaxLog
  /\ \A l \in Seq(Entries) : Len(l) <= MaxLog => l \in Logs
<1>1. ASSUME NEW l \in Logs
      PROVE  l \in Seq(Entries) /\ Len(l) \in Nat /\ Len(l) <= MaxLog
  <2>1. PICK n \in 0 .. MaxLog : l \in [1 .. n -> Entries]
    BY <1>1 DEF Logs
  <2>2. l \in Seq(Entries) /\ Len(l) = n
    BY <2>1, FunctionIsSeq, DeliveryAssumption
  <2>3. QED
    BY <2>1, <2>2, DeliveryAssumption
<1>2. ASSUME NEW l \in Seq(Entries), Len(l) <= MaxLog
      PROVE  l \in Logs
  <2>1. Len(l) \in Nat /\ l \in [1 .. Len(l) -> Entries]
    BY LenProperties
  <2>2. Len(l) \in 0 .. MaxLog
    BY <1>2, <2>1, DeliveryAssumption
  <2>3. QED
    BY <2>1, <2>2 DEF Logs
<1>3. QED
  BY <1>1, <1>2

LEMMA MaxLogType == MaxLog \in Nat
BY DeliveryAssumption

LEMMA EmptyLog == <<>> \in Logs
<1>1. <<>> \in Seq(Entries) /\ Len(<<>>) = 0
  BY EmptySeq
<1>2. Len(<<>>) <= MaxLog
  BY <1>1, MaxLogType
<1>3. QED
  BY <1>1, <1>2, LogsAre

LEMMA AppendLog ==
  ASSUME NEW l \in Logs, Len(l) < MaxLog, NEW e \in Entries
  PROVE  Append(l, e) \in Logs
<1>1. l \in Seq(Entries) /\ Len(l) \in Nat
  BY LogsAre
<1>2. Append(l, e) \in Seq(Entries) /\ Len(Append(l, e)) = Len(l) + 1
  BY <1>1, AppendProperties
<1>3. Len(Append(l, e)) <= MaxLog
  BY <1>1, <1>2, MaxLogType
<1>4. QED
  BY <1>2, <1>3, LogsAre

LEMMA CsvType == \A l \in Logs : Csv[l] \in Seq(Bytes) /\ Len(Csv[l]) \in Nat
BY DeliveryAssumption, LenProperties

LEMMA TextType ==
  ASSUME NEW p, p.data \in Logs
  PROVE  Text(p) \in Seq(Bytes) /\ Len(Text(p)) \in Nat
BY CsvType, EmptySeq DEF Text

LEMMA ReadableType == TypeOK => Readable \in Logs
BY EmptyLog DEF TypeOK, Readable

\* What TypeOK says of the sender's address.
SenderOK(s) ==
  /\ s \in Senders
  /\ s.pc = "await" <=> s.await # None
  /\ s.pc \in {"post", "await"} => s.at \in 1 .. Len(s.addrs)

LEMMA AddressType ==
  ASSUME NEW s, SenderOK(s)
  PROVE  /\ Len(s.addrs) \in Nat
         /\ \A n \in 1 .. Len(s.addrs) : s.addrs[n] \in Destinations
<1>1. s.addrs \in Seq(Destinations)
  BY DEF SenderOK, Senders
<1>2. QED
  BY <1>1, LenProperties, ElementOfSeq

\* What TypeOK says of one post, apart from whoever waits for it.
PostOK(p) ==
  /\ p \in PostStates
  /\ p.pc # "free" => p.to # None
  /\ p.next <= Len(Text(p))
  /\ p.pc = "open" => p.next <= Len(received[p.to])

\* ... and of it and the sender.
Awaited(s, ps) ==
  /\ s.pc = "await" => /\ ps[s.await].pc # "free"
                       /\ ps[s.await].to = s.addrs[s.at]
  /\ \A i \in Posts : ps[i].pc = "done" => s.await = i

LEMMA TypeParts ==
  TypeOK <=> /\ log \in Logs /\ end \in {"whole", "half", "torn"}
             /\ end = "half" => Len(log) < MaxLog
             /\ old \in SUBSET Logs
             /\ SenderOK(sender)
             /\ post \in [Posts -> PostStates]
             /\ \A i \in Posts : PostOK(post[i])
             /\ Awaited(sender, post)
             /\ received \in [Destinations -> Seq(Bytes)]
             /\ hung \in SUBSET Destinations /\ broken \in SUBSET Destinations
             /\ faults \in Nat
BY DEF TypeOK, SenderOK, PostOK, Awaited

LEMMA AtStartOK == SenderOK(AtStart)
BY EmptySeq, EmptyLog DEF SenderOK, AtStart, Senders

LEMMA FreeOK == PostOK(Free)
<1>1. Free.data = <<>> /\ Free.next = 0 /\ Free.pc = "free" /\ Free \in PostStates
  BY EmptyLog DEF Free, PostStates
<1>2. Len(Text(Free)) \in Nat
  BY <1>1, EmptyLog, TextType
<1>3. QED
  BY <1>1, <1>2 DEF PostOK

LEMMA FaultType == TypeOK /\ Fault => faults' \in Nat
BY DEF TypeOK, Fault

\* The sender leaves its post for a state in which it waits for none.
LEMMA LeavePostType ==
  ASSUME TypeOK, NEW s, SenderOK(s), s.await = None
  PROVE  /\ LeavePost \in [Posts -> PostStates]
         /\ \A i \in Posts : PostOK(LeavePost[i])
         /\ Awaited(s, LeavePost)
<1>1. \A i \in Posts : LeavePost[i] = Free \/ LeavePost[i] = post[i]
  BY DEF LeavePost
<1>2. \A i \in Posts : PostOK(LeavePost[i])
  BY <1>1, FreeOK, TypeParts
<1>3. \A i \in Posts : LeavePost[i].pc # "done"
  BY TypeParts DEF LeavePost, Free, Awaited
<1>4. LeavePost \in [Posts -> PostStates]
  BY <1>2 DEF LeavePost, PostOK
<1>5. QED
  BY <1>2, <1>3, <1>4 DEF Awaited, SenderOK

LEMMA NextAddressOK ==
  ASSUME TypeOK, sender.pc \in {"post", "await"}
  PROVE  SenderOK(NextAddress) /\ NextAddress.await = None
<1>1. /\ sender.at \in 1 .. Len(sender.addrs) /\ sender \in Senders
      /\ Len(sender.addrs) \in Nat
  BY TypeParts, AddressType DEF SenderOK
<1>2. sender.at < Len(sender.addrs) => sender.at + 1 \in 1 .. Len(sender.addrs)
  BY <1>1
<1>3. sender.at + 1 \in Nat
  BY <1>1
<1>4. NextAddress \in Senders
  BY <1>1, <1>3 DEF NextAddress, Senders
<1>5. /\ NextAddress.await = None /\ NextAddress.at = sender.at + 1
      /\ NextAddress.addrs = sender.addrs
  BY <1>1 DEF NextAddress, Senders
<1>6. \/ NextAddress.pc = "post" /\ sender.at < Len(sender.addrs)
      \/ NextAddress.pc = "rest"
  BY <1>1 DEF NextAddress, Senders
<1>7. QED
  BY <1>2, <1>4, <1>5, <1>6 DEF SenderOK

LEMMA CloseType ==
  ASSUME TypeOK, NEW i \in Posts, post[i].pc = "open", CloseConnection(i),
         UNCHANGED <<sender, received>>
  PROVE  /\ post' \in [Posts -> PostStates]
         /\ (\A j \in Posts : PostOK(post[j]))'
         /\ Awaited(sender, post)'
<1> DEFINE done == [post[i] EXCEPT !.pc = "done"]
<1>1. /\ post' = [post EXCEPT ![i] = post'[i]]
      /\ post'[i] = IF sender.await = i THEN done ELSE Free
  BY TypeParts DEF CloseConnection
<1>2. PostOK(done) /\ PostOK(Free) /\ done.pc = "done" /\ done.to = post[i].to
  <2>1. PostOK(post[i]) /\ post[i] \in PostStates
    BY TypeParts
  <2>2. /\ done \in PostStates /\ done.pc = "done" /\ done.to = post[i].to
        /\ done.data = post[i].data /\ done.next = post[i].next
    BY <2>1 DEF PostStates
  <2>3. Text(done) = Text(post[i])
    BY <2>2 DEF Text
  <2>4. PostOK(done)
    BY <2>1, <2>2, <2>3 DEF PostOK
  <2>5. QED
    BY <2>2, <2>4, FreeOK
<1>3. \A j \in Posts : PostOK(post'[j])
  BY <1>1, <1>2, TypeParts
<1>4. post' \in [Posts -> PostStates] /\ (\A j \in Posts : PostOK(post[j]))'
  BY <1>1, <1>3, TypeParts DEF PostOK
<1>5. \A j \in Posts : j # i => post'[j] = post[j]
  BY <1>1, TypeParts
<1>6. post'[i].pc = "done" <=> sender.await = i
  BY <1>1, <1>2 DEF Free
<1>7. sender.pc = "await" => sender.await \in Posts
  BY TypeParts DEF SenderOK, Senders
<1>8. sender.await = i => post'[i].pc = "done" /\ post'[i].to = post[i].to
  BY <1>1, <1>2
<1>9. Awaited(sender, post)
  BY TypeParts
<1>10. Awaited(sender, post)'
  BY <1>5, <1>6, <1>7, <1>8, <1>9 DEF Awaited
<1>11. QED
  BY <1>4, <1>10

\* The sender goes on without touching a post.
LEMMA GoType ==
  ASSUME TypeOK, sender.pc # "await", NEW s, SenderOK(s), s.pc # "await",
         Go(s), UNCHANGED post, faults' \in Nat
  PROVE  TypeOK'
<1>1. Awaited(sender, post)'
  BY TypeParts DEF Awaited, SenderOK, Go
<1>2. SenderOK(sender)'
  BY DEF SenderOK, Go
<1>3. (\A i \in Posts : PostOK(post[i]))'
  BY TypeParts DEF PostOK, Go
<1>4. QED
  BY <1>1, <1>2, <1>3, TypeParts DEF Go, file, TypeOK, SenderOK, Awaited, PostOK

\* ... or leaving the one it has waited for.
LEMMA LeaveType ==
  ASSUME TypeOK, NEW s, SenderOK(s), s.await = None,
         sender' = s, post' = LeavePost, UNCHANGED <<received, hung, broken>>, faults' \in Nat,
         (/\ log \in Logs /\ end \in {"whole", "half", "torn"} /\ old \in SUBSET Logs
          /\ end = "half" => Len(log) < MaxLog)'
  PROVE  TypeOK'
<1>1. Awaited(sender, post)' /\ (post \in [Posts -> PostStates])'
  BY LeavePostType
<1>2. (\A i \in Posts : PostOK(post[i]))'
  BY LeavePostType DEF PostOK
<1>3. SenderOK(sender)'
  BY DEF SenderOK
<1>4. QED
  BY <1>1, <1>2, <1>3, TypeParts DEF TypeOK, SenderOK, Awaited, PostOK

\* ... or the handler of a post ends.
LEMMA EndPostType ==
  ASSUME TypeOK, NEW i \in Posts, post[i].pc = "open", CloseConnection(i),
         UNCHANGED <<file, sender, received, hung>>, faults' \in Nat,
         broken' \in SUBSET Destinations
  PROVE  TypeOK'
<1>1. /\ post' \in [Posts -> PostStates]
      /\ (\A j \in Posts : PostOK(post[j]))'
      /\ Awaited(sender, post)'
  BY CloseType
<1>2. QED
  BY <1>1, TypeParts DEF TypeOK, SenderOK, Awaited, PostOK, file

LEMMA PostLogsType ==
  ASSUME TypeOK, PostLogs
  PROVE  TypeOK'
<1>1. CASE Go(NextAddress) /\ Fault /\ UNCHANGED post
  <2>1. SenderOK(NextAddress) /\ NextAddress.await = None
    BY NextAddressOK DEF PostLogs
  <2>2. QED
    BY <1>1, <2>1, GoType, FaultType DEF PostLogs, SenderOK
<1>2. ASSUME NEW i \in Posts, post[i].pc = "free", UNCHANGED faults,
             post' = [post EXCEPT ![i] = [pc |-> "open", to |-> sender.addrs[sender.at],
                                          data |-> sender.body, next |-> 0]],
             Go([sender EXCEPT !.pc = "await", !.await = i])
      PROVE  TypeOK'
  <2> DEFINE new == [pc |-> "open", to |-> sender.addrs[sender.at],
                     data |-> sender.body, next |-> 0]
             s == [sender EXCEPT !.pc = "await", !.await = i]
  <2>1. SenderOK(sender) /\ sender.pc = "post" /\ sender.await = None
    BY TypeParts DEF SenderOK, PostLogs
  <2>2. i # None /\ sender.at \in 1 .. Len(sender.addrs)
    BY <2>1, DeliveryAssumption DEF SenderOK
  <2>3. /\ SenderOK(s) /\ s.pc = "await" /\ s.await = i /\ s.at = sender.at
        /\ s.addrs = sender.addrs
    BY <2>1, <2>2 DEF SenderOK, Senders
  <2>4. sender.addrs[sender.at] \in Destinations /\ sender.addrs[sender.at] # None
    BY <2>1, <2>2, AddressType, DeliveryAssumption
  <2>5. sender.body \in Logs
    BY <2>1 DEF SenderOK, Senders
  <2>6. PostOK(new)
    <3>1. /\ new \in PostStates /\ new.pc = "open" /\ new.next = 0
          /\ new.data = sender.body /\ new.to = sender.addrs[sender.at]
      BY <2>4, <2>5 DEF PostStates
    <3>2. Len(Text(new)) \in Nat
      BY <2>5, <3>1, TextType
    <3>3. received[new.to] \in Seq(Bytes)
      BY <2>4, <3>1, TypeParts
    <3>4. QED
      BY <2>4, <3>1, <3>2, <3>3, LenProperties DEF PostOK
  <2>7. \A j \in Posts : post[j].pc # "done"
    BY <2>1, TypeParts, DeliveryAssumption DEF Awaited
  <2>8. Awaited(s, post')
    BY <1>2, <2>3, <2>7, TypeParts DEF Awaited
  <2>9. \A j \in Posts : PostOK(post'[j])
    BY <1>2, <2>6, TypeParts
  <2>10. sender' = s /\ UNCHANGED <<file, received, hung, broken>>
    BY <1>2 DEF Go
  <2>11. post' \in [Posts -> PostStates]
    BY <1>2, <2>6, TypeParts DEF PostOK
  <2>12. SenderOK(sender)' /\ Awaited(sender, post)' /\ (\A j \in Posts : PostOK(post[j]))'
    BY <2>3, <2>8, <2>9, <2>10 DEF SenderOK, Awaited, PostOK
  <2>13. QED
    BY <1>2, <2>10, <2>11, <2>12, TypeParts DEF TypeOK, SenderOK, Awaited, PostOK, file
<1>3. QED
  BY <1>1, <1>2 DEF PostLogs

LEMMA WriteType ==
  ASSUME TypeOK, NEW i \in Posts, WriteRecords(i)
  PROVE  TypeOK'
<1> DEFINE d == post[i].to
           text == Text(post[i])
<1>1. PICK to \in post[i].next + 1 .. Len(text) :
        /\ received' = [received EXCEPT ![d] = Overwrite(@, text, post[i].next, to)]
        /\ post' = [post EXCEPT ![i].next = to]
  BY DEF WriteRecords
<1> DEFINE new == Overwrite(received[d], text, post[i].next, to)
           p == [post[i] EXCEPT !.next = to]
<1>2. PostOK(post[i]) /\ post[i].pc = "open" /\ post[i].to \in Destinations
  BY TypeParts DEF WriteRecords, PostOK, PostStates
<1>3. /\ received[d] \in Seq(Bytes) /\ text \in Seq(Bytes)
      /\ post[i].next \in Nat /\ Len(text) \in Nat
      /\ post[i].next <= Len(received[d])
  BY <1>2, TypeParts, TextType DEF PostOK, PostStates
<1> HIDE DEF text
<1>4. to \in Nat /\ post[i].next < to /\ to <= Len(text)
  BY <1>3
<1>5. /\ new \in Seq(Bytes)
      /\ Len(received[d]) <= Len(new) /\ to <= Len(new)
  BY <1>3, <1>4, OverwriteIs
<1>6. received' = [received EXCEPT ![d] = new] /\ received' \in [Destinations -> Seq(Bytes)]
  BY <1>1, <1>2, <1>5, TypeParts
<1>7. post' = [post EXCEPT ![i] = p]
  BY <1>1
<1>8. p \in PostStates /\ p.pc = "open" /\ p.to = d /\ p.next = to /\ p.data = post[i].data
  BY <1>2, <1>4 DEF PostOK, PostStates
<1>9. \A e \in Destinations : Len(received[e]) <= Len(received'[e])
  <2> TAKE e \in Destinations
  <2>1. CASE e = d
    BY <1>5, <1>6, <2>1, TypeParts
  <2>2. CASE e # d
    BY <1>6, <2>2, TypeParts, LenProperties
  <2>3. QED
    BY <2>1, <2>2
<1>10. \A j \in Posts : PostOK(post[j])'
  <2> TAKE j \in Posts
  <2>1. CASE j = i
    <3>1. post'[i] = p /\ received'[d] = new
      BY <1>2, <1>6, <1>7, TypeParts
    <3>2. QED
      BY <1>2, <1>4, <1>5, <1>8, <2>1, <3>1, DeliveryAssumption DEF PostOK, Text, text
  <2>2. CASE j # i
    <3>1. post'[j] = post[j] /\ PostOK(post[j])
      BY <1>7, <2>2, TypeParts
    <3>2. post[j].pc = "open" => post[j].to \in Destinations /\ post[j].next \in Nat
      BY <3>1 DEF PostOK, PostStates
    <3>3. post[j].pc = "open" => post[j].next <= Len(received'[post[j].to])
      BY <1>6, <1>9, <3>1, <3>2, TypeParts, LenProperties DEF PostOK
    <3>4. QED
      BY <3>1, <3>3 DEF PostOK
  <2>3. QED
    BY <2>1, <2>2
<1>11. Awaited(sender, post)'
  <2>1. \A j \in Posts : post'[j].pc = post[j].pc /\ post'[j].to = post[j].to
    BY <1>2, <1>7, <1>8, TypeParts
  <2>2. sender.pc = "await" => sender.await \in Posts
    BY TypeParts DEF SenderOK, Senders
  <2>3. sender' = sender
    BY DEF WriteRecords
  <2>4. QED
    BY <2>1, <2>2, <2>3, TypeParts DEF Awaited
<1>12. post' \in [Posts -> PostStates]
  BY <1>7, <1>8, TypeParts
<1>13. QED
  BY <1>6, <1>10, <1>11, <1>12, TypeParts DEF TypeOK, SenderOK, Awaited, PostOK, WriteRecords, file

\* The first state has the types.
LEMMA TypeInit == Init => TypeOK
BY AtStartOK, FreeOK, EmptySeq, EmptyLog
   DEF Init, LogInit, TypeOK, SenderOK, PostOK, AtStart, Free

\* Every step keeps them: one step of the proof for each action.
LEMMA TypeStep == TypeOK /\ [Next]_vars => TypeOK'
<1> SUFFICES ASSUME TypeOK, [Next]_vars PROVE TypeOK'
  OBVIOUS
<1>1. CASE CollectorWrites
  <2>1. ASSUME NEW e \in Entries, end = "half"
        PROVE  Append(log, e) \in Logs
    BY <2>1, AppendLog DEF TypeOK
  <2>2. /\ log' \in Logs /\ end' \in {"whole", "half", "torn"}
        /\ end' = "half" => Len(log') < MaxLog
    BY <1>1, <2>1 DEF CollectorWrites, BeginEntry, EndEntry, TypeOK
  <2>3. QED
    BY <1>1, <2>2 DEF CollectorWrites, TypeOK
<1>2. CASE ListReceivers
  <2>1. ASSUME NEW list \in Lists
        PROVE  LET s == [sender EXCEPT !.pc = "get", !.addrs = list]
               IN SenderOK(s) /\ s.pc = "get"
    BY <1>2, TypeParts, DeliveryAssumption DEF ListReceivers, SenderOK, Senders
  <2>2. LET s == [sender EXCEPT !.pc = "rest"] IN SenderOK(s) /\ s.pc = "rest"
    BY <1>2, TypeParts DEF ListReceivers, SenderOK, Senders
  <2>3. CASE \E list \in Lists : GoOn([sender EXCEPT !.pc = "get", !.addrs = list])
    <3>1. PICK list \in Lists : GoOn([sender EXCEPT !.pc = "get", !.addrs = list])
      BY <2>3
    <3>2. QED
      BY <1>2, <2>1, <3>1, GoType DEF ListReceivers, GoOn, TypeOK
  <2>4. CASE Go([sender EXCEPT !.pc = "rest"]) /\ Fault /\ UNCHANGED post
    BY <1>2, <2>2, <2>4, GoType, FaultType DEF ListReceivers
  <2>5. QED
    BY <1>2, <2>3, <2>4 DEF ListReceivers
<1>3. CASE GetLogs
  <2> DEFINE s(pc) == [sender EXCEPT !.pc = pc, !.body = Readable, !.at = 1]
  <2>1. SenderOK(sender) /\ sender.pc = "get" /\ Readable \in Logs
    BY <1>3, TypeParts, ReadableType DEF GetLogs
  <2>2. ASSUME NEW pc \in {"rest", "post"}
        PROVE  /\ s(pc) \in Senders
               /\ s(pc).pc = pc /\ s(pc).at = 1 /\ s(pc).await = sender.await
               /\ s(pc).addrs = sender.addrs
    <3>1. s(pc) \in Senders /\ s(pc).pc = pc
      BY <2>1 DEF SenderOK, Senders
    <3>2. s(pc).at = 1 /\ s(pc).await = sender.await /\ s(pc).addrs = sender.addrs
      BY <2>1 DEF SenderOK, Senders
    <3>3. QED
      BY <3>1, <3>2
  <2>3. sender.addrs # <<>> => 1 \in 1 .. Len(sender.addrs)
    BY <2>1, EmptySeq DEF SenderOK, Senders
  <2>4. /\ SenderOK(s("rest"))
        /\ sender.addrs # <<>> => SenderOK(s("post"))
    BY <2>1, <2>2, <2>3 DEF SenderOK
  <2>5. CASE GoOn(s("rest"))
    BY <2>1, <2>2, <2>4, <2>5, GoType DEF GoOn, TypeOK
  <2>6. CASE sender.addrs # <<>> /\ GoOn(s("post"))
    BY <2>1, <2>2, <2>4, <2>6, GoType DEF GoOn, TypeOK
  <2>7. CASE Go(AtStart) /\ Fault /\ UNCHANGED post
    BY <2>1, <2>7, GoType, FaultType, AtStartOK DEF AtStart
  <2>8. QED
    BY <1>3, <2>5, <2>6, <2>7 DEF GetLogs
<1>4. CASE PostLogs
  BY <1>4, PostLogsType
<1>5. CASE AwaitAnswer
  <2>1. SenderOK(NextAddress) /\ NextAddress.await = None
    BY <1>5, NextAddressOK DEF AwaitAnswer
  <2>2. faults' \in Nat
    BY <1>5, FaultType DEF AwaitAnswer, TypeOK
  <2>3. QED
    BY <1>5, <2>1, <2>2, LeaveType DEF AwaitAnswer, Go, file, TypeOK
<1>6. CASE Sleep
  BY <1>6, GoType, AtStartOK DEF Sleep, GoOn, AtStart, TypeOK
<1>7. ASSUME NEW i \in Posts, Receive(i)
      PROVE  TypeOK'
  <2>1. CASE WriteRecords(i)
    BY <2>1, WriteType
  <2>2. CASE FinishPost(i)
    BY <2>2, EndPostType DEF FinishPost, TypeOK
  <2>3. QED
    BY <1>7, <2>1, <2>2 DEF Receive
<1>8. CASE CutShort
  BY <1>8, FaultType DEF CutShort, TearEntry, TypeOK
<1>9. CASE RestartSender
  <2>1. AtStart.await = None
    BY DEF AtStart
  <2>2. QED
    BY <1>9, <2>1, AtStartOK, FaultType, LeaveType DEF RestartSender, file, TypeOK
<1>10. CASE ReplaceLogger
  <2>1. AtStart.await = None
    BY DEF AtStart
  <2>2. old' \in SUBSET Logs /\ log' \in Logs
    BY <1>10, EmptyLog DEF ReplaceLogger, TypeOK
  <2>3. QED
    BY <1>10, <2>1, <2>2, AtStartOK, FaultType, LeaveType DEF ReplaceLogger, TypeOK
<1>11. ASSUME NEW i \in Posts, BreakPost(i)
       PROVE  TypeOK'
  <2>1. post[i].to \in Destinations
    BY <1>11, TypeParts DEF BreakPost, PostOK, PostStates
  <2>2. broken' \in SUBSET Destinations
    BY <1>11, <2>1 DEF BreakPost, TypeOK
  <2>3. QED
    BY <1>11, <2>2, EndPostType, FaultType DEF BreakPost
<1>12. ASSUME NEW d \in Destinations, Hang(d)
       PROVE  TypeOK'
  BY <1>12, FaultType DEF Hang, file, TypeOK
<1>13. CASE UNCHANGED vars
  BY <1>13 DEF vars, file, TypeOK
<1>14. QED
  BY <1>1, <1>2, <1>3, <1>4, <1>5, <1>6, <1>7, <1>8, <1>9, <1>10, <1>11, <1>12, <1>13
     DEF Next, SenderStep, Wrong

\* The sender, the posts and the files keep their types; what the sender waits
\* for is under way to the address it has come to, and no handler gets past the
\* end of its data or leaves a gap in its file (sender.go:84-154,
\* server.go:50-92).
THEOREM DeliveryTyping == Spec => []TypeOK
BY TypeInit, TypeStep, PTL DEF Spec

-----------------------------------------------------------------------------
(* Every byte stands where it stood in the text of a log. *)

Known == old \cup {log}

Texts == {Csv[l] : l \in Known}

\* s is a beginning of one of the logs.
Beginning(s, logs) == \E l \in logs : \E n \in 0 .. Len(l) : s = SubSeq(l, 1, n)

\* Each byte of s is in its place of one of the texts.
InPlace(s, texts) == \A k \in 1 .. Len(s) : \E t \in texts : k <= Len(t) /\ s[k] = t[k]

\* The inductive invariant: what the sender has got and what is on its way is a
\* beginning of a log, and what was received is in place.
FromLogs ==
  /\ Beginning(sender.body, Known)
  /\ \A i \in Posts : Beginning(post[i].data, Known)
  /\ \A d \in Destinations : InPlace(received[d], Texts)

LEMMA EmptyInPlace == \A texts : InPlace(<<>>, texts)
BY DEF InPlace

\* What the operators of the sequence library say, element by element.
LEMMA BeginningOf ==
  ASSUME NEW S, NEW l \in Seq(S), NEW n \in 0 .. Len(l)
  PROVE  /\ SubSeq(l, 1, n) \in Seq(S) /\ Len(SubSeq(l, 1, n)) = n
         /\ \A k \in 1 .. n : SubSeq(l, 1, n)[k] = l[k]
<1>1. Len(l) \in Nat /\ n \in Nat
  BY LenProperties
<1>2. \A k \in 1 .. n : l[k] \in S
  BY <1>1, ElementOfSeq
<1>3. QED
  BY <1>1, <1>2, SubSeqProperties

LEMMA PrefixIs ==
  ASSUME NEW S, NEW s \in Seq(S), NEW t \in Seq(S)
  PROVE  IsPrefix(s, t) <=> Len(s) <= Len(t) /\ \A k \in 1 .. Len(s) : s[k] = t[k]
<1>1. SubSeq(s, 1, Len(s)) = s /\ Len(s) \in Nat /\ Len(t) \in Nat
  BY SubSeqFull, LenProperties
<1>2. CASE Len(s) <= Len(t)
  <2>1. Len(s) \in 0 .. Len(t)
    BY <1>1, <1>2
  <2>2. /\ SubSeq(t, 1, Len(s)) \in Seq(S) /\ Len(SubSeq(t, 1, Len(s))) = Len(s)
        /\ \A k \in 1 .. Len(s) : SubSeq(t, 1, Len(s))[k] = t[k]
    BY <2>1, BeginningOf
  <2>3. s = SubSeq(t, 1, Len(s)) <=> \A k \in 1 .. Len(s) : s[k] = t[k]
    BY <2>2, SeqEqual
  <2>4. QED
    BY <1>1, <1>2, <2>3 DEF IsPrefix
<1>3. QED
  BY <1>1, <1>2 DEF IsPrefix

\* Beginnings of a log are logs, and their texts begin its text.
LEMMA TextOfBeginning ==
  ASSUME NEW l \in Logs, NEW n \in 0 .. Len(l)
  PROVE  /\ SubSeq(l, 1, n) \in Logs
         /\ Len(Csv[SubSeq(l, 1, n)]) <= Len(Csv[l])
         /\ \A k \in 1 .. Len(Csv[SubSeq(l, 1, n)]) : Csv[SubSeq(l, 1, n)][k] = Csv[l][k]
<1>1. l \in Seq(Entries) /\ Len(l) \in Nat /\ Len(l) <= MaxLog
  BY LogsAre
<1>2. SubSeq(l, 1, n) \in Seq(Entries) /\ Len(SubSeq(l, 1, n)) = n
  BY <1>1, BeginningOf
<1>3. n <= MaxLog
  BY <1>1, MaxLogType
<1>4. SubSeq(l, 1, n) \in Logs
  BY <1>2, <1>3, LogsAre
<1>5. IsPrefix(Csv[SubSeq(l, 1, n)], Csv[l])
  BY DeliveryAssumption
<1>6. QED
  BY <1>4, <1>5, CsvType, PrefixIs

LEMMA WholeIsBeginning ==
  ASSUME NEW l \in Logs, NEW logs, l \in logs
  PROVE  Beginning(l, logs) /\ Beginning(<<>>, logs)
<1>1. l \in Seq(Entries) /\ Len(l) \in Nat
  BY LogsAre
<1>2. l = SubSeq(l, 1, Len(l)) /\ <<>> = SubSeq(l, 1, 0)
  BY <1>1, SubSeqFull, SubSeqEmpty
<1>3. 0 \in 0 .. Len(l) /\ Len(l) \in 0 .. Len(l)
  BY <1>1
<1>4. QED
  BY <1>2, <1>3 DEF Beginning

LEMMA LogBegins ==
  ASSUME TypeOK
  PROVE  Beginning(Readable, Known) /\ Beginning(<<>>, Known)
BY WholeIsBeginning DEF TypeOK, Readable, Known

\* What a handler writes is in place if its form is a beginning of a log.
LEMMA TextInPlace ==
  ASSUME TypeOK, NEW p, Beginning(p.data, Known)
  PROVE  InPlace(Text(p), Texts)
<1>1. PICK l \in Known : \E n \in 0 .. Len(l) : p.data = SubSeq(l, 1, n)
  BY DEF Beginning
<1>2. PICK n \in 0 .. Len(l) : p.data = SubSeq(l, 1, n)
  BY <1>1
<1>3. l \in Logs /\ Csv[l] \in Texts
  BY DEF Known, Texts, TypeOK
<1>4. p.data \in Logs /\ Len(Csv[p.data]) \in Nat /\ Len(Csv[l]) \in Nat
  BY <1>2, <1>3, TextOfBeginning, CsvType
<1>5. \A k \in 1 .. Len(Csv[p.data]) : k <= Len(Csv[l]) /\ Csv[p.data][k] = Csv[l][k]
  BY <1>2, <1>3, <1>4, TextOfBeginning
<1>6. InPlace(Csv[p.data], Texts)
  BY <1>3, <1>5 DEF InPlace
<1>7. QED
  BY <1>6, EmptyInPlace DEF Text

\* What a step does to the logs.
LEMMA LogsStep ==
  ASSUME TypeOK, [Next]_vars
  PROVE  \/ UNCHANGED <<old, log>>
         \/ \E e \in Entries : UNCHANGED old /\ log' = Append(log, e) /\ Len(log) < MaxLog
         \/ old' = old \cup {log}
BY DEF TypeOK, Next, vars, file, CollectorWrites, BeginEntry, EndEntry, SenderStep,
       ListReceivers, GetLogs, PostLogs, AwaitAnswer, Sleep, GoOn, Go, Receive,
       WriteRecords, FinishPost, Wrong, CutShort, TearEntry, RestartSender, BreakPost,
       Hang, ReplaceLogger

\* The log keeps its beginnings while it grows.
LEMMA LogGrows ==
  ASSUME TypeOK, NEW e \in Entries, log' = Append(log, e), Len(log) < MaxLog
  PROVE  /\ log' \in Logs /\ Len(log) \in Nat /\ Len(log') = Len(log) + 1
         /\ \A n \in 0 .. Len(log) : SubSeq(log', 1, n) = SubSeq(log, 1, n)
<1>1. log \in Logs /\ log \in Seq(Entries) /\ Len(log) \in Nat
  BY LogsAre DEF TypeOK
<1>2. /\ log' \in Logs /\ log' \in Seq(Entries) /\ Len(log') = Len(log) + 1
      /\ \A k \in 1 .. Len(log) : log'[k] = log[k]
  BY <1>1, AppendLog, AppendProperties
<1>3. ASSUME NEW n \in 0 .. Len(log)
      PROVE  SubSeq(log', 1, n) = SubSeq(log, 1, n)
  <2>1. n \in 0 .. Len(log') /\ n \in Nat /\ n <= Len(log)
    BY <1>1, <1>2
  <2>2. /\ SubSeq(log, 1, n) \in Seq(Entries) /\ Len(SubSeq(log, 1, n)) = n
        /\ \A k \in 1 .. n : SubSeq(log, 1, n)[k] = log[k]
    BY <1>1, BeginningOf
  <2>3. /\ SubSeq(log', 1, n) \in Seq(Entries) /\ Len(SubSeq(log', 1, n)) = n
        /\ \A k \in 1 .. n : SubSeq(log', 1, n)[k] = log'[k]
    BY <1>2, <2>1, BeginningOf
  <2>4. QED
    BY <1>1, <1>2, <2>1, <2>2, <2>3, SeqEqual
<1>4. QED
  BY <1>1, <1>2, <1>3

\* ... so what was a beginning of a log stays one,
LEMMA BeginningsKept ==
  ASSUME TypeOK, [Next]_vars, NEW s, Beginning(s, Known)
  PROVE  Beginning(s, Known')
<1>1. PICK l \in Known : \E n \in 0 .. Len(l) : s = SubSeq(l, 1, n)
  BY DEF Beginning
<1>2. CASE l \in Known'
  BY <1>1, <1>2 DEF Beginning
<1>3. ASSUME NEW e \in Entries, UNCHANGED old, log' = Append(log, e), Len(log) < MaxLog
      PROVE  Beginning(s, Known')
  <2>1. CASE l = log
    <3>1. PICK n \in 0 .. Len(log) : s = SubSeq(log, 1, n)
      BY <1>1, <2>1
    <3>2. s = SubSeq(log', 1, n) /\ n \in 0 .. Len(log')
      BY <1>3, <3>1, LogGrows
    <3>3. log' \in Known'
      BY DEF Known
    <3>4. QED
      BY <3>2, <3>3 DEF Beginning
  <2>2. CASE l # log
    BY <1>2, <1>3, <2>2 DEF Known
  <2>3. QED
    BY <2>1, <2>2
<1>4. QED
  BY <1>2, <1>3, LogsStep DEF Known

\* ... and so are the bytes in place.
LEMMA PlacesKept ==
  ASSUME TypeOK, [Next]_vars, NEW s, InPlace(s, Texts)
  PROVE  InPlace(s, Texts')
<1> SUFFICES ASSUME NEW k \in 1 .. Len(s)
             PROVE  \E t \in Texts' : k <= Len(t) /\ s[k] = t[k]
  BY DEF InPlace
<1>1. PICK l \in Known : k <= Len(Csv[l]) /\ s[k] = Csv[l][k]
  BY DEF InPlace, Texts
<1>2. CASE l \in Known'
  BY <1>1, <1>2 DEF Texts
<1>3. ASSUME NEW e \in Entries, UNCHANGED old, log' = Append(log, e), Len(log) < MaxLog
      PROVE  \E t \in Texts' : k <= Len(t) /\ s[k] = t[k]
  <2>1. CASE l = log
    <3>1. /\ log' \in Logs /\ log \in Logs /\ Len(log) \in 0 .. Len(log')
          /\ SubSeq(log', 1, Len(log)) = log
      <4>1. log' \in Logs /\ Len(log) \in Nat /\ Len(log') = Len(log) + 1
        BY <1>3, LogGrows
      <4>2. SubSeq(log', 1, Len(log)) = SubSeq(log, 1, Len(log))
        BY <1>3, <4>1, LogGrows
      <4>3. log \in Logs /\ SubSeq(log, 1, Len(log)) = log
        BY LogsAre, SubSeqFull DEF TypeOK
      <4>4. QED
        BY <4>1, <4>2, <4>3
    <3>2. /\ Len(Csv[log]) <= Len(Csv[log'])
          /\ \A j \in 1 .. Len(Csv[log]) : Csv[log][j] = Csv[log'][j]
      BY <3>1, TextOfBeginning
    <3>3. Len(Csv[log]) \in Nat /\ Len(Csv[log']) \in Nat /\ k \in 1 .. Len(Csv[log])
      BY <1>1, <2>1, <3>1, CsvType
    <3>4. k <= Len(Csv[log']) /\ s[k] = Csv[log'][k]
      BY <1>1, <2>1, <3>2, <3>3
    <3>5. Csv[log'] \in Texts'
      BY DEF Texts, Known
    <3>6. QED
      BY <3>4, <3>5
  <2>2. CASE l # log
    BY <1>2, <1>3, <2>2 DEF Known
  <2>3. QED
    BY <2>1, <2>2
<1>4. QED
  BY <1>2, <1>3, LogsStep DEF Known

\* What a step puts anywhere was in the log, or was in place already.
LEMMA FromLogsStep == TypeOK /\ FromLogs /\ [Next]_vars => FromLogs'
<1> SUFFICES ASSUME TypeOK, FromLogs, [Next]_vars PROVE FromLogs'
  OBVIOUS
<1>1. \A s : Beginning(s, Known) => Beginning(s, Known')
  BY BeginningsKept
<1>2. \A s : InPlace(s, Texts) => InPlace(s, Texts')
  BY PlacesKept
<1>3. \A i \in Posts : post[i].data \in Logs /\ InPlace(Text(post[i]), Texts)
  BY TypeParts, TextInPlace DEF FromLogs, PostStates
<1>4. \A d \in Destinations : InPlace(received[d], Texts) /\ received[d] \in Seq(Bytes)
  BY TypeParts DEF FromLogs
<1>5. Beginning(sender'.body, Known')
  <2>1. sender'.body \in {sender.body, Readable, <<>>}
    <3>1. sender \in Senders
      BY TypeParts DEF SenderOK
    <3>2. \A pc, list : /\ [sender EXCEPT !.pc = pc].body = sender.body
                        /\ [sender EXCEPT !.pc = pc, !.addrs = list].body = sender.body
      BY <3>1 DEF Senders
    <3>3. \A pc, i : [sender EXCEPT !.pc = pc, !.await = i].body = sender.body
      BY <3>1 DEF Senders
    <3>4. \A pc : [sender EXCEPT !.pc = pc, !.body = Readable, !.at = 1].body = Readable
      BY <3>1 DEF Senders
    <3>5. NextAddress.body = sender.body /\ AtStart.body = <<>>
      BY <3>1 DEF Senders, NextAddress, AtStart
    <3>6. CASE SenderStep
      <4>1. CASE ListReceivers
        <5>1. CASE \E list \in Lists : GoOn([sender EXCEPT !.pc = "get", !.addrs = list])
          <6>1. PICK list \in Lists : sender' = [sender EXCEPT !.pc = "get", !.addrs = list]
            BY <5>1 DEF GoOn, Go
          <6>2. [sender EXCEPT !.pc = "get", !.addrs = list].body = sender.body
            BY <3>2, Zenon
          <6>3. QED
            BY <6>1, <6>2, Zenon
        <5>2. CASE Go([sender EXCEPT !.pc = "rest"])
          BY <3>2, <5>2, Zenon DEF Go
        <5>3. QED
          BY <4>1, <5>1, <5>2 DEF ListReceivers
      <4>2. CASE GetLogs
        <5>1. CASE sender.addrs = <<>>
          BY <3>4, <3>5, <4>2, <5>1 DEF GetLogs, GoOn, Go
        <5>2. CASE sender.addrs # <<>>
          BY <3>4, <3>5, <4>2, <5>2 DEF GetLogs, GoOn, Go
        <5>3. QED
          BY <5>1, <5>2
      <4>3. CASE PostLogs
        <5>1. \/ \E i \in Posts : Go([sender EXCEPT !.pc = "await", !.await = i])
              \/ Go(NextAddress)
          BY <4>3, Zenon DEF PostLogs
        <5>2. ASSUME NEW i \in Posts, Go([sender EXCEPT !.pc = "await", !.await = i])
              PROVE  sender'.body = sender.body
          BY <3>3, <5>2, Zenon DEF Go
        <5>3. CASE Go(NextAddress)
          BY <3>5, <5>3, Zenon DEF Go
        <5>4. QED
          BY <5>1, <5>2, <5>3, Zenon
      <4>4. CASE AwaitAnswer \/ Sleep
        BY <3>5, <4>4 DEF AwaitAnswer, Sleep, GoOn, Go
      <4>5. QED
        BY <3>6, <4>1, <4>2, <4>3, <4>4 DEF SenderStep
    <3>7. CASE UNCHANGED sender \/ sender' = AtStart
      BY <3>5, <3>7
    <3>8. QED
      BY <3>6, <3>7
         DEF Next, vars, CollectorWrites, Receive, WriteRecords, FinishPost,
             Wrong, CutShort, RestartSender, BreakPost, Hang, ReplaceLogger
  <2>2. QED
    BY <1>1, <2>1, LogBegins DEF FromLogs
<1>6. ASSUME NEW i \in Posts
      PROVE  Beginning(post'[i].data, Known')
  <2>1. post'[i].data \in {post[i].data, sender.body, <<>>}
    <3>1. post \in [Posts -> PostStates] /\ Free.data = <<>>
      BY TypeParts DEF Free
    <3>2. CASE UNCHANGED post
      BY <3>2
    <3>3. CASE post' = LeavePost
      BY <3>1, <3>3 DEF LeavePost
    <3>4. ASSUME NEW j \in Posts,
                 CloseConnection(j) \/ (\E n \in Nat : post' = [post EXCEPT ![j].next = n])
          PROVE  post'[i].data \in {post[i].data, <<>>}
      BY <3>1, <3>4 DEF CloseConnection, PostStates
    <3>5. CASE PostLogs
      <4>1. ASSUME NEW j \in Posts, NEW to,
                   post' = [post EXCEPT ![j] = [pc |-> "open", to |-> to,
                                                data |-> sender.body, next |-> 0]]
            PROVE  post'[i].data \in {post[i].data, sender.body}
        BY <3>1, <4>1
      <4>2. QED
        BY <3>2, <3>5, <4>1 DEF PostLogs
    <3>6. ASSUME NEW j \in Posts, WriteRecords(j)
          PROVE  \E n \in Nat : post' = [post EXCEPT ![j].next = n]
      <4>1. post[j].next \in Nat /\ Len(Text(post[j])) \in Nat
        BY TypeParts, TextType DEF PostStates
      <4>2. post[j].next + 1 .. Len(Text(post[j])) \subseteq Nat
        BY <4>1
      <4>3. QED
        BY <3>6, <4>2 DEF WriteRecords
    <3>7. QED
      BY <3>2, <3>3, <3>4, <3>5, <3>6
         DEF Next, vars, CollectorWrites, SenderStep, ListReceivers, GetLogs,
             AwaitAnswer, Sleep, GoOn, Go, Receive, FinishPost,
             Wrong, CutShort, RestartSender, BreakPost, Hang, ReplaceLogger
  <2>2. QED
    BY <1>1, <2>1, LogBegins DEF FromLogs
<1>7. ASSUME NEW d \in Destinations
      PROVE  InPlace(received'[d], Texts')
  <2>1. CASE UNCHANGED received
    BY <1>2, <1>4, <2>1
  <2>2. ASSUME NEW i \in Posts, WriteRecords(i)
        PROVE  InPlace(received'[d], Texts')
    <3>1. PICK to \in post[i].next + 1 .. Len(Text(post[i])) :
            received' = [received EXCEPT ![post[i].to] =
                           Overwrite(@, Text(post[i]), post[i].next, to)]
      BY <2>2 DEF WriteRecords
    <3>2. CASE d # post[i].to
      BY <1>2, <1>4, <3>1, <3>2, TypeParts
    <3>3. CASE d = post[i].to
      <4> DEFINE text == Text(post[i])
                 new == Overwrite(received[d], text, post[i].next, to)
      <4>1. /\ post[i].next \in Nat /\ post[i].next <= Len(received[d])
            /\ text \in Seq(Bytes) /\ Len(text) \in Nat
        BY <1>3, <2>2, <3>3, TypeParts, TextType DEF WriteRecords, PostOK, PostStates
      <4>2. InPlace(text, Texts)
        BY <1>3
      <4>3. received'[d] = new
        BY <3>1, <3>3, TypeParts
      <4> HIDE DEF text
      <4>4. to \in Nat /\ post[i].next < to /\ to <= Len(text)
        BY <3>1, <4>1 DEF text
      <4>5. Mixed(new, text, received[d])
        BY <1>4, <4>1, <4>4, OverwriteIs
      <4>6. Len(received[d]) \in Nat
        BY <1>4, LenProperties
      <4>7. InPlace(new, Texts)
        BY <1>4, <4>1, <4>2, <4>5, <4>6 DEF InPlace, Mixed
      <4>8. QED
        BY <1>2, <4>3, <4>7
    <3>4. QED
      BY <3>2, <3>3
  <2>3. QED
    BY <2>1, <2>2
       DEF Next, vars, CollectorWrites, SenderStep, ListReceivers, GetLogs, PostLogs,
           AwaitAnswer, Sleep, GoOn, Go, Receive, FinishPost,
           Wrong, CutShort, RestartSender, BreakPost, Hang, ReplaceLogger
<1>8. QED
  BY <1>5, <1>6, <1>7 DEF FromLogs

LEMMA FromLogsInit == Init => FromLogs
<1> SUFFICES ASSUME Init PROVE FromLogs
  OBVIOUS
<1>1. Beginning(<<>>, Known)
  BY TypeInit, LogBegins
<1>2. QED
  BY <1>1, EmptyInPlace DEF Init, FromLogs, AtStart, Free

\* What the sender holds and what is on its way is a beginning of a log, and what
\* was received is in place: the inductive invariant behind BytesInPlace.
THEOREM InPlaceInvariant == Spec => []FromLogs
BY TypeInit, TypeStep, FromLogsInit, FromLogsStep, PTL DEF Spec

\* While there has been one log only, what is in place is a beginning of its
\* text.
LEMMA InPlaceIsPrefix ==
  ASSUME TypeOK, old = {}, NEW s \in Seq(Bytes), InPlace(s, Texts)
  PROVE  /\ Csv[log] \in Seq(Bytes) /\ IsPrefix(s, Csv[log])
         /\ Len(s) <= Len(Csv[log]) /\ SubSeq(Csv[log], 1, Len(s)) = s
<1>1. Csv[log] \in Seq(Bytes) /\ Len(Csv[log]) \in Nat /\ Len(s) \in Nat
  BY CsvType, LenProperties DEF TypeOK
<1>2. \A k \in 1 .. Len(s) : k <= Len(Csv[log]) /\ s[k] = Csv[log][k]
  BY DEF InPlace, Texts, Known
<1>3. Len(s) <= Len(Csv[log])
  BY <1>1, <1>2
<1>4. IsPrefix(s, Csv[log])
  BY <1>1, <1>2, <1>3, PrefixIs
<1>5. SubSeq(s, 1, Len(s)) = s
  BY SubSeqFull
<1>6. QED
  BY <1>1, <1>3, <1>4, <1>5 DEF IsPrefix

LEMMA FromLogsInPlace == TypeOK /\ FromLogs => BytesInPlace
<1> SUFFICES ASSUME TypeOK, FromLogs PROVE BytesInPlace
  OBVIOUS
<1>1. \A d \in Destinations : InPlace(received[d], Texts) /\ received[d] \in Seq(Bytes)
  BY TypeParts DEF FromLogs
<1>2. old = {} => \A d \in Destinations : IsPrefix(received[d], Csv[log])
  BY <1>1, InPlaceIsPrefix
<1>3. QED
  BY <1>1, <1>2 DEF BytesInPlace, InPlace, Texts, Known

\* The received file is a beginning of the text of the log, byte by byte, until
\* the logger's Pod is replaced, and made of bytes in their places even then, for
\* any number of analysis tools, of posts that are under way at once, and of
\* replacements, and for records of any lengths (sender.go:84-154,
\* server.go:50-92).
THEOREM ReceivedInPlace == Spec => []BytesInPlace
<1>1. Spec => [](TypeOK /\ FromLogs)
  BY DeliveryTyping, InPlaceInvariant, PTL
<1>2. QED
  BY <1>1, FromLogsInPlace, PTL

-----------------------------------------------------------------------------
(* No half record is left. *)

OpenTo(d) == {i \in Posts : post[i].pc = "open" /\ post[i].to = d}

\* The received file ends where a record of the log ends,
EndsWhole(d) == \E n \in 0 .. Len(log) : Len(received[d]) = Len(Csv[SubSeq(log, 1, n)])

\* ... or where one of its handlers is writing.
EndsInPost(d) == \E i \in OpenTo(d) : Len(received[d]) = post[i].next

\* The invariant behind WholeAtRest, inductive together with the types and
\* FromLogs.
Accounted == old = {} => \A d \in Destinations \ broken : EndsWhole(d) \/ EndsInPost(d)

LEMMA EmptyText == Csv[<<>>] = <<>> /\ <<>> \in Fitting
BY DeliveryAssumption

LEMMA AccountedInit == Init => Accounted
<1> SUFFICES ASSUME Init, NEW d \in Destinations PROVE EndsWhole(d)
  BY DEF Accounted
<1>1. Len(log) = 0 /\ SubSeq(log, 1, 0) = <<>>
  BY SubSeqEmpty DEF Init, LogInit
<1>2. Len(received[d]) = Len(Csv[SubSeq(log, 1, 0)])
  BY <1>1, EmptyText DEF Init
<1>3. 0 \in 0 .. Len(log)
  BY <1>1
<1>4. QED
  BY <1>2, <1>3 DEF EndsWhole

\* What has been written in full ends where a record of the log ends.
LEMMA TextEndsWhole ==
  ASSUME TypeOK, FromLogs, old = {}, NEW i \in Posts
  PROVE  \E n \in 0 .. Len(log) : Len(Text(post[i])) = Len(Csv[SubSeq(log, 1, n)])
<1>1. PICK n \in 0 .. Len(log) : post[i].data = SubSeq(log, 1, n)
  BY DEF FromLogs, Beginning, Known
<1>2. CASE post[i].data \in Fitting
  BY <1>1, <1>2 DEF Text
<1>3. CASE post[i].data \notin Fitting
  <2>1. 0 \in 0 .. Len(log)
    BY LogsAre DEF TypeOK
  <2>2. SubSeq(log, 1, 0) = <<>>
    BY SubSeqEmpty
  <2>3. Text(post[i]) = Csv[SubSeq(log, 1, 0)]
    BY <1>3, <2>2, EmptyText DEF Text
  <2>4. QED
    BY <2>1, <2>3
<1>4. QED
  BY <1>2, <1>3

\* Nothing that is open is closed, and nothing is written.
LEMMA AccountedKept ==
  ASSUME TypeOK, Accounted, old' = {} => old = {}, broken \subseteq broken',
         UNCHANGED received,
         \A d \in Destinations : EndsWhole(d) => EndsWhole(d)',
         \A j \in Posts : post[j].pc = "open" => post'[j] = post[j]
  PROVE  Accounted'
<1> SUFFICES ASSUME old' = {}, NEW d \in Destinations \ broken',
                    ~EndsWhole(d)'
             PROVE  EndsInPost(d)'
  BY DEF Accounted
<1>1. EndsInPost(d)
  BY DEF Accounted
<1>2. PICK j \in OpenTo(d) : Len(received[d]) = post[j].next
  BY <1>1 DEF EndsInPost
<1>3. j \in Posts /\ post'[j] = post[j] /\ post[j].pc = "open" /\ post[j].to = d
  BY <1>2 DEF OpenTo
<1>4. QED
  BY <1>2, <1>3 DEF EndsInPost, OpenTo

\* The end of a handler: its text is in the file, or the tool is broken.
LEMMA AccountedEnd ==
  ASSUME TypeOK, FromLogs, Accounted, NEW i \in Posts, post[i].pc = "open",
         CloseConnection(i), UNCHANGED <<file, received>>, broken \subseteq broken',
         post[i].next = Len(Text(post[i])) \/ post[i].to \in broken'
  PROVE  Accounted'
<1> SUFFICES ASSUME old' = {}, NEW d \in Destinations \ broken'
             PROVE  EndsWhole(d)' \/ EndsInPost(d)'
  BY DEF Accounted
<1>1. old = {} /\ d \in Destinations \ broken /\ UNCHANGED <<log, received>>
  BY DEF file
<1>2. CASE EndsWhole(d)
  BY <1>1, <1>2 DEF EndsWhole
<1>3. ASSUME NEW j \in OpenTo(d), Len(received[d]) = post[j].next
      PROVE  EndsWhole(d)' \/ EndsInPost(d)'
  <2>1. j \in Posts /\ post[j].pc = "open" /\ post[j].to = d
    BY DEF OpenTo
  <2>2. CASE j = i
    <3>1. Len(received[d]) = Len(Text(post[i]))
      BY <1>3, <2>1, <2>2
    <3>2. EndsWhole(d)
      BY <1>1, <3>1, TextEndsWhole DEF EndsWhole
    <3>3. QED
      BY <1>2, <3>2
  <2>3. CASE j # i
    <3>1. post'[j] = post[j]
      BY <2>1, <2>3, TypeParts DEF CloseConnection
    <3>2. QED
      BY <1>1, <1>3, <2>1, <3>1 DEF EndsInPost, OpenTo
  <2>4. QED
    BY <2>2, <2>3
<1>4. QED
  BY <1>1, <1>2, <1>3 DEF Accounted, EndsInPost

\* A handler that writes is the last in its file, or changes no length.
LEMMA AccountedWrite ==
  ASSUME TypeOK, Accounted, NEW i \in Posts, WriteRecords(i)
  PROVE  Accounted'
<1> SUFFICES ASSUME old' = {}, NEW d \in Destinations \ broken'
             PROVE  EndsWhole(d)' \/ EndsInPost(d)'
  BY DEF Accounted
<1>1. UNCHANGED <<log, old, broken>> /\ (EndsWhole(d) \/ EndsInPost(d))
  BY DEF WriteRecords, file, Accounted
<1> DEFINE text == Text(post[i])
<1>2. PICK to \in post[i].next + 1 .. Len(text) :
        /\ received' = [received EXCEPT ![post[i].to] =
                          Overwrite(@, text, post[i].next, to)]
        /\ post' = [post EXCEPT ![i].next = to]
  BY DEF WriteRecords
<1>3. /\ post \in [Posts -> PostStates] /\ received \in [Destinations -> Seq(Bytes)]
      /\ post[i].pc = "open" /\ post[i].to \in Destinations
      /\ post[i].next \in Nat /\ post[i].next <= Len(received[post[i].to])
      /\ text \in Seq(Bytes) /\ Len(text) \in Nat
  BY TypeParts, TextType DEF WriteRecords, PostOK, PostStates
<1> HIDE DEF text
<1>4. /\ \A j \in Posts : j # i => post'[j] = post[j]
      /\ post'[i].pc = "open" /\ post'[i].to = post[i].to /\ post'[i].next = to
  BY <1>2, <1>3 DEF PostStates
<1>5. CASE d # post[i].to
  <2>1. received'[d] = received[d]
    BY <1>2, <1>3, <1>5
  <2>2. \A j \in OpenTo(d) : j \in Posts /\ j # i /\ post'[j] = post[j]
    BY <1>4, <1>5 DEF OpenTo
  <2>3. QED
    BY <1>1, <2>1, <2>2 DEF EndsWhole, EndsInPost, OpenTo
<1>6. CASE d = post[i].to
  <2> DEFINE new == Overwrite(received[d], text, post[i].next, to)
  <2>1. received'[d] = new /\ received[d] \in Seq(Bytes) /\ Len(received[d]) \in Nat
    BY <1>2, <1>3, <1>6, LenProperties
  <2>2. to \in Nat /\ post[i].next < to /\ to <= Len(text)
    BY <1>3
  <2>3. Len(new) = IF to > Len(received[d]) THEN to ELSE Len(received[d])
    BY <2>1, <2>2 DEF Overwrite
  <2>4. CASE to >= Len(received[d])
    <3>1. Len(received'[d]) = post'[i].next
      BY <1>4, <2>1, <2>2, <2>3, <2>4
    <3>2. QED
      BY <1>4, <1>6, <3>1 DEF EndsInPost, OpenTo
  <2>5. CASE to < Len(received[d])
    <3>1. Len(received'[d]) = Len(received[d])
      BY <2>1, <2>2, <2>3, <2>5
    <3>2. \A j \in OpenTo(d) : Len(received[d]) = post[j].next => j \in Posts /\ j # i
      BY <1>3, <2>1, <2>2, <2>5 DEF OpenTo
    <3>3. QED
      BY <1>1, <1>4, <3>1, <3>2 DEF EndsWhole, EndsInPost, OpenTo
  <2>6. QED
    BY <2>1, <2>2, <2>4, <2>5
<1>7. QED
  BY <1>5, <1>6

LEMMA AccountedStep == TypeOK /\ FromLogs /\ Accounted /\ [Next]_vars => Accounted'
<1> SUFFICES ASSUME TypeOK, FromLogs, Accounted, [Next]_vars PROVE Accounted'
  OBVIOUS
<1>1. CASE ReplaceLogger
  BY <1>1 DEF ReplaceLogger, Accounted
<1>2. ASSUME NEW i \in Posts, WriteRecords(i)
      PROVE  Accounted'
  BY <1>2, AccountedWrite
<1>3. ASSUME NEW i \in Posts, FinishPost(i)
      PROVE  Accounted'
  BY <1>3, AccountedEnd DEF FinishPost
<1>4. ASSUME NEW i \in Posts, BreakPost(i)
      PROVE  Accounted'
  BY <1>4, AccountedEnd DEF BreakPost
<1>5. CASE CollectorWrites
  <2>1. UNCHANGED <<old, post, received, broken>>
    BY <1>5 DEF CollectorWrites
  <2>2. \A d \in Destinations : EndsWhole(d) => EndsWhole(d)'
    <3>1. CASE UNCHANGED log
      BY <2>1, <3>1 DEF EndsWhole
    <3>2. ASSUME NEW e \in Entries, log' = Append(log, e), Len(log) < MaxLog,
                 NEW d \in Destinations, EndsWhole(d)
          PROVE  EndsWhole(d)'
      <4>1. PICK n \in 0 .. Len(log) : Len(received[d]) = Len(Csv[SubSeq(log, 1, n)])
        BY <3>2 DEF EndsWhole
      <4>2. n \in 0 .. Len(log') /\ SubSeq(log', 1, n) = SubSeq(log, 1, n)
        BY <3>2, LogGrows
      <4>3. QED
        BY <2>1, <4>1, <4>2 DEF EndsWhole
    <3>3. QED
      BY <1>5, <3>1, <3>2 DEF CollectorWrites, BeginEntry, EndEntry, TypeOK
  <2>3. QED
    BY <2>1, <2>2, AccountedKept
<1>6. CASE UNCHANGED <<log, old, received, broken>> /\ (UNCHANGED post \/ post' = LeavePost)
  <2>1. \A d \in Destinations : EndsWhole(d) => EndsWhole(d)'
    BY <1>6 DEF EndsWhole
  <2>2. \A j \in Posts : post[j].pc = "open" => post'[j] = post[j]
    BY <1>6 DEF LeavePost
  <2>3. QED
    BY <1>6, <2>1, <2>2, AccountedKept
<1>7. CASE PostLogs
  <2>1. UNCHANGED <<log, old, received, broken>>
    BY <1>7 DEF PostLogs, Go, file
  <2>2. \A d \in Destinations : EndsWhole(d) => EndsWhole(d)'
    BY <2>1 DEF EndsWhole
  <2>3. \A j \in Posts : post[j].pc = "open" => post'[j] = post[j]
    BY <1>7, TypeParts DEF PostLogs
  <2>4. QED
    BY <2>1, <2>2, <2>3, AccountedKept
<1>8. QED
  BY <1>1, <1>2, <1>3, <1>4, <1>5, <1>6, <1>7
     DEF Next, vars, file, SenderStep, ListReceivers, GetLogs, AwaitAnswer, Sleep, GoOn, Go,
         Receive, Wrong, CutShort, TearEntry, RestartSender, Hang

LEMMA AccountedAtRest == TypeOK /\ FromLogs /\ Accounted => WholeAtRest
<1> SUFFICES ASSUME TypeOK, FromLogs, Accounted, old = {},
                    NEW d \in Destinations \ broken, OpenTo(d) = {}
             PROVE  \E n \in 0 .. Len(log) : received[d] = Csv[SubSeq(log, 1, n)]
  BY DEF WholeAtRest, OpenTo
<1>1. PICK n \in 0 .. Len(log) : Len(received[d]) = Len(Csv[SubSeq(log, 1, n)])
  BY DEF Accounted, EndsInPost, EndsWhole
<1> DEFINE text == Csv[SubSeq(log, 1, n)]
<1>2. /\ received[d] \in Seq(Bytes) /\ Csv[log] \in Seq(Bytes)
      /\ IsPrefix(received[d], Csv[log])
  BY TypeParts, InPlaceIsPrefix DEF FromLogs
<1>3. \A k \in 1 .. Len(received[d]) : received[d][k] = Csv[log][k]
  BY <1>2, PrefixIs
<1>4. /\ text \in Seq(Bytes)
      /\ \A k \in 1 .. Len(text) : text[k] = Csv[log][k]
  BY TextOfBeginning, CsvType DEF TypeOK
<1>5. received[d] = text
  BY <1>1, <1>2, <1>3, <1>4, SeqEqual
<1>6. QED
  BY <1>5

\* However the posts to an analysis tool overlap, its file ends with a whole
\* record whenever no handler is at work, unless a handler has ended early or the
\* logger's Pod was replaced: for any number of posts under way, and whatever the
\* lengths of the records and of what is written at once (server.go:66-90).
THEOREM NoHalfRecord == Spec => []WholeAtRest
<1>1. TypeOK /\ FromLogs /\ Accounted /\ [Next]_vars => Accounted'
  BY AccountedStep
<1>2. TypeOK /\ FromLogs /\ Accounted => WholeAtRest
  BY AccountedAtRest
<1>3. QED
  BY <1>1, <1>2, AccountedInit, DeliveryTyping, InPlaceInvariant, PTL DEF Spec

-----------------------------------------------------------------------------
(* The logs are mirrored. *)

\* Nothing has happened that ends the promise.
Intact == end # "torn" /\ log \in Fitting /\ old = {} /\ hung = {}

\* A log whose form fits has only grown from logs whose forms fit.
LEMMA FittingKept ==
  ASSUME TypeOK, NEW e \in Entries, log' = Append(log, e), Len(log) < MaxLog,
         log' \in Fitting
  PROVE  log \in Fitting
<1>1. /\ log' \in Logs /\ Len(log) \in 0 .. Len(log')
      /\ SubSeq(log', 1, Len(log)) = log
  <2>1. log' \in Logs /\ Len(log) \in Nat /\ Len(log') = Len(log) + 1
    BY LogGrows
  <2>2. SubSeq(log', 1, Len(log)) = SubSeq(log, 1, Len(log))
    BY <2>1, LogGrows
  <2>3. log \in Logs /\ SubSeq(log, 1, Len(log)) = log
    BY LogsAre, SubSeqFull DEF TypeOK
  <2>4. QED
    BY <2>1, <2>2, <2>3
<1>2. QED
  BY <1>1, DeliveryAssumption

LEMMA ShipInit == Init => Ship!Init
BY EmptyText DEF Init, LogInit, Ship!Init, Steady

\* A step that ends the promise, or comes after it has ended, is allowed.
LEMMA ShipBroken == ~Intact' => Ship!Next
BY DEF Intact, Ship!Next

LEMMA ShipStutter ==
  UNCHANGED <<log, received>> /\ Intact' = Intact => UNCHANGED Ship!vars
BY DEF Intact, Ship!vars

LEMMA ShipGrow ==
  ASSUME TypeOK, Intact, NEW e \in Entries, log' = Append(log, e), Len(log) < MaxLog,
         UNCHANGED received
  PROVE  Ship!Next
<1>1. IsPrefix(Csv[log], Csv[log'])
  <2>1. log' \in Logs /\ Len(log) \in Nat /\ Len(log') = Len(log) + 1
    BY LogGrows
  <2>2. SubSeq(log', 1, Len(log)) = SubSeq(log, 1, Len(log))
    BY <2>1, LogGrows
  <2>3. Len(log) \in 0 .. Len(log') /\ SubSeq(log, 1, Len(log)) = log
    BY <2>1, LogsAre, SubSeqFull DEF TypeOK
  <2>4. QED
    BY <2>1, <2>2, <2>3, DeliveryAssumption
<1>2. Ship!Grow
  BY <1>1 DEF Ship!Grow, Ship!IsPrefix, IsPrefix
<1>3. QED
  BY <1>2 DEF Ship!Next, Intact

\* What a handler writes is a longer beginning of the log, or what was there.
LEMMA ShipAdvance ==
  ASSUME TypeOK, FromLogs, TypeOK', FromLogs', Intact,
         NEW i \in Posts, WriteRecords(i)
  PROVE  Ship!Next \/ UNCHANGED Ship!vars
<1> DEFINE d == post[i].to
           text == Text(post[i])
           n == Len(received'[d])
<1>1. UNCHANGED <<log, end, old, hung>> /\ old = {}
  BY DEF WriteRecords, file, Intact
<1>2. PICK to \in post[i].next + 1 .. Len(text) :
        received' = [received EXCEPT ![d] = Overwrite(@, text, post[i].next, to)]
  BY DEF WriteRecords
<1>3. d \in Destinations
  BY TypeParts DEF WriteRecords, PostOK, PostStates
<1>4. /\ received[d] \in Seq(Bytes) /\ InPlace(received[d], Texts)
      /\ received'[d] \in Seq(Bytes)
  BY <1>3 DEF FromLogs, TypeOK
<1>5. Texts' = Texts
  BY <1>1 DEF Texts, Known
<1>6. InPlace(received'[d], Texts)
  <2>1. InPlace(received'[d], Texts')
    BY <1>3 DEF FromLogs
  <2>2. QED
    BY <1>5, <2>1
<1>7. /\ n <= Len(Csv[log]) /\ SubSeq(Csv[log], 1, n) = received'[d]
      /\ SubSeq(Csv[log], 1, Len(received[d])) = received[d]
  BY <1>1, <1>4, <1>6, InPlaceIsPrefix
<1>8. /\ post[i].next \in Nat /\ Len(text) \in Nat
      /\ text \in Seq(Bytes) /\ post[i].next <= Len(received[d])
  BY TypeParts, TextType DEF WriteRecords, PostOK, PostStates
<1> HIDE DEF text
<1>9. Len(received[d]) <= n
  <2>1. to \in Nat /\ post[i].next < to /\ to <= Len(text)
    BY <1>8
  <2>2. received'[d] = Overwrite(received[d], text, post[i].next, to)
    BY <1>2, <1>3, TypeParts
  <2>3. QED
    BY <1>4, <1>8, <2>1, <2>2, OverwriteIs
<1>10. received' = [received EXCEPT ![d] = SubSeq(Csv[log], 1, n)]
  BY <1>2, <1>3, <1>7, TypeParts
<1>11. Len(received[d]) \in Nat /\ n \in Nat /\ Len(Csv[log]) \in Nat
  BY <1>4, LenProperties, CsvType DEF TypeOK
<1> HIDE DEF n
<1>12. CASE n = Len(received[d])
  <2>1. received' = received
    BY <1>3, <1>7, <1>10, <1>12, TypeParts
  <2>2. QED
    BY <1>1, <2>1, ShipStutter DEF Intact
<1>13. CASE n # Len(received[d]) /\ d \in Steady
  <2>1. n \in Len(received[d]) + 1 .. Len(Csv[log])
    BY <1>7, <1>9, <1>11, <1>13
  <2>2. [e \in Steady |-> received[e]]'
          = [[e \in Steady |-> received[e]] EXCEPT ![d] = SubSeq(Csv[log], 1, n)]
    BY <1>10, <1>13, TypeParts DEF Steady
  <2>3. Ship!Advance(d)
    BY <1>1, <1>13, <2>1, <2>2 DEF Ship!Advance
  <2>4. QED
    <3>1. \E c \in Steady : Ship!Advance(c)
      BY <1>13, <2>3 DEF Ship!Advance
    <3>2. QED
      BY <3>1 DEF Ship!Next, Intact
<1>14. CASE d \notin Steady
  <2>1. [e \in Steady |-> received[e]]' = [e \in Steady |-> received[e]]
    BY <1>10, <1>14, TypeParts DEF Steady
  <2>2. QED
    BY <1>1, <2>1 DEF Intact, Ship!vars
<1>15. QED
  BY <1>12, <1>13, <1>14

LEMMA ShipStep ==
  ASSUME TypeOK, FromLogs, [Next]_vars
  PROVE  [Ship!Next]_(Ship!vars)
<1>1. CASE ~Intact'
  BY <1>1, ShipBroken
<1>2. CASE Intact'
  <2>1. TypeOK' /\ FromLogs'
    BY TypeStep, FromLogsStep
  <2>2. CASE CollectorWrites
    <3>1. UNCHANGED <<old, received, hung>>
      BY <2>2 DEF CollectorWrites
    <3>2. CASE BeginEntry
      BY <3>1, <3>2, ShipStutter DEF BeginEntry, Intact
    <3>3. ASSUME NEW e \in Entries, EndEntry(e)
          PROVE  Ship!Next
      <4>1. log' = Append(log, e) /\ Len(log) < MaxLog
        BY <3>3 DEF EndEntry, TypeOK
      <4>2. Intact
        BY <1>2, <3>1, <3>3, <4>1, FittingKept DEF EndEntry, Intact
      <4>3. QED
        BY <3>1, <4>1, <4>2, ShipGrow
    <3>4. QED
      BY <2>2, <3>2, <3>3 DEF CollectorWrites
  <2>3. CASE UNCHANGED <<file, received, hung>>
    BY <2>3, ShipStutter DEF Intact, file
  <2>4. ASSUME NEW i \in Posts, WriteRecords(i)
        PROVE  [Ship!Next]_(Ship!vars)
    <3>1. Intact
      BY <1>2, <2>4 DEF WriteRecords, file, Intact
    <3>2. QED
      BY <2>1, <2>4, <3>1, ShipAdvance
  <2>5. ~CutShort /\ ~ReplaceLogger /\ \A d \in Destinations : ~Hang(d)
    BY <1>2 DEF Intact, CutShort, TearEntry, ReplaceLogger, Hang
  <2>6. QED
    BY <2>2, <2>3, <2>4, <2>5
       DEF Next, vars, SenderStep, ListReceivers, GetLogs, PostLogs, AwaitAnswer, Sleep,
           GoOn, Go, Receive, FinishPost, Wrong, RestartSender, BreakPost
<1>3. QED
  BY <1>1, <1>2

\* However posts overlap, fail and come late, and whichever Receivers a round finds:
\* until an entry is torn, the form gets too large, a tool hangs or the logger's Pod
\* is replaced, a step leaves the received files of the tools that no list leaves
\* out as they are or moves one of them to a longer beginning of the text of the
\* log, for any number of tools and posts (sender.go:84-154, server.go:50-91).
THEOREM MirrorSteps == Spec => Ship!Init /\ [][Ship!Next]_(Ship!vars)
<1>1. Spec => [](TypeOK /\ FromLogs)
  BY DeliveryTyping, InPlaceInvariant, PTL
<1>2. TypeOK /\ FromLogs /\ [Next]_vars => [Ship!Next]_(Ship!vars)
  BY ShipStep
<1>3. QED
  BY <1>1, <1>2, ShipInit, PTL DEF Spec

=============================================================================
