------------------------------- MODULE Delivery -------------------------------
(***************************************************************************)
(* How the log gets to the analysis tools.  The sender                     *)
(* (logger/sender/sender.go) gets the whole log from the endpoint          *)
(* (retrieveLogs, logger/endpoint/endpoint.go) in every round and posts it *)
(* to each destination of each Receiver, one after the other; the analysis *)
(* tool (receiveLogs, analysis_tool/server.go) writes its csv over the     *)
(* file it has, byte by byte and without truncating it, each post in a     *)
(* goroutine of its own; a form that is too large is refused.  One step is *)
(* one call, one write to a file, or one thing that goes wrong.            *)
(***************************************************************************)
EXTENDS LogFile, SequencesExt, Integers

CONSTANTS Destinations,  \* the analysis tools
          Lists,         \* the destinations of all Receivers, as a call may list them
          Entries,       \* what an entry may be
          Bytes,         \* what a received file is made of
          Csv,           \* the text that the csv writer makes of a log
          Fitting,       \* the logs whose form is not larger than 10 MB
          MaxLog,        \* bound: the entries of the log
          Posts,         \* bound: the posts that may be under way at once
          MaxFaults,     \* bound: failed calls, lost connections, restarts, hangs,
                         \* and times the logger's Pod is replaced
          None           \* no value

Logs == UNION {[1 .. n -> Entries] : n \in 0 .. MaxLog}

\* The text of a longer log begins with that of a shorter one, and its form is
\* larger.
ASSUME DeliveryAssumption ==
  /\ \A list \in Lists : list \in Seq(Destinations)
  /\ MaxLog \in Nat /\ MaxFaults \in Nat
  /\ None \notin Destinations \cup Posts
  /\ Csv \in [Logs -> Seq(Bytes)] /\ Csv[<<>>] = <<>> /\ <<>> \in Fitting
  /\ \A l \in Logs : \A n \in 0 .. Len(l) :
       /\ IsPrefix(Csv[SubSeq(l, 1, n)], Csv[l])
       /\ l \in Fitting => SubSeq(l, 1, n) \in Fitting

VARIABLES old,        \* the logs of the logger's Pods that were replaced
          sender,     \* what the sender is doing
          post,       \* the posts
          received,   \* received.csv of each analysis tool
          hung,       \* the analysis tools that have stopped without closing
          broken,     \* history: those of which a handler has ended early
          faults      \* what has gone wrong so far

file == <<log, end, old>>
vars == <<file, sender, post, received, hung, broken, faults>>

Senders ==
  [pc    : {"list", "get", "post", "await", "rest"},
   addrs : Seq(Destinations),     \* the destinations of list.Items
   body  : Logs,                  \* jsonstr
   at    : Nat,                   \* the address it has come to
   await : Posts \cup {None}]     \* the post it waits for

\* A post is open while its handler runs, and done when the connection closes.
PostStates ==
  [pc   : {"free", "open", "done"},
   to   : Destinations \cup {None},
   data : Logs,                   \* the form
   next : Nat]                    \* the bytes written so far

AtStart == [pc |-> "list", addrs |-> <<>>, body |-> <<>>, at |-> 1, await |-> None]
Free == [pc |-> "free", to |-> None, data |-> <<>>, next |-> 0]

Init ==
  /\ LogInit
  /\ old = {}
  /\ sender = AtStart
  /\ post = [i \in Posts |-> Free]
  /\ received = [d \in Destinations |-> <<>>]
  /\ hung = {} /\ broken = {}
  /\ faults = 0

-----------------------------------------------------------------------------
(* The collector appends to the log. *)

CollectorWrites ==
  /\ \/ Len(log) < MaxLog /\ BeginEntry
     \/ \E e \in Entries : EndEntry(e)
  /\ UNCHANGED <<old, sender, post, received, hung, broken, faults>>

-----------------------------------------------------------------------------
(* The sender. *)

Go(next) ==
  /\ sender' = next
  /\ UNCHANGED <<file, received, hung, broken>>

GoOn(next) == Go(next) /\ UNCHANGED <<post, faults>>

Fault == faults < MaxFaults /\ faults' = faults + 1

\* The sender no longer waits: its post goes on by itself, or is over.
LeavePost ==
  [i \in Posts |-> IF i = sender.await /\ post[i].pc = "done" THEN Free ELSE post[i]]

\* Mutant: the loop runs one past the end.
NextAddressPastEnd ==
  [sender EXCEPT !.pc = IF sender.at <= Len(sender.addrs) THEN "post" ELSE "rest",
                 !.at = @ + 1, !.await = None]

\* Mutant: the loop is left after the first address.
NextAddressNone == [sender EXCEPT !.pc = "rest", !.at = @ + 1, !.await = None]

\* The next address, or the sleep after the last one.
NextAddress ==
  [sender EXCEPT !.pc = IF sender.at < Len(sender.addrs) THEN "post" ELSE "rest",
                 !.at = @ + 1, !.await = None]

\* The Receivers are listed anew in every round.
ListReceivers ==
  /\ sender.pc = "list"
  /\ \/ \E list \in Lists : GoOn([sender EXCEPT !.pc = "get", !.addrs = list])
     \/ Go([sender EXCEPT !.pc = "rest"]) /\ Fault /\ UNCHANGED post

\* The loop starts again at once if the call fails.
GetLogs ==
  /\ sender.pc = "get"
  /\ \/ GoOn([sender EXCEPT !.pc = IF sender.addrs = <<>> THEN "rest" ELSE "post",
                            !.body = Readable, !.at = 1])
     \/ Go(AtStart) /\ Fault /\ UNCHANGED post

\* PostForm: the connection is made, or it fails and the next address follows.
PostLogs ==
  /\ sender.pc = "post"
  /\ \/ \E i \in Posts :
          /\ post[i].pc = "free"
          /\ post' = [post EXCEPT ![i] = [pc |-> "open", to |-> sender.addrs[sender.at],
                                          data |-> sender.body, next |-> 0]]
          /\ Go([sender EXCEPT !.pc = "await", !.await = i])
          /\ UNCHANGED faults
     \/ Go(NextAddress) /\ Fault /\ UNCHANGED post

\* There is an answer, or the connection is lost while the handler goes on.
\* The client has no timeout.
AwaitAnswer ==
  /\ sender.pc = "await"
  /\ \/ post[sender.await].pc = "done" /\ UNCHANGED faults
     \/ post[sender.await].pc = "open" /\ Fault
  /\ post' = LeavePost
  /\ Go(NextAddress)

Sleep ==
  /\ sender.pc = "rest"
  /\ GoOn(AtStart)

SenderStep == ListReceivers \/ GetLogs \/ PostLogs \/ AwaitAnswer \/ Sleep

-----------------------------------------------------------------------------
(* The analysis tools. *)

\* What the handler writes: nothing if ParseForm refuses the form.
Text(p) == IF p.data \in Fitting THEN Csv[p.data] ELSE <<>>

\* Mutant: the file is opened for appending.
AppendBytes(csv, text, from, to) == csv \o SubSeq(text, from + 1, to)

\* The file is not truncated, and each handler writes from its first byte on.
Overwrite(csv, text, from, to) ==
  [k \in 1 .. (IF to > Len(csv) THEN to ELSE Len(csv)) |->
     IF k \in from + 1 .. to THEN text[k] ELSE csv[k]]

\* The buffer of the csv writer is written when it is full, which may be in the
\* middle of a record, and at the end.
WriteRecords(i) ==
  /\ post[i].pc = "open" /\ post[i].to \notin hung
  /\ \E to \in post[i].next + 1 .. Len(Text(post[i])) :
       /\ received' = [received EXCEPT ![post[i].to] =
                         Overwrite(@, Text(post[i]), post[i].next, to)]
       /\ post' = [post EXCEPT ![i].next = to]
  /\ UNCHANGED <<file, sender, hung, broken, faults>>

\* Whoever waits for the answer can have it.
CloseConnection(i) ==
  post' = [post EXCEPT ![i] = IF sender.await = i THEN [@ EXCEPT !.pc = "done"] ELSE Free]

\* Mutant: what is left in the buffer is not written.
FinishPostUnflushed(i) ==
  /\ post[i].pc = "open" /\ post[i].to \notin hung
  /\ CloseConnection(i)
  /\ UNCHANGED <<file, sender, received, hung, broken, faults>>

\* All is written, or there was nothing to write.
FinishPost(i) ==
  /\ post[i].pc = "open" /\ post[i].to \notin hung
  /\ post[i].next = Len(Text(post[i]))
  /\ CloseConnection(i)
  /\ UNCHANGED <<file, sender, received, hung, broken, faults>>

Receive(i) == WriteRecords(i) \/ FinishPost(i)

-----------------------------------------------------------------------------
(* What goes wrong. *)

\* The collector's write ends early.
CutShort ==
  /\ TearEntry /\ Fault
  /\ UNCHANGED <<old, sender, post, received, hung, broken>>

\* The sender's process ends (log.Fatal, or any other reason) and is restarted.
RestartSender ==
  /\ post' = LeavePost
  /\ sender' = AtStart /\ Fault
  /\ UNCHANGED <<file, received, hung, broken>>

\* The handler can no longer write, or its process ends: what it has written
\* stays, be it half a record.
BreakPost(i) ==
  /\ post[i].pc = "open"
  /\ CloseConnection(i) /\ Fault
  /\ broken' = broken \cup {post[i].to}
  /\ UNCHANGED <<file, sender, received, hung>>

\* The analysis tool takes connections and no longer answers.
Hang(d) ==
  /\ d \notin hung
  /\ hung' = hung \cup {d} /\ Fault
  /\ UNCHANGED <<file, sender, post, received, broken>>

\* The logger's Pod is replaced by another one, with an empty volume.
ReplaceLogger ==
  /\ Fault
  /\ old' = old \cup {log}
  /\ log' = <<>> /\ end' = "whole"
  /\ sender' = AtStart /\ post' = LeavePost
  /\ UNCHANGED <<received, hung, broken>>

Wrong ==
  \/ CutShort \/ RestartSender \/ ReplaceLogger
  \/ \E i \in Posts : BreakPost(i)
  \/ \E d \in Destinations : Hang(d)

Next == CollectorWrites \/ SenderStep \/ (\E i \in Posts : Receive(i)) \/ Wrong

Spec == Init /\ [][Next]_vars

\* Each process and each handler is scheduled, calls are answered in the end
\* unless the analysis tool has stopped, and a write that has begun goes on.
FairSpec ==
  /\ Spec
  /\ WF_vars(SenderStep)
  /\ WF_vars(CollectorWrites /\ end = "half")
  /\ \A i \in Posts : WF_vars(Receive(i))

-----------------------------------------------------------------------------
(* Properties. *)

\* The types of the variables; a post the sender waits for is under way to the
\* address the sender has come to, a post that nobody waits for is not kept,
\* and no handler is past the end of its text or of its file.
TypeOK ==
  /\ log \in Logs /\ end \in {"whole", "half", "torn"}
  /\ end = "half" => Len(log) < MaxLog
  /\ old \in SUBSET Logs
  /\ sender \in Senders
  /\ post \in [Posts -> PostStates]
  /\ received \in [Destinations -> Seq(Bytes)]
  /\ hung \in SUBSET Destinations /\ broken \in SUBSET Destinations
  /\ faults \in Nat
  /\ sender.pc = "await" <=> sender.await # None
  /\ sender.pc \in {"post", "await"} => sender.at \in 1 .. Len(sender.addrs)
  /\ sender.pc = "await" => /\ post[sender.await].pc # "free"
                            /\ post[sender.await].to = sender.addrs[sender.at]
  /\ \A i \in Posts :
       /\ post[i].pc = "done" => sender.await = i
       /\ post[i].pc # "free" => post[i].to # None
       /\ post[i].next <= Len(Text(post[i]))
       /\ post[i].pc = "open" => post[i].next <= Len(received[post[i].to])

\* However posts overlap, are late, are cut off or repeated, the received file is
\* a beginning of the csv of the log, which may end in the middle of a record,
\* as long as the logger's Pod was not replaced.  After that the records of two
\* logs may be spliced, and only this is left: each byte stands where it stood in
\* the csv of one of them (sender.go:84-154, server.go:50-92).
BytesInPlace ==
  /\ old = {} => \A d \in Destinations : IsPrefix(received[d], Csv[log])
  /\ \A d \in Destinations : \A k \in 1 .. Len(received[d]) :
       \E l \in old \cup {log} : k <= Len(Csv[l]) /\ received[d][k] = Csv[l][k]

\* Whoever reads the file between two posts finds whole records, those of a
\* beginning of the log: although posts overlap and a late one writes less than
\* is there, no half record is left unless a handler has ended early or the
\* logger's Pod was replaced (server.go:66-90).
WholeAtRest ==
  old = {} => \A d \in Destinations \ broken :
    (\A i \in Posts : post[i].pc = "open" => post[i].to # d) =>
      \E n \in 0 .. Len(log) : received[d] = Csv[SubSeq(log, 1, n)]

\* The analysis tools that no list leaves out.
Steady == {d \in Destinations : \A list \in Lists : d \in ToSet(list)}

\* While the log can be read, its form is not too large, the logger's Pod is not
\* replaced, and no analysis tool hangs, all of them only ever get more of the
\* csv of the log, and all of it in the end: lost posts are made good by the next
\* round, and late ones do no harm (sender.go:84-154, server.go:50-91).
Ship ==
  INSTANCE Mirror WITH Copies <- Steady, source <- Csv[log],
    copy <- [d \in Steady |-> received[d]],
    intact <- end # "torn" /\ log \in Fitting /\ old = {} /\ hung = {}

ImplementsMirror == Ship!Spec
=============================================================================
