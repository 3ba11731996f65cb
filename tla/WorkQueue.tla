------------------------------ MODULE WorkQueue ------------------------------
(***************************************************************************)
(* The work queue of the custom resource controller: client-go's           *)
(* workqueue, which CustomResource/main.go:84 creates and which is not in  *)
(* this repository.  It is modelled from how controller.go and main.go use *)
(* it: Add by the informer's callbacks, Get and Done by the worker.        *)
(*                                                                         *)
(* A key is dirty from Add until Get hands it out, and processing from Get *)
(* until Done.  A key that is added while it is being processed is only    *)
(* marked dirty; Done puts it back in line.                                *)
(***************************************************************************)
EXTENDS Sequences

VARIABLES queue,       \* the keys in line, a sequence
          dirty,       \* the keys that need processing
          processing   \* the keys handed out by Get and not yet Done

queueVars == <<queue, dirty, processing>>

QueueInit ==
  /\ queue = <<>>
  /\ dirty = {}
  /\ processing = {}

\* queue.Add(k)
QueueAdd(k) ==
  IF k \in dirty
  THEN UNCHANGED queueVars
  ELSE /\ dirty' = dirty \cup {k}
       /\ queue' = IF k \in processing THEN queue ELSE Append(queue, k)
       /\ UNCHANGED processing

\* queue.Get() returns k; Get blocks while the queue is empty.
QueueGet(k) ==
  /\ queue # <<>>
  /\ k = Head(queue)
  /\ queue' = Tail(queue)
  /\ dirty' = dirty \ {k}
  /\ processing' = processing \cup {k}

\* queue.Done(k)
QueueDone(k) ==
  /\ processing' = processing \ {k}
  /\ queue' = IF k \in dirty THEN Append(queue, k) ELSE queue
  /\ UNCHANGED dirty

\* The keys in line are the dirty keys nobody is processing, each of them once.
QueueOK ==
  /\ \A i \in DOMAIN queue : queue[i] \in dirty \ processing
  /\ \A k \in dirty \ processing : \E i \in DOMAIN queue : queue[i] = k
  /\ \A i, j \in DOMAIN queue : queue[i] = queue[j] => i = j
=============================================================================
