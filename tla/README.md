# A verification project for kubernetes-cluster-monitor

The program (under `src/`, written in Go) watches the Pods of a Kubernetes cluster. An administrator
applies a custom resource, a *Receiver*, that selects Deployments. A controller annotates these
Deployments with a policy and restarts their Pods. An admission webhook adds a sidecar to the Pods as
they come up. The sidecars watch the other containers, a logger collects what they see, and an endpoint
quarantines Deployments on request.

This directory holds TLA+ models of the parts that have interesting concurrency, the TLC runs that
check them on small instances, and proofs that TLAPS checks for all instances. `PROJECT.json` maps
every definition to the lines it models and lists the runs, hazards, findings and theorems.

    tlc -config MCPods.cfg MCController.tla       # one run; the table below lists all of them
    tlapm ControllerProofs.tla                    # one module of proofs

## 1. Inventory

### 1.1 Custom resource controller: `CustomResource/main.go`, `controller.go`, `handler.go`

*State.* The informer's cache of Receivers; client-go's work queue of keys; the local variables of the
handler that runs in each goroutine. Everything lasting is in the API server: the annotations `inject`,
`Action`, `GroupLabel` and `LogFrequency` of the Deployments, and the Pods.

*Operations.* `AddFunc`, `UpdateFunc` and `DeleteFunc` (main.go:95-134) put keys in the queue. Before
that, `DeleteFunc` runs `ObjectDeleted` to its end in the informer's notification goroutine.
`processNextItem` (controller.go:54-127) takes a key and runs `ObjectCreated` for a Receiver that the
cache still has. `ObjectCreated` (handler.go:86-239) goes through the namespaces, lists the Deployments
the Receiver selects, patches the annotations on each one that has none, and deletes its Pods without
the sidecar. `ObjectDeleted` (handler.go:242-379) does the reverse. `RetrieveExpression` builds the
selector. `ObjectUpdated` does nothing and is never called.

*Hard.* Two goroutines work on the same Deployments. Each decides from a list that is older than the
patch; the patch is a JSON diff against that list; an error ends the handler and the key is forgotten all
the same. The watch can break and the process can die between any two calls.

*Correct if* no change of a Receiver is lost on the way to the worker; a policy is never exchanged for
another one; no Pod slips through a restart; a Receiver takes effect in the end; nothing is left of a
deleted Receiver.

### 1.2 Admission webhook: `webhook/webhook.go`, `main.go`

*State.* None between requests, but for the sidecar's configuration, which requests share (line 333).

*Operations.* `serve` decodes a request and `mutate` answers it. `mutationRequired` (106-231) finds the
Deployment of a Pod that is not stored yet in a roundabout way: it lists the stored Pods with the same
labels, then the annotated Deployments, then each Deployment's Pods, and looks for a sibling among
them. `createPatch` adds containers, volumes and a status annotation.

*Hard.* Many requests run at once; three kinds of list are read at three moments; the nested loops have
several exits; with `failurePolicy: Ignore` a late answer counts as no.

*Correct if* a Pod gets the sidecar exactly when its Deployment has a policy. The code comes near to that
and not there: see `first_pod`.

### 1.3 Endpoint: `logger/endpoint/endpoint.go`

*State.* None of its own; it writes the replicas of Deployments and reads the collector's file.

*Operations.* `POST /action` (`takeAction`, 93-210) finds the annotated Deployment of a Pod given by
name and scales all Deployments with the same group label to zero. `GET /get_logs` (`retrieveLogs`,
213-275) returns the tail of the log.

*Hard.* Each request has its goroutine. Each scaling is a Get and an Update of the whole object, in a race
with other requests and all other writers of Deployments.

*Correct if* nothing that somebody else writes is lost, exactly the similar Deployments are scaled down,
and the answer is true.

### 1.4 Sidecar: `sidecar/sidecar.go`

*State.* The namespace and the environment (`Action`, `GroupLabel`, `LogFrequency`), copied once; the
list of URLs of the other containers; the connections it has open.

*Operations.* At the start the sidecar finds its Pod by the host's name in all namespaces, waits until it
runs, looks for the annotated Deployment that selects it (`setEnvironment`) and waits for an address. From then on
it requests each URL in turn, logs the answer (`addLogData`), and sleeps for `LogFrequency`.

*Hard.* Three lists are read at three moments, while policies are put on and taken off; a Pod's name is
unique in one namespace only; the requests have no timeout and their bodies are not closed.

*Correct if* the environment is that of a Deployment that owns the Pod, and every container is checked
again and again.

### 1.5 Log pipeline: `logger/collector/collector.go`, `retrieveLogs`, `logger/sender/sender.go`, `analysis_tool/server.go`

*State.* The collector's file, on a volume that the containers of the logger's Pod share; the file of each
analysis tool.

*Operations.* In each round the collector lists the Pods, reads the last 30 seconds of each sidecar's
output (or all of it, for the first Pod after the file was created), appends what it has read in one write, and sleeps 30
seconds. `retrieveLogs` returns the whole file as JSON, or nothing if it cannot be parsed. The sender gets
it in each round and posts it to every destination of every Receiver, which it lists anew. The analysis
tool writes what is posted to its file as csv, from offset 0, without truncating it.

*Hard.* Rounds longer than their window; lines that are cut short; writes that end early; a file that is read while it is being
appended to; posts that overlap, are lost, late or too large; restarts of each process.

*Correct if* every line arrives, whole and in order, once for each process that has read it.

### 1.6 Around it

client-go (informer, work queue), the API server and the cluster's own controllers are not in the
repository. They are modelled from what the code relies on. Generated clients, deployment manifests,
notebooks and `app.py` are not modelled.

### 1.7 How the parts meet

There are no messages between the parts: they meet in the API server and in one file. The controller writes
annotations; webhook, sidecar and endpoint read them. The controller deletes Pods; the ReplicaSet
controller makes new ones, which pass through the webhook. The endpoint scales Deployments. The
collector's file is read by the endpoint, the endpoint by the sender, the sender feeds the analysis tool.

## 2. Modules

| module | what it is |
|---|---|
| `Cluster` | annotations and Pods in the API server, JSON patches, Pod creation and termination |
| `WorkQueue` | client-go's work queue: `QueueAdd`, `QueueGet`, `QueueDone` |
| `Reconcile` | abstract: a level-triggered controller sees the latest state of every object |
| `Controller` | the custom resource controller; extends `Cluster` and `WorkQueue`, implements `Reconcile` |
| `Webhook` | the admission webhook; extends `Cluster` |
| `Quarantine` | the endpoint's `POST /action` |
| `Sidecar` | the sidecar of one Pod |
| `LogFile` | the file between collector and endpoint: whole entries, and what is after them |
| `Collector` | the log collector; extends `LogFile` |
| `Mirror` | abstract: copies of a log that only grows catch up with it |
| `Delivery` | endpoint's `GET /get_logs`, sender and analysis tools; extends `LogFile`, implements `Mirror` |
| `MCController`, `MCWebhook`, `MCQuarantine`, `MCSidecar`, `MCCollector`, `MCDelivery` | instances for TLC |
| `ControllerProofs`, `ControllerSafetyProofs`, `WebhookProofs`, `QuarantineProofs`, `SidecarProofs`, `CollectorProofs`, `DeliveryProofs` | theorems |

The grain is the same everywhere: **one step is one call to the API server with the local work that
follows it**, or one write to a file. Between two calls a goroutine touches nothing shared, so finer steps
would show nothing more. A write to a file is an exception: others see it grow, so each entry of it is two steps.

### 2.1 `Cluster`

Annotations are abstracted to what the code tells apart. The four policy keys are always written and
removed together, so they are one value `policy`; `foreign` says whether somebody else's annotation is
there, which decides what the JSON diff looks like. `AddPolicy` and `RemovePolicy` are the diffs of
handler.go:152-193 and 281-336: if no annotations were *seen*, the patch adds the whole map, over what
others have written since; if only policy keys were seen, the edited copy omits the empty map and the
patch removes all of it. `AddPolicyApplies` and `RemovePolicyApplies` tell when the API server rejects
the patch because the path is not there. The patch carries no resourceVersion.

A Pod's name is used once. `injected` is the webhook's status annotation. `covered` is history: whether
the Deployment had a policy when the Pod was *stored*. The webhook has read the annotations a little
earlier (webhook.go:150-157), so a Pod that is `covered` may have been admitted by an older reading: see 5.

### 2.2 `Controller`

| in the model | in the code |
|---|---|
| `recv`, `version` | Receivers in the API server |
| `indexer`, `notif` | the informer's cache, and the notifications the listener has not taken yet |
| `queue`, `dirty`, `processing` | the work queue |
| `run["worker"]`, `run["listener"]` | where each goroutine is: the rest of the loops over namespaces (`nss`), Deployments (`todo`) and Pods (`victims`) |
| `Observe`, `Relist` | the informer updates its cache and notifies |
| `OnAdd`, `OnUpdate`, `OnDelete` | main.go:95-134 |
| `OnTombstone` | the type assertion at handler.go:245 is given a `DeletedFinalStateUnknown`, panics, and the process starts again |
| `Get`, `Lookup` | controller.go:57-94; `Lookup` is `GetByKey`, and for a key that is gone `Done` |
| `ListDeployments`, `PatchCreated`, `PatchDeleted`, `ListPods`, `DeletePod`, `Finish` | the API calls of the two handlers, each with success, failure, and failure after taking effect where it writes |
| `Crash` | the process dies and starts again with an empty queue and a full list |

`handled` (what the worker last read from the cache) and `clean` (nothing has failed so far) are history.
`GetByKey` of a cache never fails, so the branch with `AddRateLimited` (controller.go:74-83) is dead and
not modelled. The order of Deployments and Pods in a list is left open. A selector is the set of
Deployments it selects, which stands for `RetrieveExpression`. At this commit main.go:149-150 has stray
text after the last brace; the model is of the file without it.

### 2.3 `Webhook`

`adm[p]` is the request for Pod p: `required`, `siblings`, `sibling` and `dps` are the variables of
`mutationRequired`, `pc` the next call. `Admit` is lines 106-137, `ListSiblings` 139-147,
`ListDeployments` 149-158, `ListPods` 160-190, `Answer` the answer and the Pod being stored, and `TimeOut`
the API server giving up under `failurePolicy: Ignore`. `NextSibling` and `NextDeployment` say how the two
loops go on or end. `view` is history: which pairs of a sibling and a Deployment were there at some
moment, and which all the time. The API server is taken to fill in the namespace of the Pod in the
request; a new Pod is taken not to have the status annotation `injected` yet (line 127). Updates of Pods are left out: whatever the webhook answers, nothing changes in what the model
tells apart.

`Controller` does not extend `Webhook`. It uses the coarse `CreatePod` of `Cluster`, in which a Pod may or
may not get the sidecar. Theorem `PodsAsInCluster` justifies it: whatever happens in `Webhook` is a step of
`Cluster` or a policy being written. So what is shown of the controller holds with the webhook in place.
`ControllerInCluster` is the other half: whatever happens in `Controller` is a step of `Cluster` or a policy
being put on a Deployment that exists and has none, or taken off one. `Webhook` allows for such writes at any
moment (`PutPolicy`, `TakePolicy`), and for the Pods that the controller deletes (`EvictPod`).

### 2.4 `Quarantine`

`req[r]` is one `POST /action`: `ListDeployments` is 110-116, `ListPods` 116-166, `ListTargets` 166-180,
`GetTarget` 184-187 and `UpdateTarget` 189-198. A Deployment is its replicas, its policy, a `rest` that
others change, and a resourceVersion, against which the API server checks the Update. Lists are ordered by
`Position`. A failed Get leaves an empty object, whose Update fails; the name is put in the answer in any
case. So it is when an Update has taken effect and its answer is lost. A group label is a set of label keys; its encoding with `--` between the keys is left out.

### 2.5 `Sidecar`

| in the model | in the code |
|---|---|
| `proc.pc` | where the process is: `start` (listing all Pods), `get` (waiting for the Pod to run), `deployments` and `pods` (the two lists of the search), `ip` (waiting for an address), `probe` (the loop of checks), `hung` (in a request that is never answered) |
| `Start` | sidecar.go:162-186: the first Pod of the host's name, in any namespace, decides on the namespace |
| `GetPod`, `WaitForIP` | the two waits |
| `ListDeployments`, `ListPods` | the search for the Deployment; an error leaves the list empty |
| `SearchFrom`, `Watch` | what follows the search: the URLs are made once there is an address |
| `Probe`, `ProbeFails`, `ProbeHangs`, `Sleep` | the loop over the URLs |
| `Restart` | the process ends (`log.Fatal`, a panic, an eviction of the container) and is started again |

`Me` is the Pod of the sidecar and `Pods` are the Pods that have its name, in other namespaces. `had` is
history: the policies each Deployment has had in this process's time; `calm`: no list has failed; `clash`:
another Pod of the name came first. A URL is its place in the list. `conns` counts connections that are
never closed: a response without a body does not leave one, so each check may or may not.

### 2.6 `LogFile` and `Collector`

The file is `log`, its whole entries, and `end`: nothing more, half an entry, or one that was cut short.
`BeginEntry`, `EndEntry` and `TearEntry` are what a write looks like to others.

| in the model | in the code (collector.go) |
|---|---|
| `missing`, `proc.first` | whether the file is there, and `fileExistsBool` |
| `Start` | 194-212 |
| `ListPods` | 216-228; an error ends the process, which is `Restart` |
| `ReadLogs` | 229-258: the request for a Pod's lines since `LogDuration` seconds ago, or all of them |
| `Entry` | `processLine` and `addToLog`, 91-169: what a line becomes, and one that is cut short |
| `ReadFails` | 237-258: the request fails or the stream breaks off, which `buf.ReadFrom` does not tell: between two lines, before the type is complete (no entry), or before the url (an entry that is not `whole`) |
| `ReadPanics` | 113, or 104: the line ends within a quoted value or right after a `=`, and the process ends |
| `WriteLogs`, `Written`, `WriteFails` | 278-282 |
| `WakeUp` | the sleep at the end of the round |

Time is a clock that ticks between any two calls, so a round may last as long as it likes. A line is printed
at a tick and calls come between ticks. `since` and `last` are history: since when, and up to when, a Pod has been read
without a gap. An entry has the number of the process that read it, as history. The Pod and the time of an entry
are those in the text of the line (`pod` and `time` are fields of it, addLogData). Pods stand for
the names in these texts: two Pods of one name in different namespaces are not told apart, nor are they in
the file.

### 2.7 `Delivery` and `Mirror`

| in the model | in the code |
|---|---|
| `CollectorWrites`, `CutShort` | the collector, as `LogFile` has it |
| `Readable` | `retrieveLogs`, endpoint.go:213-275: the file is read in one call and parsed as a whole |
| `ListReceivers`, `GetLogs`, `PostLogs`, `AwaitAnswer`, `Sleep` | sender.go:84-154 |
| `post[i]` | one request to an analysis tool, with the goroutine that handles it |
| `Text` | server.go:50-63: nothing is written if `ParseForm` refuses the form |
| `WriteRecords`, `FinishPost` | server.go:66-92: the csv writer's buffer is written when it is full, anywhere in a record, and at the end |
| `RestartSender`, `BreakPost`, `Hang`, `ReplaceLogger` | the sender's `log.Fatal`, a handler that ends early, a tool that stops, a new Pod of the logger with an empty volume |

A received file is a sequence of bytes. `Csv` is the text that the csv writer makes of a log; of it the model takes only that
the text of a longer log begins with that of a shorter one. Records are of any length. `Overwrite` is
writing from offset 0 without truncation: up to where the handler has come the bytes are the new ones, and behind
that they stay as they were. Between any two bytes the handler may be interrupted, so that blocks of any size are
covered.

A post outlives the sender's interest in it: when the connection is lost its handler goes on writing what
it has got, next to later ones. When the logger's Pod is replaced its log begins anew; the received
file is overwritten from the front, and with records of other lengths the boundary holds one that is spliced from two.

`Fitting` are the logs whose form is not larger than 10 MB. A larger one is refused by `ParseForm`, in every round and
without anything having failed, and the answer's status is 200 all the same. The sender lists the Receivers
anew in each round: any of `Lists` may be what it gets.

`Mirror` is what the pipeline promises while the log is readable and fits into a form, the logger's Pod is not
replaced, and no tool hangs: copies of the csv of the log only become longer, and catch up. It
is promised of the tools that every list has (`Steady`). `broken` is history: the tools of which a handler has ended early.

`Collector` and `Delivery` share `LogFile` as their interface. `Delivery` assumes of the collector that
entries come to be at the end one by one, and that a torn one stays torn. This is `FileSpec` of `LogFile`,
which `Collector` is shown to implement (`ImplementsFile`).

## 3. Runs

| run | module, cfg | what is checked |
|---|---|---|
| `pods` | MCController, MCPods | `TypeOK`, `RestartedForPolicy`, `RestartedWithoutPolicy` |
| `live` | MCController, MCLive | `NoLostUpdate`, `PatchesApply`, `Settled`, `PolicyStable`, `PolicyForReason`, `ImplementsReconcile`, `TakesEffect`, with fairness |
| `orphan` | MCController, MCOrphan | violation of `DeletedPolicyGone` |
| `gaps` | MCController, MCGaps | violation of `PolicyTookEffect` |
| `webhook` | MCWebhook, MCWebhook | `TypeOK`, `InjectedForReason`, `NotMissed` |
| `first_pod` | MCWebhook, MCFirstPod | violation of `AllMatchingInjected` |
| `quarantine` | MCQuarantine, MCQuarantine | `TypeOK`, `AnsweredMeansDown`, `NoLostWrite`, `OnlySimilarTouched`, `GetsAnswer`, with fairness |
| `empty_selector` | MCQuarantine, MCEmptySelector | violation of `SimilarOnly` |
| `answer` | MCQuarantine, MCAnswer | violation of `AnswerTrue` |
| `sidecar` | MCSidecar, MCSidecar | `TypeOK`, `EnvironmentFromOwner`, `ChecksGoOn`, with fairness |
| `collector` | MCCollector, MCCollector | `TypeOK`, `InOrderOnce`, `Collected`, `ImplementsFile` |
| `delivery` | MCDelivery, MCDelivery | `TypeOK`, `BytesInPlace`, `WholeAtRest`, `ImplementsMirror`, with fairness |

Deadlock is not checked anywhere: with the bounds on users and faults used up, every part may come to
rest, and so may the real ones.

### 3.1 What the passing runs show

* `NoLostUpdate`: a Receiver whose state in the cache is not the one the worker last read is announced,
  dirty, being deleted, or just taken. This ties together cache, notifications, queue and both goroutines,
  through every interleaving, relist, crash and tombstone.
* `PolicyStable`: although `ObjectCreated` decides from an old list, it never replaces a policy by
  another. The reason is that only the worker puts policies on, and there is one worker.
* `PatchesApply`: the JSON patches are made from old lists and carry no resourceVersion; whatever the other
  handler and the Deployment controller have done to the annotations since, the API server can apply them.
  Since the handlers skip what was listed in the state they want, neither takes away what the other's
  patch needs.
* `PolicyForReason`: a policy that appears on a Deployment is that of a Receiver that was alive when the
  worker last read it and selects the Deployment in one of its namespaces; one that goes away was selected
  by the Receiver whose deletion the listener handles.
* `Settled`: whenever everything has come to rest and no call has failed, every Deployment the Receiver asks
  a policy for has one. `TakesEffect` says the same of fair executions; this is the part that does not need
  fairness, and that can be proved.
* `RestartedForPolicy`, `RestartedWithoutPolicy`: while no call has failed, a Pod that was stored on the
  other side of a patch is one the handler is about to restart. Pods are created, evicted and removed all
  the time; the handlers run in two goroutines. It depends on patching first and listing Pods afterwards. It says
  nothing of a Pod that is stored after the patch and was admitted by a reading before it: see 5.
* `ImplementsReconcile`, `TakesEffect`: see 3.3.
* `InjectedForReason`: a Pod that gets the sidecar without asking for it had, at *one* moment of its
  admission, a stored sibling that an annotated Deployment selected, though the webhook reads at three.
* `NotMissed`: a pair of a sibling and a Deployment that is there *all the time* of the admission is found
  by the two nested loops, whatever else they come across, if no call fails.
* `AnsweredMeansDown`: two requests that race for the same Deployments do not get in each other's way;
  the loser's conflict does no harm.
* `NoLostWrite`: a request never undoes what somebody else wrote between its Get and its Update.
* `OnlySimilarTouched`: a request scales down and reports nothing but Deployments in its Pod's namespace that
  have the Pod's values for the labels of the group, on a policy whose action is to quarantine, also after
  calls that failed and writes between the lists. (If the Pod has none of these labels that is no restriction at all: `empty_selector`.)
* `GetsAnswer`: each request is answered.
* `EnvironmentFromOwner`: although Deployments and Pods are listed at different moments, the environment is
  a policy that one of the Pod's own Deployments had since the process began, and it is not left empty if one had a policy all
  the time, unless a list failed or another Pod of the name came first (which the code does not prevent: see 5).
* `ChecksGoOn`: a port that answers is checked again and again, whatever the others do, but for three things
  the code does not prevent: another Pod of the same name came first; a container never answers; the connections have run out.
* `InOrderOnce`: windows of rounds of any length never bring one process a line twice. A window as long as the
  sleep is just short enough; one tick more and the mutant run finds a line twice.
* `Collected`: a line of a Pod that is read in time is not lost, and is whole in the file, through the first full read,
  overlapping rounds and Pods that come and go. One tick less, and a line falls between two windows. A read that comes
  a tick late loses lines in the code, and the property begins anew with it: it is about window and sleep,
  not about rounds that take long. A read that is cut short anywhere in a line ends the claim for its Pod (for all Pods if the
  process panics), and takes nothing from it that was claimed of the others.
* `ImplementsFile`: a restart goes on in the same file; entries come to be at its end one by one; nothing
  mends a torn entry. So the endpoint and the sender may rely on `LogFile`.
* `BytesInPlace`: although late handlers write old data over newer, byte by byte, the received file stays a beginning of the csv of
  the log, since every post is a beginning of the same log. After the log was replaced only the origin of each byte
  is left of that.
* `WholeAtRest`: when no post is under way the file ends where a record ends, although handlers are interrupted anywhere in
  a record and a late one ends before what is there; unless one has ended early or the log was replaced.
* `ImplementsMirror`: lost posts are made good by the next round; a received file never gets shorter, and
  catches up, as long as the log's form is not above 10 MB. One analysis tool that fails does not keep the log from the other one.

### 3.2 What the violations show

* `orphan`: the worker lists Deployments for a Receiver; the Receiver is deleted; `ObjectDeleted` finds a
  Deployment without a policy and returns; the worker puts the policy on. Nobody takes it off again.
* `gaps`: a Pod ends by itself between List and Delete; the Delete fails, `ObjectCreated` returns, the
  Deployment counts as done, and its other Pods never get the sidecar.
* `first_pod`: the first Pod of a ReplicaSet has no stored sibling (the `pod-template-hash` is a label) and
  is admitted without the sidecar; nothing restarts it later.
* `empty_selector`: if the Pod has none of the group's labels the selector is empty. A Deployment of the namespace that
  does not select the Pod and has no label of the group is scaled to zero and reported.
* `answer`: a conflict is not retried, and the Deployment is reported as quarantined.

### 3.3 Fairness

`FairSpec` of `Controller` has weak fairness for the worker as a whole, for the listener as a whole, and
for the watch of each Receiver. That is what the code has: two goroutines the Go scheduler runs, calls that
are answered in the end, and client-go's watch. There is none for users, faults, Pods or single branches of
a handler. That the abstract reconciler's fairness *per key* follows is what `ImplementsReconcile` shows:
the FIFO queue lets no key starve. `TakesEffect` is stated for as long as nothing has failed, because
nothing is retried. `FairSpec` of `Quarantine` has weak fairness per request: one goroutine each.
`Webhook` has only safety properties and no fairness. `FairSpec` of `Sidecar` has weak fairness for the
process as a whole, whose calls are answered in the end (`ProbeHangs` is not among them), and for its Pod coming up. `FairSpec` of
`Delivery` has weak fairness for the sender, for finishing an entry that has been begun, and for each
handler, which is a goroutine; a hung tool's handlers are not enabled. `Collector` has only safety
properties: its clock is bounded, so that every execution comes to rest.

### 3.4 Bounds

| bound | value | why it is enough |
|---|---|---|
| Receivers | 1 or 2 | two compete for queue and Deployments; the worker is one goroutine, so a third adds no new overlap |
| `MaxVersion` | 1 or 2 | create and change, or delete and create again |
| `MaxFaults` | 0 or 1 | each single failed call, crash or relist at each place; a fault switches the effect properties off, so a second one would not show more of them |
| Deployments | 1 or 2 | two make a loop that can end early |
| Pods | 0, 2 or 3 | two Pods make a loop over Pods; in the webhook one is stored, one is being admitted, and one more comes or goes |
| Policies, Specs | 2 each | one may be exchanged for another; specs differ in namespaces, selection and policy |
| `Replicas`, `MaxReplicas` | 1 or 2 | a new Pod can come while the old one is terminating, or next to it |
| Requests | 2 | the race for one Deployment is between two |
| `MaxWrites` | 0 or 1 | one write of somebody else at each place between two calls |
| `LogDuration`, `MaxClock` | 2, 5 | two windows and one tick more: rounds that are in time, just late, and overlap |
| `MaxLines` | 2 | two lines of a Pod can be doubled, swapped, or one of them lost, at any ticks |
| Pods in `Collector` | 2 | the first Pod is read in full and the second is not; the first may make the second late |
| `MaxLog`, entries | 2, 2 values | a post with one record can be late behind one with two |
| records | 1 and 2 bytes | a handler can be interrupted within one, and those of a replaced log have other lengths |
| `Fitting` | up to 3 bytes | the log comes to be too large while posts that fit are under way |
| Posts | 2 | a late one next to a new one |
| analysis tools, `Lists` | 2, two lists | one tool is always listed and one is not; the loop has an address after the first |
| Pods and Deployments in `Sidecar` | 2, 3 | the Pod and one of the same name; of the Deployments one does not own the Pod, one does, and one is in the other namespace |
| `MaxConns` | 2 | runs out, after a check that has succeeded |
| `MaxPolicies` | 1 | one change at each place of the search |

Pods are symmetric in all runs that use symmetry (`PodSymmetry`), none of which checks liveness. In
`pods` and `webhook` names of Pods are used up, so an execution sees two or three Pods altogether; the
theorems below have no such bound. `quarantine` has one Pod: two requests for it are the race of interest.

`live` has one Receiver. With two whose selections overlap `TakesEffect` does not hold: each Deployment keeps
the policy of the one that came first, as the code has it. Nor does `Settled`: when one of the two is deleted
the listener takes the policy off a Deployment that the other one still asks for, and nobody puts it back.
`NoLostUpdate`, `PatchesApply`, `PolicyStable` and `PolicyForReason` are proved for any number of them.

## 4. Proofs

All of them are for arbitrary constants, under the named assumptions `ClusterAssumption`,
`ControllerAssumption`, `WebhookAssumption`, `QuarantineAssumption`, `NoneAssumption`, `SidecarAssumption`,
`CollectorAssumption` and `DeliveryAssumption` (types of the constants; finitely many Receivers and Pod
names; `None` is not one of the values), which TLC evaluates on each run.

| theorem | of | what |
|---|---|---|
| `Typing` | `Controller!TypeOK` | types; the key being processed is the worker's on every path |
| `PolicyStability` | `PolicyStable` | no policy is exchanged |
| `PatchesAlwaysApply` | `PatchesApply` | a patch from an old list applies to what it meets |
| `PoliciesForReason` | `PolicyForReason` | no policy comes or goes without a Receiver that gives the reason |
| `NothingUndone` | `Settled` | at rest every Deployment that is asked for has a policy; for one Receiver |
| `RestartsForPolicy`, `RestartsWithoutPolicy` | `RestartedForPolicy`, `RestartedWithoutPolicy` | no Pod stored on the other side of the patch slips through |
| `EffectWhileClean` | `PolicyTookEffect`, while no call fails | what `gaps` refutes is due to failed calls only |
| `ControllerInCluster` | | `Controller` is a refinement of `Cluster` with policies being put on and taken off |
| `UpdatesReachTheWorker` | `NoLostUpdate` | no change of a Receiver is lost |
| `ReconcilerSteps` | `ImplementsReconcile`, without fairness | initial states and steps map to those of `Reconcile` |
| `AdmissionTyping` | `Webhook!TypeOK` | types; loops always have something left |
| `PodsAsInCluster` | | `Webhook` is a refinement of `Cluster` with policies being written |
| `InjectionHasReason` | `InjectedForReason` | no sidecar without a reason |
| `InjectionNotMissed` | `NotMissed` | no Pod missed |
| `ActionTyping` | `Quarantine!TypeOK` | types |
| `RequestsLoseNoWrite` | `NoLostWrite` | no write of somebody else is lost |
| `AnswerIsDown` | `AnsweredMeansDown` | racing requests do all of their work |
| `OnlySimilar` | `OnlySimilarTouched` | nothing is touched that the request is not about |
| `AnswerTrueWhileCalm` | | what `answer` refutes is due to failed calls and other writers only |
| `SidecarTyping` | `Sidecar!TypeOK` | types; the process has its Pod and all of its ports |
| `OwnerSetsEnvironment` | `EnvironmentFromOwner` | the environment comes from an owner |
| `CollectorTyping` | `Collector!TypeOK` | types; half an entry only during a write |
| `CollectorWritesFile` | `ImplementsFile` | `Collector` is a refinement of the file of `LogFile` |
| `EntriesInOrderOnce` | `InOrderOnce` | no line twice, none out of order |
| `NothingLost` | `Collected` | no line lost while Pods are read in time |
| `DeliveryTyping` | `Delivery!TypeOK` | types; nobody is past the end of data or file |
| `ReceivedInPlace` | `BytesInPlace` | a beginning of the csv of the log; after a replacement, each byte in its place of one of the logs |
| `NoHalfRecord` | `WholeAtRest` | whole records between two posts |
| `MirrorSteps` | `ImplementsMirror`, without fairness | initial states and steps map to those of `Mirror` |

The arguments:

* *PolicyStable* is not inductive: the patch may meet annotations that the list did not have. `LoopInv`
  says that every Deployment still in the worker's `todo` has no policy *now*, and is there once. Only the
  worker puts policies on, and it drops the Deployment it patches.
* *PatchesApply*: `PatchInv` says of the listed annotations what the patch relies on: the worker's items have
  no policy, and if somebody else's annotation was seen there is one now; the listener's items that were seen
  with a policy have one now. The listener could take the whole map away under the worker, and does not: what it
  patches has a policy, and by `LoopInv` no item of the worker has one (`PatchPatchInv`).
* *PolicyForReason*: `ReasonInv` says that what a goroutine in its loops still has before it, namespaces and
  Deployments, is what its spec is about, and that the worker's spec is that of the Receiver it last read.
* *Settled* has three parts. `ServedInv`: while clean, every Deployment that the Receiver last read asks for has a
  policy or is still before the worker (`Coming`), unless the Receiver is on its way to be read again. `VersionInv`: a
  resourceVersion stands for one spec, so that the cache's copy of a Receiver that is not `Behind` is the
  Receiver's. `EarlyInv`: the Deployments there from the start stay. At rest `NoLostUpdate` says that the worker
  has read the latest state, and `ServedInv` that it has been dealt with. The theorem has two
  hypotheses. `OneReceiver`: with two it is false (see 3.4). `NamespacesNamed`: the loop over the namespaces ends at
  an empty one (handler.go:126-130), and those after it are not served. The instance `live` satisfies both.
* *EffectWhileClean* is `RestartedForPolicy` in a state where no handler has anything left (`LoopInv`).
* *ControllerInCluster* needs that only Pods that exist are deleted (`BornInv`), and `LoopInv` and `ReasonInv`
  for the patches. Deleting a Pod that is terminating is a stuttering step.
* *RestartedForPolicy* needs to know where the Pod is ahead of the handler: `RestartInvs` says that,
  while clean, every Pod of a patched Deployment that needs a restart is a victim or its Deployment is the
  target. It needs `LoopInv`: the patch is the only step that creates such Pods, and it makes the Deployment
  the target. Creating a Pod does not, since it is stored under the policy (`covered`).
* *NoLostUpdate* is inductive together with `TypeOK` once the queue's own consistency (`QueueOK`) is part
  of it. The lemmas say what each of the queue's three operations and each callback keeps of `Woken`.
* *InjectedForReason*: `ReasonInv` says of each frame that the siblings left are stored Pods with the labels
  of the new one, and that a pair still ahead which matches now has been seen to tell. Stored Pods keep
  labels and only end (`StoredStay`), so a match found in a later list was one when the Deployments were
  listed.
* *NotMissed*: `HeardInv` says that, while no call has failed, a pair that has been telling all the time
  is still ahead of the loops or has been heard.
* *PodsAsInCluster* needs that Pods waiting for admission count against the replicas (`WithinReplicas`);
  it is proved with the library's facts about cardinalities.
* *NoLostWrite*: `GotInv` says that what a request has got is what is stored, or the resourceVersion has
  moved on; then the Update is refused.

* *AnsweredMeansDown*: `AllRight` says of each request, as long as nobody else has written, that what it
  knows is still so: the items left are what is stored and include every Deployment that has a Pod of the name; the group
  is that of the Deployment that decided; answer and targets left together are the similar ones; and a
  target that was written since it was got is at zero (`GotRight`), which is why a lost race does no harm. `RightStable`
  is the lemma that others who only scale down disturb none of this.
* *OnlySimilarTouched*: `MayInv` says of each request that it has targets only
  once it has found a Pod of the name and a policy that quarantines, and that its targets have the Pod's labels of
  that policy's group. It speaks of the request's own variables and of what does not change, so that nothing others
  do disturbs it.
* *AnswerTrueWhileCalm* is the part of `AllRight` about the answer, in the state after the step.
* *EnvironmentFromOwner*: `EnvOK` says of the search that the items left have had their policy in the
  process's time, and that every owner that has had a policy throughout (`Steady`) is among them.
* *InOrderOnce*: `RoundOK` relates every entry the process has read itself to where it is in its round: it
  is older than the next window of its Pod. That is where window and sleep have to be of one length.
* *Collected*: `ClaimsRight` is the property with last reads that are not in the future; it needs no more
  than that, but each step that appends, shortens or forgets has to be shown to keep it.
* *ImplementsFile* needs `TypeOK`: that a process which has died in the middle of a write leaves a torn entry, and
  that only a write with entries left has one half written.
* *BytesInPlace* is not inductive: `FromLogs` adds that what the sender has got and what is in the posts are
  beginnings of the log or of one that was replaced. The file is then the beginning of the csv that has its length.
  `MirrorSteps` needs this for the step in which a handler overwrites.
* *WholeAtRest*: `Accounted` says that a file ends where a record ends, or where one of its open handlers has come to. A
  handler that writes beyond the end takes over; one that ends has come to the end of a text, which is the end of a
  record, or is not the one the file ends in.

**Only model-checked:** everything under fairness (`TakesEffect`, `GetsAnswer`, `ChecksGoOn`, the fairness
parts of `ImplementsReconcile` and `ImplementsMirror`), which is out of the prover's reach. The violations are
counterexamples and need no proof. No module has a RECURSIVE operator.

## 5. Seen while modelling, without a run

* Without a group label the endpoint compares all labels of the Pod, its `pod-template-hash` too, which no
  Deployment has: nothing is quarantined (endpoint.go:157).
* An analysis tool that takes a connection and never answers stops the sender for good: the client has no
  timeout, although the comment below it speaks of a server that is not working (sender.go:122-125).
* The sidecar never closes the bodies of responses (sidecar.go:260), and the URLs keep the address of the
  loop variable, so that every log line names the Pod's last container (sidecar.go:253).
* If a Pod of the same name comes first in the list of all namespaces, the sidecar looks after that one
  (sidecar.go:174).
* After a torn entry every answer of `GET /get_logs` is empty, for as long as the file is there.
* When the logger's Pod is replaced an analysis tool has the new log in front and the end of the old one
  behind it, with a record spliced from two where they meet (server.go:66).
* Once the form of the log is larger than 10 MB every post is refused, with status 200, and no analysis tool gets
  anything new (server.go:51, sender.go:122).
* A stream that breaks off within a quoted value makes the collector panic (collector.go:113); within an unquoted one,
  after the type, it leaves an entry without its url (collector.go:246-256).
* The webhook reads the annotations, the controller patches them and lists the Pods, and then the Pod is stored
  without the sidecar: nobody restarts it, since the Deployment counts as done (webhook.go:150-157, handler.go:163).
* Of two Receivers that select one Deployment the later has no effect, not even after the first is deleted,
  until it is changed.

No comment, document or test promises the opposite in words, so these are not listed as findings. They show
in the models: as disjuncts of `ChecksGoOn`, `clash` in `EnvironmentFromOwner`, `old` in `BytesInPlace`, `Fitting` and
`hung` in `intact` of `Mirror`, `end = "torn"`, `ReadPanics` and `whole`, and `covered`.

## 6. Not modelled, and the plan

Left out on purpose:

* malformed requests and specs, formatting and logging, and client configuration;
* the texts of log lines (of `processLine` there is what it makes of a whole line and of one cut short), the `tail` parameter and the clean-up of the text in
  `retrieveLogs`, and the name of the container in a line;
* the contents of the webhook's patch (`addContainer`, `addVolume`, `updateAnnotation`) and requests to
  update a Pod;
* Deployments being deleted in `Controller`: a patch of one that is gone is a failed call;
* a call that is sent and lands after its process has died: a crash comes between calls, and a failed write
  may have taken effect;
* a tombstone of a Receiver that was deleted while the controller was down: there is none, and the policy
  stays, which `orphan` shows to be possible without any crash;
* the rate limiter, which is never used;
* `app.py` and the notebooks of the analysis tool, which only compute statistics; generated clients.

The order of work:

1. *(done)* `Cluster`, `WorkQueue`, `Controller` with `Reconcile`; `Quarantine`; `Webhook`; their proofs.
2. *(done)* `LogFile`, `Collector`, `Delivery` with `Mirror`; `Sidecar`; their proofs; `AnsweredMeansDown`.
3. Pure functions, as operators against a reference definition: `processLine`, the tail of `retrieveLogs`,
   `updateAnnotation` and `addContainer`, `RetrieveExpression`. They are to be checked over bounded inputs.
4. Proofs: *(done)* `PodsAsInCluster`, `ControllerInCluster` and `CollectorWritesFile`, by which each component
   makes the steps its neighbours take it to make. Next: `Collector` and `Delivery` composed, with what is
   received shown to have been printed; what the controller and the webhook bring about together (every
   Pod of a Deployment with a policy and a stored injected sibling is injected).
5. That annotations of others survive (`AddPolicy` over a list without annotations) is violated; it is to be
   stated once a comment or a document is found that promises it.

The hazards in `PROJECT.json` without a property are the list this plan is for.
