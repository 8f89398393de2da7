------------------------------- MODULE Webhook --------------------------------
(***************************************************************************)
(* The webhook dispatcher (ShotStopperWebhook.cpp): a queue of events and  *)
(* a worker task that posts them one by one.  The worker lives only while  *)
(* webhooks are enabled or a test is under way.  The control loop and the  *)
(* scale worker close a gate without taking a lock; a request that is      *)
(* under way is then cancelled by the network task, which borrows the HTTP *)
(* client of the worker for that.                                          *)
(***************************************************************************)
EXTENDS Integers, Sequences

CONSTANTS
    QueueLength,    \* events that wait, kWebhookQueueDepth
    MaxEvents,      \* bound on the events of a behaviour
    MaxSaves,       \* bound on the saved configurations
    MaxRaises       \* bound on the calls that close the gate

VARIABLES
    config,     \* [enabled, defer, generation]
    worker,     \* [state, draining]: workerState_, stopAfterDrain_
    queue,      \* the generations of the configuration under which events came
    task,       \* the worker task: [at, item]; item 0 is none
    client,     \* its HTTP client: [alive, published, connected, cancelled]
    gate,       \* [control, scale]: controlCritical_, scaleConnecting_
    latch,      \* cancelActive_
    abort,      \* abortRequested_
    setter,     \* where the two callers that close the gate are
    aborter,    \* the network task in serviceAbort
    caller,     \* [save, test]: the calls that are half done
    overlapped, \* history: the gate was closed during this request
    used        \* [events, saves, raises]

webhookVars == <<config, worker, queue, task, client, gate, latch, abort, setter,
                 aborter, caller, overlapped, used>>

Sources == {"control", "scale"}
NoClient == [alive |-> FALSE, published |-> FALSE, connected |-> FALSE, cancelled |-> FALSE]
Absent == [at |-> "absent", item |-> 0]

WebhookInit ==
    /\ config \in [enabled : BOOLEAN, defer : BOOLEAN, generation : {1}]
    /\ worker = [state |-> IF config.enabled THEN "ready" ELSE "stopped", draining |-> FALSE]
    /\ task = IF config.enabled THEN [Absent EXCEPT !.at = "look"] ELSE Absent
    /\ queue = <<>> /\ client = NoClient
    /\ gate = [s \in Sources |-> FALSE] /\ setter = [s \in Sources |-> "idle"]
    /\ latch = FALSE /\ abort = FALSE /\ aborter = "idle" /\ overlapped = FALSE
    /\ caller = [save |-> FALSE, test |-> FALSE]
    /\ used = [events |-> 0, saves |-> 0, raises |-> 0]

dispatchAllowed == ~(config.defer /\ gate["control"]) /\ ~gate["scale"]

-----------------------------------------------------------------------------
(* The life of the worker, under lifecycleMutex_ *)

\* startWorker(); a worker that is still stopping is not started again.
Started ==
    IF worker.state = "stopped"
    THEN /\ worker' = [state |-> "ready", draining |-> FALSE]
         /\ task' = [Absent EXCEPT !.at = "look"]
    ELSE UNCHANGED <<worker, task>>

\* setConfig(): only while no cycle is active, which the lease ensures
Save(enabled, defer) ==
    /\ ~gate["control"] /\ ~caller.save /\ used.saves < MaxSaves
    /\ used' = [used EXCEPT !.saves = @ + 1]
    /\ config' = IF <<enabled, defer>> = <<config.enabled, config.defer>> THEN config
                 ELSE [enabled |-> enabled, defer |-> defer,
                       generation |-> config.generation + 1]
    /\ caller' = [caller EXCEPT !.save = TRUE]
    /\ UNCHANGED <<worker, queue, task, client, gate, latch, abort, setter, aborter, overlapped>>

SaveReachesWorker ==
    /\ caller.save
    /\ caller' = [caller EXCEPT !.save = FALSE]
    /\ IF config.enabled THEN Started
       ELSE /\ worker' = [state |-> IF worker.state = "ready" THEN "stopping" ELSE worker.state,
                          draining |-> FALSE]
            /\ UNCHANGED task
    /\ UNCHANGED <<config, queue, client, gate, latch, abort, setter, aborter, overlapped, used>>

\* A test starts the worker first.
Test ==
    /\ ~caller.test /\ used.events < MaxEvents
    /\ caller' = [caller EXCEPT !.test = TRUE]
    /\ Started
    /\ UNCHANGED <<config, queue, client, gate, latch, abort, setter, aborter, overlapped, used>>

\* enqueue(): what finds no room, no worker or the mutex taken is dropped.
Enqueue(test) ==
    /\ used.events < MaxEvents
    /\ used' = [used EXCEPT !.events = @ + 1]
    /\ test => caller.test
    /\ caller' = [caller EXCEPT !.test = IF test THEN FALSE ELSE @]
    /\ \/ /\ worker.state = "ready"
          /\ test \/ config.enabled
          /\ Len(queue) < QueueLength
          /\ queue' = Append(queue, config.generation)
          /\ worker' = [worker EXCEPT !.draining = @ \/ (test /\ ~config.enabled)]
       \/ test /\ UNCHANGED <<queue, worker>>
    /\ UNCHANGED <<config, task, client, gate, latch, abort, setter, aborter, overlapped>>

-----------------------------------------------------------------------------
(* The gate: the level, then the latch, then the request *)

Raise(s) ==
    /\ setter[s] = "idle" /\ used.raises < MaxRaises
    /\ s = "control" => ~caller.save
    /\ used' = [used EXCEPT !.raises = @ + 1]
    /\ gate' = [gate EXCEPT ![s] = TRUE]
    /\ setter' = [setter EXCEPT ![s] = "latch"]
    /\ overlapped' = (overlapped \/ task.at \in {"perform", "event"})
    /\ UNCHANGED <<config, worker, queue, task, client, latch, abort, aborter, caller>>

Latch(s) ==
    /\ setter[s] = "latch"
    /\ latch' = TRUE
    /\ setter' = [setter EXCEPT ![s] = "request"]
    /\ UNCHANGED <<config, worker, queue, task, client, gate, abort, aborter, caller,
                   overlapped, used>>

AskAbort(s) ==
    /\ setter[s] = "request"
    /\ abort' = TRUE
    /\ setter' = [setter EXCEPT ![s] = "idle"]
    /\ UNCHANGED <<config, worker, queue, task, client, gate, latch, aborter, caller,
                   overlapped, used>>

Lower(s) ==
    /\ setter[s] = "idle" /\ gate[s]
    /\ gate' = [gate EXCEPT ![s] = FALSE]
    /\ UNCHANGED <<config, worker, queue, task, client, latch, abort, setter, aborter,
                   caller, overlapped, used>>

-----------------------------------------------------------------------------
(* The network task, serviceAbort() *)

Borrow ==
    /\ abort /\ aborter = "idle"
    /\ abort' = FALSE
    /\ aborter' = IF client.published THEN "cancel" ELSE "idle"
    /\ UNCHANGED <<config, worker, queue, task, client, gate, latch, setter, caller,
                   overlapped, used>>

\* mutant: a cancellation that failed is not tried again
FaultyRetries(done) == FALSE

\* A client that is still connecting cannot be cancelled yet.
Retries(done) == ~done /\ client.published /\ latch

GiveBack(done) ==
    /\ aborter = "cancel"
    /\ done => client.connected
    /\ client' = [client EXCEPT !.cancelled = @ \/ done]
    /\ aborter' = "idle"
    /\ abort' = (abort \/ Retries(done))
    /\ UNCHANGED <<config, worker, queue, task, gate, latch, setter, caller, overlapped, used>>

-----------------------------------------------------------------------------
(* The worker task *)

GoTo(at, item) == task' = [at |-> at, item |-> item]

Look ==
    /\ task.at = "look"
    /\ CASE worker.state = "stopping" -> GoTo("release", task.item)
         [] worker.state # "stopping" /\ task.item # 0 -> GoTo("recheck", task.item)
         [] OTHER -> GoTo(IF dispatchAllowed THEN "receive" ELSE "drain", 0)
    /\ UNCHANGED <<config, worker, queue, client, gate, latch, abort, setter, aborter,
                   caller, overlapped, used>>

Receive ==
    /\ task.at = "receive"
    /\ \/ /\ queue # <<>>
          /\ GoTo("recheck", Head(queue)) /\ queue' = Tail(queue)
       \/ /\ queue = <<>>
          /\ GoTo("drain", 0) /\ UNCHANGED queue
    /\ UNCHANGED <<config, worker, client, gate, latch, abort, setter, aborter, caller,
                   overlapped, used>>

\* send(): an event of an older configuration is dropped, and so is one that
\* finds no connection.
Recheck ==
    /\ task.at = "recheck"
    /\ \/ /\ dispatchAllowed /\ task.item = config.generation
          /\ GoTo("clear", task.item)
          /\ client' = [NoClient EXCEPT !.alive = TRUE]
       \/ /\ dispatchAllowed
          /\ GoTo("drain", 0) /\ UNCHANGED client
       \/ /\ ~dispatchAllowed
          /\ GoTo("drain", task.item) /\ UNCHANGED client
    /\ UNCHANGED <<config, worker, queue, gate, latch, abort, setter, aborter, caller,
                   overlapped, used>>

Clear ==
    /\ task.at = "clear"
    /\ latch' = FALSE
    /\ GoTo("publish", task.item)
    /\ UNCHANGED <<config, worker, queue, client, gate, abort, setter, aborter, caller,
                   overlapped, used>>

Publish ==
    /\ task.at = "publish"
    /\ client' = [client EXCEPT !.published = TRUE]
    /\ GoTo("level", task.item)
    /\ UNCHANGED <<config, worker, queue, gate, latch, abort, setter, aborter, caller,
                   overlapped, used>>

\* The level is read first, the latch after it.
CheckLevel ==
    /\ task.at = "level"
    /\ GoTo(IF dispatchAllowed THEN "latch" ELSE "unpublish", task.item)
    /\ UNCHANGED <<config, worker, queue, client, gate, latch, abort, setter, aborter,
                   caller, overlapped, used>>

CheckLatch ==
    /\ task.at = "latch"
    /\ GoTo(IF latch THEN "unpublish" ELSE "perform", task.item)
    /\ overlapped' = FALSE
    /\ UNCHANGED <<config, worker, queue, client, gate, latch, abort, setter, aborter,
                   caller, used>>

\* httpEventHandler(): a connected client that should not go on is closed.  The
\* level is read first, and the latch after it.
HttpEvent ==
    /\ task.at = "perform"
    /\ client' = [client EXCEPT !.connected = TRUE, !.cancelled = @ \/ ~dispatchAllowed]
    /\ abort' = (abort \/ ~dispatchAllowed)
    /\ GoTo(IF dispatchAllowed THEN "event" ELSE "perform", task.item)
    /\ UNCHANGED <<config, worker, queue, gate, latch, setter, aborter, caller,
                   overlapped, used>>

HttpLatch ==
    /\ task.at = "event"
    /\ client' = [client EXCEPT !.cancelled = @ \/ latch]
    /\ abort' = (abort \/ latch)
    /\ GoTo("perform", task.item)
    /\ UNCHANGED <<config, worker, queue, gate, latch, setter, aborter, caller,
                   overlapped, used>>

Unpublish ==
    /\ task.at \in {"perform", "unpublish"}
    /\ client' = [client EXCEPT !.published = FALSE]
    /\ GoTo("wait", task.item)
    /\ UNCHANGED <<config, worker, queue, gate, latch, abort, setter, aborter, caller,
                   overlapped, used>>

\* activeClientUsers_ = 0
Released == aborter = "idle"

CleanUp ==
    /\ task.at = "wait" /\ Released
    /\ client' = NoClient
    /\ GoTo("drain", 0)
    /\ UNCHANGED <<config, worker, queue, gate, latch, abort, setter, aborter, caller,
                   overlapped, used>>

\* The end of a pass: a worker started for a test stops when the queue is empty.
Drain ==
    LET ends == worker.state = "ready" /\ worker.draining /\ queue = <<>> IN
    /\ task.at = "drain"
    /\ worker' = [worker EXCEPT !.state = IF ends THEN "stopping" ELSE @]
    /\ GoTo(IF worker'.state = "stopping" THEN "release" ELSE "look", task.item)
    /\ UNCHANGED <<config, queue, client, gate, latch, abort, setter, aborter, caller,
                   overlapped, used>>

Release ==
    /\ task.at = "release"
    /\ task' = Absent
    /\ worker' = [state |-> "stopped", draining |-> FALSE]
    /\ queue' = <<>>
    /\ UNCHANGED <<config, client, gate, latch, abort, setter, aborter, caller, overlapped,
                   used>>

WebhookNext ==
    \/ \E enabled, defer \in BOOLEAN : Save(enabled, defer)
    \/ SaveReachesWorker \/ Test
    \/ \E test \in BOOLEAN : Enqueue(test)
    \/ \E s \in Sources : Raise(s) \/ Latch(s) \/ AskAbort(s) \/ Lower(s)
    \/ Borrow \/ \E done \in BOOLEAN : GiveBack(done)
    \/ Look \/ Receive \/ Recheck \/ Clear \/ Publish \/ CheckLevel \/ CheckLatch
    \/ HttpEvent \/ HttpLatch \/ Unpublish \/ CleanUp \/ Drain \/ Release

WebhookSpec == WebhookInit /\ [][WebhookNext]_webhookVars

-----------------------------------------------------------------------------
(* Properties *)

\* A request during which the gate was closed, however shortly, is cancelled, or
\* its cancellation is still to come.
OverlapCancels ==
    /\ task.at \in {"perform", "event"} /\ overlapped
    /\ \A s \in Sources : setter[s] = "idle"
    => client.cancelled \/ abort \/ aborter = "cancel"

-----------------------------------------------------------------------------
(* What OverlapCancels rests on: the invariant of its proof *)

Clients == [alive : BOOLEAN, published : BOOLEAN, connected : BOOLEAN,
            cancelled : BOOLEAN]

\* Who still has to do what, when the gate was closed during a request: the caller
\* that closed it, or the network task.  The latch that makes the latter try again
\* is cleared before a client is published only.
CancelsComing ==
  \/ \E s \in Sources : setter[s] = "latch"
  \/ latch /\ \E s \in Sources : setter[s] = "request"
  \/ latch /\ (client.cancelled \/ abort \/ aborter = "cancel")

\* What OverlapCancels rests on.
CancelsOverlap ==
  /\ client \in Clients
  /\ setter \in [Sources -> {"idle", "latch", "request"}]
  /\ task.at \in {"level", "latch", "perform", "event"} => client.published
  /\ task.at \in {"perform", "event"} /\ overlapped => CancelsComing
=============================================================================
