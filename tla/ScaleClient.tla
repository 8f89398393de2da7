---------------------------- MODULE ScaleClient -----------------------------
(***************************************************************************)
(* The library's client for one Bluetooth scale.  Two tasks meet in it:    *)
(* the scale worker, which alone moves the client from state to state, and *)
(* the Bluetooth host, whose callbacks only leave events behind.  A        *)
(* callback first checks that the operation it belongs to is still the     *)
(* current one and takes effect later, when it may no longer be.           *)
(*                                                                         *)
(* The host's stack below the client is external: it starts what it is     *)
(* asked to start, or refuses, and reports in any order a radio can.       *)
(* Deadlines and the lengths of delays are left out: a timer that is       *)
(* running may expire.                                                     *)
(***************************************************************************)
EXTENDS Integers, Sequences

CONSTANTS
    Peers,              \* scales, by their address
    CriticalLength,     \* kCriticalEventCount
    RxLength,           \* kRxFrameCount
    MaxRejected,        \* MAX_CONSECUTIVE_REJECTED_PACKETS
    MaxOperations,      \* a bound of the model: operations started
    MaxResets           \* a bound of the model: resets of the host

VARIABLES
    client,     \* what the worker owns
    mail,       \* what callbacks left for the worker
    call,       \* the callback in progress: its operation was current
    radio,      \* the host's stack and the controller
    at          \* how far the worker is in its call of the library

clientVars == <<client, mail, call, radio, at>>

None == 0               \* no operation, no handle
NoPeer == "no peer"
NoCall == [type |-> "none"]

Discovering == {"DiscoveringServices", "DiscoveringCharacteristics",
                "DiscoveringDescriptors"}
Connecting == {"Connecting", "Subscribing", "Initializing"} \cup Discovering
Searching == {"Scanning", "Backoff"}

NoMail == [critical |-> <<>>, candidate |-> NoCall, control |-> <<>>,
           rx |-> <<>>, answer |-> "none", flags |-> {}]

World == [c |-> client, m |-> mail, r |-> radio]
Becomes(w) == client' = w.c /\ mail' = w.m /\ radio' = w.r

-----------------------------------------------------------------------------
(* What every path of the worker is made of *)

\* nextOperationIdLocked: an identifier is never used twice.
Begin(c, domain) == [c EXCEPT !.last = @ + 1, ![domain] = c.last + 1]

\* finishLink: one lifecycle is cleaned up once.  Its operations are no longer
\* current and nothing they left behind is read; what was going on is
\* cancelled.  A link it closes ends when the host says so, as any link may.
FinishLink(w) ==
    IF ~w.c.live
    THEN [w EXCEPT !.c.state = "Idle"]
    ELSE [c |-> [w.c EXCEPT
                   !.live = FALSE, !.state = "Idle", !.generation = @ + 1,
                   !.scan = None, !.link = None, !.gatt = None,
                   !.handle = None, !.commanding = FALSE, !.rejected = 0,
                   !.waited = NoPeer],
          m |-> NoMail,
          r |-> [w.r EXCEPT
                   !.scanning = IF w.c.state \in Searching THEN None ELSE @,
                   !.gatt = None]]

\* beginConfiguredScan: forget the last scan and its choice.  A scan that
\* the host refuses is cleaned up at once.
Scan(w, state, ok) ==
    LET c == Begin([w.c EXCEPT !.generation = @ + 1, !.live = TRUE,
                               !.peer = NoPeer, !.queued = FALSE,
                               !.sync = w.r.sync], "scan")
        begun == [w EXCEPT !.c = c, !.m.candidate = NoCall]
    IN  IF ok
        THEN [begun EXCEPT !.c.state = state, !.r.scanning = c.scan]
        ELSE FinishLink(begun)

\* finishLink after a connection that was not established: the client goes
\* on scanning, and for a while takes only the same scale up again.
Retry(w, ok) ==
    LET scanned == Scan(FinishLink(w), "Backoff", ok)
    IN  IF ok THEN [scanned EXCEPT !.c.waited = w.c.peer] ELSE scanned

\* cooldownSelected: the scale is left alone for some time.
Cooled(w) == [w EXCEPT !.c.cooling = @ \cup {w.c.peer}]

\* A procedure of the host is started, or the link is given up.  The end of
\* one that is no longer current is dropped by callbackMatches: only the last
\* one is kept.
Procedure(w, state, ok) ==
    LET c == Begin([w.c EXCEPT !.state = state], "gatt")
        begun == [w EXCEPT !.c = c]
    IN  IF ok THEN [begun EXCEPT !.r.gatt = c.gatt]
        ELSE FinishLink(IF state \in Discovering THEN Cooled(begun) ELSE begun)

\* beginConnect
Connect(w, ok) ==
    LET c == Begin([w.c EXCEPT !.state = "Connecting"], "link")
        begun == [w EXCEPT !.c = c]
    IN  IF ok THEN [begun EXCEPT !.r.connecting =
                                   [type |-> "connect", op |-> c.link]]
        ELSE FinishLink(begun)

\* finishReady
BecomeReady(w) ==
    [w EXCEPT !.c.state = "Ready", !.c.cooling = @ \ {w.c.peer}]

\* What the host must refuse.  Bound: it refuses what exceeds the number of
\* operations.
Room(w) == w.r.ready /\ w.c.last < MaxOperations
MayScan(w) == Room(w) /\ w.r.scanning = None
MayConnect(w) == Room(w) /\ w.r.connecting = NoCall
Linked(w, handle) == Room(w) /\ \E l \in w.r.links : l.handle = handle

-----------------------------------------------------------------------------
(* The worker's events *)

\* eventMatches
Current(event, c) ==
    /\ event.generation = c.generation
    /\ event.op = CASE event.type \in {"Candidate", "ScanComplete"} -> c.scan
                    [] event.type \in {"Connected", "Disconnected"} -> c.link
                    [] OTHER -> c.gatt

\* A candidate is taken up while scanning, or when the scale that could not
\* be connected is heard again.  The scan is cancelled first.
TakeCandidate(w, event, ok) ==
    IF \/ w.c.state = "Scanning"
       \/ w.c.state = "Backoff" /\ w.c.waited = event.peer
    THEN Connect([w EXCEPT !.c.peer = event.peer, !.c.waited = NoPeer,
                           !.r.scanning = None], ok)
    ELSE w

\* What one event of the link does.
Failed(w, event, ok) ==
    IF event.status = "unestablished" THEN Retry(w, ok) ELSE FinishLink(w)

LinkEvent(w, event, ok) ==
    CASE event.type = "ScanComplete" /\ w.c.state \in Searching ->
           FinishLink(w)
      [] event.type = "Connected" /\ w.c.state = "Connecting" ->
           IF event.status = "ok"
           THEN Procedure([w EXCEPT !.c.handle = event.handle],
                          "DiscoveringServices", ok)
           ELSE Failed(w, event, ok)
      [] event.type = "Disconnected" /\ event.handle = w.c.handle ->
           Failed(w, event, ok)
      [] OTHER -> w

MayLink(w, event) ==
    CASE event.status = "unestablished" -> MayScan(FinishLink(w))
      [] event.status = "ok" -> Linked(w, event.handle)
      [] OTHER -> TRUE

\* A procedure is over: the next one follows, and after the last the client
\* is ready.  There may be more services to look at, and more to write.
Following(state, more) ==
    CASE state = "DiscoveringServices" -> "DiscoveringCharacteristics"
      [] state = "DiscoveringCharacteristics" ->
           IF more THEN state ELSE "DiscoveringDescriptors"
      [] state = "DiscoveringDescriptors" -> "Subscribing"
      [] OTHER -> IF more THEN "Initializing" ELSE "Ready"

Procedures == Discovering \cup {"Subscribing", "Initializing"}

ProcedureEvent(w, event, ok, more) ==
    LET next == Following(w.c.state, more)
    IN  CASE w.c.state \notin Procedures -> w
          [] OTHER ->
               IF event.status # "ok" THEN FinishLink(Cooled(w))
               ELSE IF next = "Ready" THEN BecomeReady(w)
               ELSE Procedure(w, next, ok)

-----------------------------------------------------------------------------
(* The worker: service, and the calls that begin with it *)

\* A reset of the host ends the link.  Then what was lost for want of room
\* ends it, before any event is looked at.
Service ==
    /\ at = "out"
    /\ LET synced ==
              IF client.sync \notin {None, radio.sync}
              THEN [FinishLink(World) EXCEPT !.c.sync = radio.sync]
              ELSE World
           down == ~radio.ready /\ synced.c.state # "Idle"
           lost == synced.m.flags # {}
       IN  /\ Becomes(CASE down -> FinishLink(synced)
                        [] ~down /\ lost -> [FinishLink(synced)
                                               EXCEPT !.m.flags = {}]
                        [] OTHER -> synced)
           /\ at' = IF down \/ lost THEN "done" ELSE "critical"
    /\ UNCHANGED call

GoTo(step) == at' = step
Leave == at' = "out"

TakeCritical ==
    /\ at = "critical"
    /\ IF mail.critical = <<>>
       THEN GoTo("candidate") /\ Becomes(World)
       ELSE LET event == Head(mail.critical)
                w == [World EXCEPT !.m.critical = Tail(@)]
            IN  /\ IF Current(event, client)
                   THEN \E ok \in BOOLEAN :
                           /\ ok => MayLink(w, event)
                           /\ Becomes(LinkEvent(w, event, ok))
                   ELSE Becomes(w)
                /\ UNCHANGED at
    /\ UNCHANGED call

TakeMailbox ==
    /\ at = "candidate"
    /\ LET event == mail.candidate
           w == [World EXCEPT !.m.candidate = NoCall]
       IN  IF event # NoCall /\ Current(event, client)
           THEN \E ok \in BOOLEAN :
                   /\ ok => MayConnect(w)
                   /\ Becomes(TakeCandidate(w, event, ok))
           ELSE Becomes(w)
    /\ GoTo("control")
    /\ UNCHANGED call

TakeControl ==
    /\ at = "control"
    /\ IF mail.control = <<>>
       THEN GoTo("timers") /\ Becomes(World)
       ELSE LET event == Head(mail.control)
                w == [World EXCEPT !.m.control = Tail(@)]
            IN  /\ IF Current(event, client)
                   THEN \E ok, more \in BOOLEAN :
                           /\ ok => Linked(w, client.handle)
                           /\ Becomes(ProcedureEvent(w, event, ok, more))
                   ELSE Becomes(w)
                /\ UNCHANGED at
    /\ UNCHANGED call

\* A connection that takes too long, or one of its procedures, is given up;
\* after the delay any scale may be taken up again.
Timers ==
    /\ at = "timers"
    /\ \/ Becomes(World)
       \/ client.state \in Connecting /\ Becomes(FinishLink(World))
       \/ /\ client.state = "Backoff"
          /\ Becomes([World EXCEPT !.c.state = "Scanning", !.c.waited = NoPeer])
    /\ GoTo("done")
    /\ UNCHANGED call

Poll ==
    /\ at = "done"
    /\ Leave
    /\ UNCHANGED <<client, mail, call, radio>>

\* startScan: an equal scan goes on; anything else is ended first.
StartScan ==
    /\ at = "done" /\ client.last < MaxOperations
    /\ \E filter \in Peers \cup {NoPeer}, force, ok \in BOOLEAN :
          LET same == client.state \in Searching /\ ~force
                      /\ client.filter = filter
              ended == IF client.state = "Idle" THEN World
                       ELSE FinishLink(World)
          IN  /\ ok => MayScan(ended)
              /\ Becomes(IF ~radio.ready \/ same THEN World
                         ELSE Scan([ended EXCEPT !.c.filter = filter],
                                   "Scanning", ok))
    /\ Leave
    /\ UNCHANGED call

\* newWeightAvailable: silence ends the link; a frame of another connection
\* ends the reading; too many frames without a meaning end the link.
OwnFrame(frame) ==
    frame.generation = client.generation /\ frame.op = client.link

ReadFrame ==
    LET read == [World EXCEPT !.m.rx = Tail(@)]
        refused == [read EXCEPT !.c.rejected = @ + 1]
    IN  IF ~OwnFrame(Head(mail.rx))
        THEN Becomes(read) /\ Leave
        ELSE \/ Becomes([read EXCEPT !.c.rejected = 0]) /\ Leave
             \/ IF refused.c.rejected = MaxRejected
                THEN Becomes(FinishLink(refused)) /\ Leave
                ELSE Becomes(refused) /\ UNCHANGED at

TakeWeight ==
    /\ at = "done"
    /\ IF client.state # "Ready"
       THEN Becomes(World) /\ Leave
       ELSE \/ Becomes(FinishLink(World)) /\ Leave
            \/ mail.rx = <<>> /\ Becomes(World) /\ Leave
            \/ mail.rx # <<>> /\ ReadFrame
    /\ UNCHANGED call

\* writeOp and writeCommand: the worker waits for the scale's answer, for the
\* end of the link, or for the deadline.  A write the scale does not answer
\* succeeds when the host takes it.
Write ==
    /\ at = "done"
    /\ \E ok, answered \in BOOLEAN :
          /\ ok => Linked(World, client.handle)
          /\ CASE client.state # "Ready" ->
                    Becomes(World) /\ Leave
               [] client.state = "Ready" /\ ~answered ->
                    Becomes(IF ok THEN World ELSE FinishLink(World))
                    /\ Leave
               [] OTHER ->
                    /\ Becomes(Procedure([World EXCEPT
                                            !.c.commanding = TRUE,
                                            !.m.answer = "none"], "Ready", ok))
                    /\ IF ok THEN GoTo("waiting") ELSE Leave
    /\ UNCHANGED call

WriteDone ==
    /\ at = "waiting"
    /\ LET w == [World EXCEPT !.c.commanding = FALSE, !.m.answer = "none"]
       IN  Becomes(IF mail.answer = "ok" THEN w ELSE FinishLink(w))
    /\ Leave
    /\ UNCHANGED call

Disconnect ==
    /\ at = "out"
    /\ Becomes(FinishLink(World))
    /\ UNCHANGED <<call, at>>

WorkerStep ==
    \/ Service \/ TakeCritical \/ TakeMailbox \/ TakeControl \/ Timers
    \/ Poll \/ StartScan \/ TakeWeight \/ Write \/ WriteDone \/ Disconnect

-----------------------------------------------------------------------------
(* The host: what happens on the radio, and the callback it leads to *)

\* callbackMatches: the check under the lock.  The callback goes on only if
\* its operation is current.
Deliver(event, r) ==
    /\ call = NoCall
    /\ radio' = r
    /\ call' = IF event.op = CASE event.type \in {"Candidate", "ScanComplete"}
                                   -> client.scan
                               [] event.type = "Done" -> client.gatt
                               [] OTHER -> client.link
               THEN event ELSE NoCall
    /\ UNCHANGED <<client, mail, at>>

Event(type, op, status, handle) ==
    [type |-> type, op |-> op, status |-> status, handle |-> handle]

Advertise ==
    /\ radio.scanning # None
    /\ \E p \in Peers :
          Deliver([type |-> "Candidate", op |-> radio.scanning, peer |-> p],
                  radio)

ScanEnds ==
    /\ radio.scanning # None
    /\ Deliver(Event("ScanComplete", radio.scanning, "ended", None),
               [radio EXCEPT !.scanning = None])

\* A connection may succeed although it has been cancelled.
FreeHandle(r) == IF \E l \in r.links : l.handle = 1 THEN 2 ELSE 1

ConnectionDone ==
    /\ radio.connecting # NoCall
    /\ \E status \in {"ok", "failed", "unestablished"} :
          LET h == FreeHandle(radio)
              op == radio.connecting.op
              over == [radio EXCEPT !.connecting = NoCall]
          IN  IF status = "ok"
              THEN /\ \A l \in radio.links : l.handle # h
                   /\ Deliver(Event("Connected", op, status, h),
                              [over EXCEPT !.links =
                                 @ \cup {[op |-> op, handle |-> h]}])
              ELSE Deliver(Event("Connected", op, status, None), over)

LinkLost ==
    \E l \in radio.links, status \in {"lost", "unestablished"} :
       Deliver(Event("Disconnected", l.op, status, l.handle),
               [radio EXCEPT !.links = @ \ {l}])

Notify ==
    \E l \in radio.links :
       Deliver(Event("Notify", l.op, "ok", l.handle), radio)

ProcedureDone ==
    /\ radio.gatt # None
    /\ \E status \in {"ok", "failed"} :
          /\ status = "ok" => radio.links # {}
          /\ Deliver(Event("Done", radio.gatt, status, None),
                     [radio EXCEPT !.gatt = None])

\* Every event is stamped with the generation that is current when it is
\* queued.  What finds no room is not forgotten: a flag ends the link.
Stamped(event) ==
    [f \in DOMAIN event \cup {"generation"} |->
        IF f = "generation" THEN client.generation ELSE event[f]]

FaultyPush(queue, event, length, flag) ==
    IF Len(mail[queue]) < length
    THEN [mail EXCEPT ![queue] = Append(@, Stamped(event))]
    ELSE mail
Push(queue, event, length, flag) ==
    IF Len(mail[queue]) < length
    THEN [mail EXCEPT ![queue] = Append(@, Stamped(event))]
    ELSE [mail EXCEPT !.flags = @ \cup {flag}]

\* onAdvertisement: one candidate for each scan, and not a scale that is still
\* left alone.  How long that lasts is open.
Wanted(p) ==
    /\ \/ client.state = "Scanning"
       \/ client.state = "Backoff" /\ client.waited = p
    /\ client.filter \in {NoPeer, p}

Advertised ==
    /\ call.type = "Candidate"
    /\ \/ /\ Wanted(call.peer) /\ call.op = client.scan /\ ~client.queued
          /\ mail' = [mail EXCEPT !.candidate = Stamped(call)]
          /\ client' = [client EXCEPT !.queued = TRUE,
                                     !.cooling = @ \ {call.peer}]
       \/ /\ \/ ~Wanted(call.peer) \/ call.op # client.scan \/ client.queued
             \/ call.peer \in client.cooling
          /\ UNCHANGED <<mail, client>>

\* pushCriticalEvent; the end of a link also ends the wait for an answer.
Reported ==
    /\ call.type \in {"ScanComplete", "Connected", "Disconnected"}
    /\ LET m == Push("critical", call, CriticalLength, "critical")
       IN  mail' = IF call.type = "Disconnected"
                      /\ client.commanding
                   THEN [m EXCEPT !.answer = "broken"] ELSE m
    /\ UNCHANGED client

\* onService, onCharacteristic, onDescriptor and onWrite, at the end of each.
\* A write checks once more that its operation is current.
Finished ==
    /\ call.type = "Done"
    /\ mail' = CASE client.state \notin Discovering /\ call.op # client.gatt
                      -> mail
                 [] client.commanding /\ call.op = client.gatt
                      -> [mail EXCEPT !.answer = call.status]
                 [] OTHER -> Push("control", call, CriticalLength, "control")
    /\ UNCHANGED client

\* onNotification: a frame, one too many, or one that cannot be read.
Notified ==
    /\ call.type = "Notify"
    /\ IF call.op = client.link /\ call.handle = client.handle
       THEN \/ mail' = Push("rx", call, RxLength, "rx")
            \/ mail' = [mail EXCEPT !.flags = @ \cup {"stream"}]
       ELSE UNCHANGED mail
    /\ UNCHANGED client

Return ==
    /\ \/ Advertised \/ Reported \/ Finished \/ Notified
    /\ call' = NoCall
    /\ UNCHANGED <<radio, at>>

\* The host lost its controller, and finds it again.
Reset ==
    /\ call = NoCall /\ radio.ready /\ radio.sync <= MaxResets
    /\ radio' = [radio EXCEPT !.ready = FALSE, !.scanning = None,
                              !.connecting = NoCall, !.links = {},
                              !.gatt = None]
    /\ UNCHANGED <<client, mail, call, at>>

Sync ==
    /\ ~radio.ready
    /\ radio' = [radio EXCEPT !.ready = TRUE, !.sync = @ + 1]
    /\ UNCHANGED <<client, mail, call, at>>

HostStep ==
    \/ Advertise \/ ScanEnds \/ ConnectionDone \/ LinkLost \/ Notify
    \/ ProcedureDone \/ Return \/ Reset \/ Sync

Init ==
    /\ client = [state |-> "Idle", live |-> FALSE, generation |-> 0,
                 last |-> 0, scan |-> None, link |-> None, gatt |-> None,
                 handle |-> None, peer |-> NoPeer, filter |-> NoPeer,
                 waited |-> NoPeer, queued |-> FALSE, cooling |-> {},
                 commanding |-> FALSE, rejected |-> 0, sync |-> None]
    /\ mail = NoMail
    /\ call = NoCall
    /\ radio = [ready |-> TRUE, sync |-> 1, scanning |-> None,
                connecting |-> NoCall, links |-> {},
                gatt |-> None]
    /\ at = "out"

Next == WorkerStep \/ HostStep
Spec == Init /\ [][Next]_clientVars

-----------------------------------------------------------------------------
(* Properties *)

Told(type, op) ==
    \/ call.type = type /\ call.op = op
    \/ \E i \in DOMAIN mail.critical :
          mail.critical[i].type = type /\ mail.critical[i].op = op
    \/ "critical" \in mail.flags

ResetPending == ~radio.ready \/ client.sync # radio.sync

\* The client never waits for something nobody will announce: when the scan,
\* the connection or the link it counts on is over, the report of it is on
\* its way, whatever filled the queues and whatever was cleaned up meanwhile;
\* and a scan that chose its one candidate still has it to act on.
EndIsAnnounced ==
    \/ ResetPending
    \/ /\ client.state \in Searching =>
             /\ radio.scanning = client.scan \/ Told("ScanComplete", client.scan)
             /\ client.queued => mail.candidate # NoCall
       /\ client.state = "Connecting" =>
             \/ radio.connecting # NoCall /\ radio.connecting.op = client.link
             \/ Told("Connected", client.link)
       /\ client.handle # None =>
             \/ [op |-> client.link, handle |-> client.handle] \in radio.links
             \/ Told("Disconnected", client.link)
=============================================================================
