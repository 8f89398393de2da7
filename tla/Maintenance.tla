----------------------------- MODULE Maintenance -----------------------------
(***************************************************************************)
(* Commands from the web page, the serial line and the Bluetooth companion *)
(* cross two bounded queues: into the control task (inbox), and from there *)
(* to the network task (outbox).  What needs the radio or the flash memory *)
(* runs in the network task under a maintenance lease, during which the    *)
(* control task starts no brew; the completion that ends the lease comes   *)
(* back through the inbox like any other command.  Neither task ever waits *)
(* in a queue: what finds no room is kept in a slot of its own and tried   *)
(* again before anything else.                                             *)
(*                                                                         *)
(* The order of the services within a pass of either task is left open, and*)
(* a timeout may happen whenever its timer runs.                           *)
(***************************************************************************)
EXTENDS Integers, Sequences

CONSTANTS
    InboxLength,    \* WEB_COMMAND_QUEUE_LENGTH, of both queues
    MaxRequests     \* a bound of the model: requests in one boot

VARIABLES
    lease,          \* maintenanceLease
    held,           \* pendingPlannedRestart, while it is held
    inbox,          \* webCommandQueue
    outbox,         \* acceptedCommandQueue_
    owed,           \* what the control task could not send: the result of a
                    \*   command, the cancellation of a lease
    job,            \* acceptedCommand_: what the network task works on
    completion,     \* completionCommand_: what it could not send
    scan,           \* the lease the running Wi-Fi scan belongs to
    restart,        \* restartPending_, then safeRestartRequested
    machine,        \* the stopper's state and the paddle
    gate,           \* the gate as last published by the control task
    requests,       \* bounds of the model: requests made,
    replaced        \*   and whether a lease has replaced another

maintenanceVars == <<lease, held, inbox, outbox, owed, job, completion, scan,
                     restart, machine, gate, requests, replaced>>

NoLease == 0
Nothing == [type |-> "none", id |-> NoLease]

\* What the types stand for: "Direct" what the control task does by itself,
\* "Link" what the network task does without a lease, and under a lease the
\* Wi-Fi scan, what restarts the device when it is saved, what does not, and
\* the planned restart.
Leased == {"Scan", "SaveAndRestart", "Save", "Restart"}
Types == {"Direct", "Link"} \cup Leased
Command(type, id, override) == [type |-> type, id |-> id, override |-> override]

Send(queue, command) == Append(queue, command)
HasRoom(queue) == Len(queue) < InboxLength

-----------------------------------------------------------------------------
(* Requests *)

\* A handler checks the published gate or the override, gives the command an
\* identifier and queues it; a full queue is the caller's error.
Request(types) ==
    /\ requests < MaxRequests /\ HasRoom(inbox)
    /\ \E type \in types, override \in BOOLEAN :
          /\ type # "Restart" => gate.open \/ override \/ type = "Direct"
          /\ inbox' = Send(inbox, Command(type, requests + 1, override))
    /\ requests' = requests + 1
    /\ UNCHANGED <<lease, held, outbox, owed, job, completion, scan, restart, machine, gate, replaced>>

ConfigHandler == Request({"Direct"})
CliCommand == Request({"Link"})
WifiScanStartHandler == Request({"Scan"})
NetworkHandler == Request({"SaveAndRestart"})
SaveHandlers == Request({"Save"})
RestartHandler == Request({"Restart"})

-----------------------------------------------------------------------------
(* The control task *)

\* controlAllowsConfigurationNow
Allowed == machine.state = "READY" /\ ~machine.paddle /\ lease.id = NoLease

Unleased == [id |-> NoLease, type |-> "none", forwarded |-> FALSE]

\* beginMaintenanceLease: a lease that is active is simply replaced, which
\* only the override allows.
BeginLease(command) ==
    /\ lease' = [id |-> command.id, type |-> command.type, forwarded |-> FALSE]
    /\ replaced' = (replaced \/ lease.id # NoLease)

\* reportControlCommandResult: a result the outbox has no room for is kept.
Result(id) == [type |-> "Result", id |-> id]
Report(id) ==
    IF HasRoom(outbox)
    THEN outbox' = Send(outbox, Result(id)) /\ UNCHANGED owed
    ELSE owed' = [owed EXCEPT !.result = Result(id)] /\ UNCHANGED outbox

\* completeMaintenanceLease: only the lease it names, and a held paddle has to
\* be released.
CompleteLease(id) ==
    IF lease.id = id
    THEN /\ lease' = Unleased
         /\ machine' = IF machine.paddle
                       THEN [machine EXCEPT !.state = "REQUIRES_OFF"] ELSE machine
    ELSE UNCHANGED <<lease, machine>>

\* processWebCommands takes one command in a pass, and none while a result or
\* a cancellation is still to be sent.
TakeRequest ==
    /\ owed = [result |-> Nothing, cancellation |-> Nothing] /\ inbox # <<>>
    /\ LET command == Head(inbox)
           mayBegin == Allowed \/ command.override
       IN  \/ /\ command.type = "Complete"
              /\ CompleteLease(command.id)
              /\ UNCHANGED <<held, outbox, owed, replaced>>
           \/ /\ command.type = "Direct"
              /\ Report(command.id)
              /\ UNCHANGED <<lease, held, machine, replaced>>
           \/ /\ command.type = "Link"
              /\ IF HasRoom(outbox)
                 THEN outbox' = Send(outbox, command) /\ UNCHANGED owed
                 ELSE Report(command.id)
              /\ UNCHANGED <<lease, held, machine, replaced>>
           \/ /\ command.type \in Leased \ {"Restart"}
              /\ IF mayBegin
                 THEN BeginLease(command) /\ UNCHANGED <<outbox, owed>>
                 ELSE Report(command.id) /\ UNCHANGED <<lease, replaced>>
              /\ UNCHANGED <<held, machine>>
           \/ /\ command.type = "Restart"
              /\ IF Allowed
                 THEN BeginLease(command) /\ held' = Nothing
                 ELSE held' = command /\ UNCHANGED <<lease, replaced>>
              /\ UNCHANGED <<outbox, owed, machine>>
    /\ inbox' = Tail(inbox)
    /\ UNCHANGED <<job, completion, scan, restart, gate, requests>>

\* serviceControlCommandResult and serviceMaintenanceCancellation
SendOwed ==
    /\ HasRoom(outbox)
    /\ \E kind \in {"result", "cancellation"} :
          /\ owed[kind] # Nothing
          /\ outbox' = Send(outbox, owed[kind])
          /\ owed' = [owed EXCEPT ![kind] = Nothing]
    /\ UNCHANGED <<lease, held, inbox, job, completion, scan, restart,
                   machine, gate, requests, replaced>>

\* stateMachineTask: under a lease nothing is started.  A paddle that is taken
\* drops a lease that has not been forwarded; a restart is held instead.
DropLease ==
    /\ lease.id # NoLease /\ machine.paddle
    /\ machine' = [machine EXCEPT !.state = "REQUIRES_OFF"]
    /\ CASE lease.forwarded -> UNCHANGED <<lease, held, owed>>
         [] ~lease.forwarded /\ lease.type = "Restart" ->
              /\ held' = Command("Restart", lease.id, FALSE)
              /\ lease' = Unleased /\ UNCHANGED owed
         [] OTHER ->
              /\ owed' = [owed EXCEPT !.cancellation = Result(lease.id)]
              /\ lease' = Unleased /\ UNCHANGED held
    /\ UNCHANGED <<inbox, outbox, job, completion, scan, restart, gate,
                   requests, replaced>>

Brew ==
    /\ lease.id = NoLease
    /\ \/ /\ machine.state = "REQUIRES_OFF" /\ ~machine.paddle
          /\ machine' = [machine EXCEPT !.state = "READY"]
       \/ /\ machine.state = "READY" /\ machine.paddle
          /\ machine' = [machine EXCEPT !.state = "BREW"]
       \/ /\ machine.state = "BREW"
          /\ machine' = [machine EXCEPT !.state =
                            IF machine.paddle THEN "REQUIRES_OFF" ELSE "READY"]
    /\ UNCHANGED <<lease, held, inbox, outbox, owed, job, completion, scan,
                   restart, gate, requests, replaced>>

Paddle ==
    /\ machine' = [machine EXCEPT !.paddle = ~@]
    /\ UNCHANGED <<lease, held, inbox, outbox, owed, job, completion, scan,
                   restart, gate, requests, replaced>>

\* serviceMaintenanceLease: after some time with the paddle off.
ForwardLease ==
    /\ lease.id # NoLease /\ ~lease.forwarded /\ ~machine.paddle
    /\ HasRoom(outbox)
    /\ outbox' = Send(outbox, Command(lease.type, lease.id, FALSE))
    /\ lease' = [lease EXCEPT !.forwarded = TRUE]
    /\ UNCHANGED <<held, inbox, owed, job, completion, scan, restart,
                   machine, gate, requests, replaced>>

\* servicePendingPlannedRestart
BeginHeldRestart ==
    /\ held # Nothing /\ Allowed
    /\ BeginLease(held)
    /\ held' = Nothing
    /\ UNCHANGED <<inbox, outbox, owed, job, completion, scan, restart,
                   machine, gate, requests>>

\* publishControlGate
PublishGate ==
    /\ gate' = [lease |-> lease.id, open |-> Allowed,
                busy |-> machine.state = "BREW" \/ machine.paddle]
    /\ gate' # gate
    /\ UNCHANGED <<lease, held, inbox, outbox, owed, job, completion, scan,
                   restart, machine, requests, replaced>>

-----------------------------------------------------------------------------
(* The network task *)

\* enqueueMaintenanceCompletion: over what the slot held.
FaultyComplete(id) ==
    /\ inbox' = IF HasRoom(inbox)
                THEN Send(inbox, Command("Complete", id, FALSE)) ELSE inbox
    /\ UNCHANGED completion
Complete(id) ==
    IF HasRoom(inbox)
    THEN inbox' = Send(inbox, Command("Complete", id, FALSE))
         /\ UNCHANGED completion
    ELSE completion' = Command("Complete", id, FALSE) /\ UNCHANGED inbox

\* processAcceptedCommands: first what could not be sent, then the next job.
SendCompletion ==
    /\ completion # Nothing /\ HasRoom(inbox)
    /\ inbox' = Send(inbox, completion)
    /\ completion' = Nothing
    /\ UNCHANGED <<lease, held, outbox, owed, job, scan, restart,
                   machine, gate, requests, replaced>>

TakeJob ==
    /\ completion = Nothing /\ job = Nothing /\ outbox # <<>>
    /\ job' = Head(outbox)
    /\ outbox' = Tail(outbox)
    /\ UNCHANGED <<lease, held, inbox, owed, completion, scan, restart,
                   machine, gate, requests, replaced>>

Working == completion = Nothing /\ job # Nothing

\* A result is recorded; a job without a lease is done or given up.
EndJob ==
    /\ Working /\ job.type \in {"Result", "Link"}
    /\ job' = Nothing
    /\ UNCHANGED <<lease, held, inbox, outbox, owed, completion, scan,
                   restart, machine, gate, requests, replaced>>

\* processAcceptedMaintenanceCommand: a job whose lease is not the one that is
\* published is not done: at once when another lease is, or the machine is in
\* use, and otherwise when the lease is not published in time.
RefuseJob ==
    /\ Working /\ job.type \in Leased
    /\ gate.lease # job.id \/ gate.busy
    /\ Complete(job.id)
    /\ job' = Nothing
    /\ UNCHANGED <<lease, held, outbox, owed, scan, restart, machine,
                   gate, requests, replaced>>

\* processAcceptedCommand: it fails and is tried again (no step of the model),
\* is given up, or is done; a scan only begins here, and it takes the place of
\* one that is still running.
PerformJob ==
    /\ Working /\ job.type \in Leased /\ gate.lease = job.id /\ ~gate.busy
    /\ \E done \in BOOLEAN :
          IF job.type = "Scan"
          THEN /\ done
               /\ scan' = job.id
               /\ UNCHANGED <<inbox, completion, restart>>
          ELSE /\ Complete(job.id)
               /\ restart' = IF done /\ job.type # "Save" THEN "pending" ELSE restart
               /\ UNCHANGED scan
    /\ job' = Nothing
    /\ UNCHANGED <<lease, held, outbox, owed, machine, gate, requests,
                   replaced>>

\* serviceWifiScan: found, failed, aborted or timed out.  While a restart is
\* pending it is not reached (nor before the network is up, which here may be
\* at any time).
EndScan ==
    /\ scan # NoLease /\ restart # "pending"
    /\ Complete(scan)
    /\ scan' = NoLease
    /\ UNCHANGED <<lease, held, outbox, owed, job, restart, machine,
                   gate, requests, replaced>>

\* service: a pending restart waits for the gate; the control task restarts
\* the device when no brew is active.
RequestRestart ==
    /\ restart = "pending" /\ gate.open
    /\ restart' = "requested"
    /\ UNCHANGED <<lease, held, inbox, outbox, owed, job, completion, scan,
                   machine, gate, requests, replaced>>

Unpowered == [state |-> "REQUIRES_OFF", paddle |-> FALSE]
Closed == [lease |-> NoLease, open |-> FALSE, busy |-> FALSE]
NothingOwed == [result |-> Nothing, cancellation |-> Nothing]

Reboot ==
    /\ restart = "requested" /\ machine.state # "BREW"
    /\ lease' = Unleased /\ scan' = NoLease /\ gate' = Closed
    /\ held' = Nothing /\ job' = Nothing /\ completion' = Nothing
    /\ inbox' = <<>> /\ outbox' = <<>> /\ owed' = NothingOwed
    /\ restart' = "none" /\ machine' = Unpowered
    /\ requests' = 0 /\ replaced' = FALSE

MaintenanceInit ==
    /\ lease = Unleased /\ scan = NoLease /\ gate = Closed
    /\ held = Nothing /\ job = Nothing /\ completion = Nothing
    /\ inbox = <<>> /\ outbox = <<>> /\ owed = NothingOwed
    /\ restart = "none" /\ machine = Unpowered
    /\ requests = 0 /\ replaced = FALSE
MaintenanceNext ==
    \/ ConfigHandler \/ CliCommand \/ WifiScanStartHandler \/ NetworkHandler
    \/ SaveHandlers \/ RestartHandler
    \/ TakeRequest \/ SendOwed \/ DropLease \/ Brew \/ Paddle \/ ForwardLease
    \/ BeginHeldRestart \/ PublishGate
    \/ SendCompletion \/ TakeJob \/ EndJob \/ RefuseJob \/ PerformJob \/ EndScan
    \/ RequestRestart \/ Reboot
MaintenanceSpec == MaintenanceInit /\ [][MaintenanceNext]_maintenanceVars

-----------------------------------------------------------------------------
(* Properties *)

In(queue, types) ==
    \E i \in DOMAIN queue : queue[i].id = lease.id /\ queue[i].type \in types

\* The lease blocks every brew, so it must never outlive its work: once it is
\* forwarded, its job, its scan or its completion is still on its way, through
\* both queues and both slots, however full they are.  With the
\* override a lease may replace another, whose completion then competes for
\* the one slot.
LeaseIsCarried ==
    lease.forwarded /\ ~replaced =>
       \/ In(outbox, Leased) \/ In(inbox, {"Complete"})
       \/ job.id = lease.id /\ job.type \in Leased
       \/ scan = lease.id \/ completion.id = lease.id
=============================================================================
