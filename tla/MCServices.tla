----------------------------- MODULE MCServices ------------------------------
(***************************************************************************)
(* The services around the brew on small instances.  They share no state   *)
(* that their properties tell apart, so each behaviour is about one of     *)
(* them, its subject, and their states add up instead of multiplying.  The *)
(* subject gives the variables their meaning; those it has no use for stay *)
(* unused.                                                                 *)
(***************************************************************************)
EXTENDS Integers, Sequences, FiniteSets, TLC

CONSTANTS
    Peers, CriticalLength, RxLength, MaxRejected, MaxOperations, MaxResets,
    Scales, WorkerCycles, CommandLength, EventLength, MaxUnread,
    MaxConnections, MaxChoices,
    InboxLength, MaxRequests,
    Images, ImageSize, MaxGenerations, MaxBoots,
    Networks,
    MaxPresses,
    Capacity, MaxShots, MaxChanges, MaxFailures, MaxCrashes,
    QueueLength, MaxEvents, MaxSaves, MaxRaises,
    MaxToggles

VARIABLES subject, v1, v2, v3, v4, v5, v6, v7, v8, v9, v10, v11, v12, v13, v14, v15,
          v16, v17

vars == <<subject, v1, v2, v3, v4, v5, v6, v7, v8, v9, v10, v11, v12, v13, v14, v15,
          v16, v17>>

\* The builds of the momentary machine that are looked at
Setups ==
    [kind : {"reed"}, onPress : BOOLEAN, rinse : {TRUE}]
    \cup {[kind |-> "weight", onPress |-> FALSE, rinse |-> FALSE]}

Client == INSTANCE ScaleClient WITH
    client <- v1, mail <- v2, call <- v3, radio <- v4, at <- v5
Worker == INSTANCE ScaleWorker WITH
    ble <- v1, link <- v2, choice <- v3, step <- v4, commands <- v5,
    results <- v6, unread <- v7, beeps <- v8, stored <- v9, changing <- v10,
    load <- v11
Control == INSTANCE MaintenanceProofs WITH
    lease <- v1, held <- v2, inbox <- v3, outbox <- v4, owed <- v5,
    job <- v6, completion <- v7, scan <- v8, restart <- v9, machine <- v10,
    gate <- v11, requests <- v12, replaced <- v13
Image == INSTANCE FirmwareProofs WITH
    slots <- v1, selected <- v2, running <- v3, confirmed <- v4,
    rejected <- v5, session <- v6, transfer <- v7, busy <- v8, journal <- v9,
    generation <- v10, boots <- v11
Network == INSTANCE WifiNetworkProofs WITH
    config <- v1, wifi <- v2, station <- v3, access <- v4, web <- v5,
    started <- v6, joined <- v7, holds <- v8, keepAccess <- v9,
    exhausted <- v10, restartAccess <- v11, confirming <- v12, armed <- v13,
    restart <- v14, proved <- v15, forced <- v16,
    early <- v17
Switch == INSTANCE Momentary WITH
    machine <- v1, session <- v2, step <- v3, setup <- v4, presses <- v5
Records == INSTANCE HistoryProofs WITH
    ram <- v1, dirty <- v2, flash <- v3, writing <- v4, flush <- v5,
    http <- v6, used <- v7, accepted <- v8, setBack <- v9, torn <- v10
Hooks == INSTANCE Webhook WITH
    config <- v1, worker <- v2, queue <- v3, task <- v4, client <- v5,
    gate <- v6, latch <- v7, abort <- v8, setter <- v9, aborter <- v10,
    caller <- v11, overlapped <- v12, used <- v13
Clock == INSTANCE TimeSync WITH
    clock <- v1, ntp <- v2, gate <- v3, generation <- v4, setter <- v5,
    pass <- v6, answer <- v7, station <- v8
Sound == INSTANCE Buzzer WITH
    player <- v1, callers <- v2, control <- v3, tune <- v4

\* Networks are alike: none of their properties is about time or order.
NetworkSymmetry == Permutations(Networks)

Unused == "unused"

ClientInit ==
    /\ subject = "client" /\ Client!Init
    /\ v6 = Unused /\ v7 = Unused /\ v8 = Unused /\ v9 = Unused
    /\ v10 = Unused /\ v11 = Unused /\ v12 = Unused /\ v13 = Unused
    /\ v14 = Unused /\ v15 = Unused /\ v16 = Unused
    /\ v17 = Unused
ClientNext ==
    /\ subject = "client" /\ Client!Next
    /\ UNCHANGED <<subject, v6, v7, v8, v9, v10, v11, v12, v13, v14, v15,
                   v16, v17>>

WorkerInit ==
    /\ subject = "worker" /\ Worker!WorkerInit
    /\ v12 = Unused /\ v13 = Unused /\ v14 = Unused /\ v15 = Unused
    /\ v16 = Unused
    /\ v17 = Unused
WorkerNext ==
    /\ subject = "worker" /\ Worker!WorkerNext
    /\ UNCHANGED <<subject, v12, v13, v14, v15, v16, v17>>

ControlInit ==
    /\ subject = "control" /\ Control!MaintenanceInit
    /\ v14 = Unused /\ v15 = Unused /\ v16 = Unused
    /\ v17 = Unused
ControlNext ==
    /\ subject = "control" /\ Control!MaintenanceNext
    /\ UNCHANGED <<subject, v14, v15, v16, v17>>

ImageInit ==
    /\ subject = "image" /\ Image!FirmwareInit
    /\ v12 = Unused /\ v13 = Unused /\ v14 = Unused /\ v15 = Unused
    /\ v16 = Unused
    /\ v17 = Unused
ImageNext ==
    /\ subject = "image" /\ Image!FirmwareNext
    /\ UNCHANGED <<subject, v12, v13, v14, v15, v16, v17>>

NetworkInit ==
    /\ subject = "network" /\ Network!NetworkInit
NetworkNext ==
    /\ subject = "network" /\ Network!NetworkNext
    /\ UNCHANGED <<subject>>

SwitchInit ==
    /\ subject = "switch" /\ Switch!MomentaryInit
    /\ v6 = Unused /\ v7 = Unused /\ v8 = Unused /\ v9 = Unused
    /\ v10 = Unused /\ v11 = Unused /\ v12 = Unused /\ v13 = Unused
    /\ v14 = Unused /\ v15 = Unused /\ v16 = Unused
    /\ v17 = Unused
SwitchNext ==
    /\ subject = "switch" /\ Switch!MomentaryNext
    /\ UNCHANGED <<subject, v6, v7, v8, v9, v10, v11, v12, v13, v14, v15,
                   v16, v17>>

RecordsInit ==
    /\ subject = "records" /\ Records!HistoryInit
    /\ v11 = Unused /\ v12 = Unused /\ v13 = Unused
    /\ v14 = Unused /\ v15 = Unused /\ v16 = Unused
    /\ v17 = Unused
RecordsNext ==
    /\ subject = "records" /\ Records!HistoryNext
    /\ UNCHANGED <<subject, v11, v12, v13, v14, v15, v16, v17>>

HooksInit ==
    /\ subject = "hooks" /\ Hooks!WebhookInit
    /\ v14 = Unused /\ v15 = Unused /\ v16 = Unused
    /\ v17 = Unused
HooksNext ==
    /\ subject = "hooks" /\ Hooks!WebhookNext
    /\ UNCHANGED <<subject, v14, v15, v16, v17>>

ClockInit ==
    /\ subject = "clock" /\ Clock!ClockInit
    /\ v9 = Unused /\ v10 = Unused /\ v11 = Unused /\ v12 = Unused
    /\ v13 = Unused /\ v14 = Unused /\ v15 = Unused /\ v16 = Unused
    /\ v17 = Unused
ClockNext ==
    /\ subject = "clock" /\ Clock!ClockNext
    /\ UNCHANGED <<subject, v9, v10, v11, v12, v13, v14, v15, v16, v17>>

SoundInit ==
    /\ subject = "buzzer" /\ Sound!BuzzerInit
    /\ v5 = Unused /\ v6 = Unused /\ v7 = Unused /\ v8 = Unused
    /\ v9 = Unused /\ v10 = Unused /\ v11 = Unused /\ v12 = Unused
    /\ v13 = Unused /\ v14 = Unused /\ v15 = Unused /\ v16 = Unused
    /\ v17 = Unused
SoundNext ==
    /\ subject = "buzzer" /\ Sound!BuzzerNext
    /\ UNCHANGED <<subject, v5, v6, v7, v8, v9, v10, v11, v12, v13, v14, v15,
                   v16, v17>>

Init ==
    \/ ClientInit \/ WorkerInit \/ ControlInit \/ ImageInit \/ NetworkInit
    \/ SwitchInit \/ RecordsInit \/ HooksInit \/ ClockInit \/ SoundInit

Next ==
    \/ ClientNext \/ WorkerNext \/ ControlNext \/ ImageNext \/ NetworkNext
    \/ SwitchNext \/ RecordsNext \/ HooksNext \/ ClockNext \/ SoundNext

Spec == Init /\ [][Next]_vars

-----------------------------------------------------------------------------
(* The properties of the components, for the behaviours about them *)

\* The scale client never waits for what nobody will announce.
EndIsAnnounced == subject = "client" => Client!EndIsAnnounced
\* The scale the user chose is the one the worker keeps.
ChoiceHeld == subject = "worker" => Worker!ChoiceHeld
\* A maintenance lease never outlives the work it was taken for.
LeaseIsCarried == subject = "control" => Control!LeaseIsCarried
\* An upload resumes only over bytes that are in its slot.
SessionHasItsBytes == subject = "image" => Image!SessionHasItsBytes
\* Whatever happens to an update, an image can be booted.
AlwaysBootable == subject = "image" => Image!AlwaysBootable
\* Once joined, the access point is up only on request.
AccessOnlyWhenAsked == subject = "network" => Network!AccessOnlyWhenAsked
\* A confirmed network is one that has worked.
ConfirmedHasWorked == subject = "network" => Network!ConfirmedHasWorked
\* K1 is closed for a press or a pulse, never for nothing.
ClosedIsExplained == subject = "switch" => Switch!ClosedIsExplained
\* One stop toggles the group of a momentary machine once, but for the limit of a rinse.
StopsOnce == subject = "switch" => Switch!StopsOnce
\* A store of shots that is loaded is the one saved last.
LoadFindsLastSave == subject = "records" => Records!LoadFindsLastSave
\* A request during which the gate was closed is cancelled.
OverlapCancels == subject = "hooks" => Hooks!OverlapCancels
\* A time synchronisation under way can be answered.
SyncingListens == subject = "clock" => Clock!SyncingListens

\* The worker implements the link that the brew cycle counts on.
KeepsPromise ==
    /\ subject = "worker" => Worker!Promised!InitLink
    /\ [][subject = "worker" => Worker!PromisedStep]_vars

\* A sound that was accepted is heard.
QueuedIsHeard ==
    /\ [](subject = "buzzer" => Sound!WaitsForSound)
    /\ [][subject = "buzzer" => Sound!AcceptedStep]_vars
=============================================================================
