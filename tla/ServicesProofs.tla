---------------------------- MODULE ServicesProofs ----------------------------
(***************************************************************************)
(* The theorems about the services, as properties of the behaviours that   *)
(* are checked: each behaviour is about one service, its subject, and what *)
(* holds of every behaviour of the service holds of it.                    *)
(***************************************************************************)
EXTENDS ServicesInvariants, TLAPS

\* A behaviour begins as one of its subject, keeps its subject, and each of its steps
\* is one of its subject.
LEMMA SubjectStays ==
  /\ Init =>
       /\ subject = "control" => Control!MaintenanceInit
       /\ subject = "image" => Image!FirmwareInit
       /\ subject = "network" => Network!NetworkInit
       /\ subject = "hooks" => Hooks!WebhookInit
       /\ subject = "clock" => Clock!ClockInit
       /\ subject = "buzzer" => Sound!BuzzerInit
       /\ subject = "switch" => Switch!MomentaryInit
       /\ subject = "worker" => Worker!WorkerInit
       /\ subject = "records" => Records!HistoryInit
       /\ subject = "client" => Client!Init
  /\ [Next]_vars =>
       /\ subject' = subject
       /\ subject = "control"
            => [Control!MaintenanceNext]_Control!maintenanceVars
       /\ subject = "image" => [Image!FirmwareNext]_Image!firmwareVars
       /\ subject = "network" => [Network!NetworkNext]_Network!networkVars
       /\ subject = "hooks" => [Hooks!WebhookNext]_Hooks!webhookVars
       /\ subject = "clock" => [Clock!ClockNext]_Clock!clockVars
       /\ subject = "buzzer" => [Sound!BuzzerNext]_Sound!buzzerVars
       /\ subject = "switch" => [Switch!MomentaryNext]_Switch!momentaryVars
       /\ subject = "worker" => [Worker!WorkerNext]_Worker!workerVars
       /\ subject = "records" => [Records!HistoryNext]_Records!historyVars
       /\ subject = "client" => [Client!Next]_Client!clientVars
<1>1. ASSUME Init
      PROVE  /\ subject = "control" => Control!MaintenanceInit
             /\ subject = "image" => Image!FirmwareInit
             /\ subject = "network" => Network!NetworkInit
             /\ subject = "hooks" => Hooks!WebhookInit
             /\ subject = "clock" => Clock!ClockInit
             /\ subject = "buzzer" => Sound!BuzzerInit
             /\ subject = "switch" => Switch!MomentaryInit
             /\ subject = "worker" => Worker!WorkerInit
             /\ subject = "records" => Records!HistoryInit
             /\ subject = "client" => Client!Init
  BY <1>1 DEF Init, ClientInit, WorkerInit, ControlInit, ImageInit, NetworkInit,
              SwitchInit, RecordsInit, HooksInit, ClockInit, SoundInit
<1>2. ASSUME [Next]_vars
      PROVE  /\ subject' = subject
             /\ subject = "control"
                  => [Control!MaintenanceNext]_Control!maintenanceVars
             /\ subject = "image" => [Image!FirmwareNext]_Image!firmwareVars
             /\ subject = "network" => [Network!NetworkNext]_Network!networkVars
             /\ subject = "hooks" => [Hooks!WebhookNext]_Hooks!webhookVars
             /\ subject = "clock" => [Clock!ClockNext]_Clock!clockVars
             /\ subject = "buzzer" => [Sound!BuzzerNext]_Sound!buzzerVars
             /\ subject = "switch" => [Switch!MomentaryNext]_Switch!momentaryVars
             /\ subject = "worker" => [Worker!WorkerNext]_Worker!workerVars
             /\ subject = "records" => [Records!HistoryNext]_Records!historyVars
             /\ subject = "client" => [Client!Next]_Client!clientVars
  <2> USE <1>2 DEF ClientNext, WorkerNext, ControlNext, ImageNext, NetworkNext,
                   SwitchNext, RecordsNext, HooksNext, ClockNext, SoundNext
  <2>1. CASE Next
    BY <2>1 DEF Next
  <2>2. CASE UNCHANGED vars
    BY <2>2 DEF vars, Control!maintenanceVars, Image!firmwareVars, Network!networkVars,
                Hooks!webhookVars, Clock!clockVars, Sound!buzzerVars, Switch!momentaryVars,
                Worker!workerVars, Records!historyVars, Client!clientVars
  <2> QED
    BY <2>1, <2>2
<1> QED
  BY <1>1, <1>2

\* A maintenance lease that was forwarded always has its job, its scan or its completion
\* on its way back (processAcceptedCommands, serviceWifiScan, serviceCompletions).
THEOREM LeaseHolds == Spec => []LeaseIsCarried
<1>1. Init /\ subject = "control" => Control!MaintenanceInit
  BY SubjectStays
<1>2. [Next]_vars /\ subject = "control" => [Control!MaintenanceNext]_Control!maintenanceVars
  BY SubjectStays
<1>3. [Next]_vars /\ subject = "control" => (subject = "control")'
  BY SubjectStays
<1>4. [Next]_vars /\ ~(subject = "control") => ~(subject = "control")'
  BY SubjectStays
<1>5. Control!MaintenanceSpec => []Control!LeaseIsCarried
  BY Control!LeaseCarried
<1> QED
  BY <1>1, <1>2, <1>3, <1>4, <1>5, PTL
     DEF Spec, Control!MaintenanceSpec, LeaseIsCarried

\* Whatever happens to an update, the slot that is selected, or the other one, holds a
\* whole image that may be booted (the ota_ handlers and the boot).
THEOREM BootHolds ==
  ASSUME ImageSize \in Nat \ {0}
  PROVE  Spec => []AlwaysBootable
<1>1. Init /\ subject = "image" => Image!FirmwareInit
  BY SubjectStays
<1>2. [Next]_vars /\ subject = "image" => [Image!FirmwareNext]_Image!firmwareVars
  BY SubjectStays
<1>3. [Next]_vars /\ subject = "image" => (subject = "image")'
  BY SubjectStays
<1>4. [Next]_vars /\ ~(subject = "image") => ~(subject = "image")'
  BY SubjectStays
<1>5. Image!FirmwareSpec => []Image!AlwaysBootable
  BY Image!AlwaysBoots
<1> QED
  BY <1>1, <1>2, <1>3, <1>4, <1>5, PTL
     DEF Spec, Image!FirmwareSpec, AlwaysBootable

\* An upload that is resumed is resumed over bytes that are in its slot, and what is
\* staged is whole (persistSession, restoreSessionJournal, writeRange).
THEOREM BytesHold ==
  ASSUME ImageSize \in Nat \ {0}
  PROVE  Spec => []SessionHasItsBytes
<1>1. Init /\ subject = "image" => Image!FirmwareInit
  BY SubjectStays
<1>2. [Next]_vars /\ subject = "image" => [Image!FirmwareNext]_Image!firmwareVars
  BY SubjectStays
<1>3. [Next]_vars /\ subject = "image" => (subject = "image")'
  BY SubjectStays
<1>4. [Next]_vars /\ ~(subject = "image") => ~(subject = "image")'
  BY SubjectStays
<1>5. Image!FirmwareSpec => []Image!SessionHasItsBytes
  BY Image!BytesKept
<1> QED
  BY <1>1, <1>2, <1>3, <1>4, <1>5, PTL
     DEF Spec, Image!FirmwareSpec, SessionHasItsBytes

\* Once the station has joined, the access point is up only on request
\* (ensureAccessPoint and its callers).
THEOREM AccessHolds == Spec => []AccessOnlyWhenAsked
<1>1. Init /\ subject = "network" => Network!NetworkInit
  BY SubjectStays
<1>2. [Next]_vars /\ subject = "network" => [Network!NetworkNext]_Network!networkVars
  BY SubjectStays
<1>3. [Next]_vars /\ subject = "network" => (subject = "network")'
  BY SubjectStays
<1>4. [Next]_vars /\ ~(subject = "network") => ~(subject = "network")'
  BY SubjectStays
<1>5. Network!NetworkSpec => []Network!AccessOnlyWhenAsked
  BY Network!AccessAsked
<1> QED
  BY <1>1, <1>2, <1>3, <1>4, <1>5, PTL
     DEF Spec, Network!NetworkSpec, AccessOnlyWhenAsked

\* A network that is confirmed is one that has worked (confirmPendingNetwork,
\* revertPendingNetwork).
THEOREM ConfirmedHolds == Spec => []ConfirmedHasWorked
<1>1. Init /\ subject = "network" => Network!NetworkInit
  BY SubjectStays
<1>2. [Next]_vars /\ subject = "network" => [Network!NetworkNext]_Network!networkVars
  BY SubjectStays
<1>3. [Next]_vars /\ subject = "network" => (subject = "network")'
  BY SubjectStays
<1>4. [Next]_vars /\ ~(subject = "network") => ~(subject = "network")'
  BY SubjectStays
<1>5. Network!NetworkSpec => []Network!ConfirmedHasWorked
  BY Network!ConfirmedWorked
<1> QED
  BY <1>1, <1>2, <1>3, <1>4, <1>5, PTL
     DEF Spec, Network!NetworkSpec, ConfirmedHasWorked

\* A request during which the gate was closed is cancelled, or will be
\* (requestAbort, serviceAbort, httpEventHandler).
THEOREM OverlapHolds == Spec => []OverlapCancels
<1>1. Init /\ subject = "hooks" => Hooks!WebhookInit
  BY SubjectStays
<1>2. [Next]_vars /\ subject = "hooks" => [Hooks!WebhookNext]_Hooks!webhookVars
  BY SubjectStays
<1>3. [Next]_vars /\ subject = "hooks" => (subject = "hooks")'
  BY SubjectStays
<1>4. [Next]_vars /\ ~(subject = "hooks") => ~(subject = "hooks")'
  BY SubjectStays
<1>5. Hooks!WebhookSpec => []Hooks!OverlapCancels
  <2>1. Hooks!WebhookInit => Hooks!CancelsOverlap
    BY DEF Hooks!WebhookInit, Hooks!CancelsOverlap, Hooks!Clients, Hooks!NoClient, Hooks!Absent
  <2>2. Hooks!CancelsOverlap /\ [Hooks!WebhookNext]_Hooks!webhookVars => Hooks!CancelsOverlap'
    <3> SUFFICES ASSUME Hooks!CancelsOverlap, [Hooks!WebhookNext]_Hooks!webhookVars
                 PROVE  Hooks!CancelsOverlap'
      OBVIOUS
    <3> USE DEF Hooks!CancelsOverlap, Hooks!Clients
    <3>1. ASSUME UNCHANGED <<v5, v9, v7, v8, v10>>,
                 UNCHANGED <<v4, v12>>
                   \/ v4'.at \notin {"level", "latch", "perform", "event"}
          PROVE  Hooks!CancelsOverlap'
      BY <3>1 DEF Hooks!CancelsComing
    <3>2. Hooks!Started => UNCHANGED v4 \/ v4'.at = "look"
      BY DEF Hooks!Started, Hooks!Absent
    <3>3. ASSUME NEW enabled \in BOOLEAN, NEW defer \in BOOLEAN, Hooks!Save(enabled, defer)
          PROVE  Hooks!CancelsOverlap'
      BY <3>1, <3>3 DEF Hooks!Save
    <3>4. CASE Hooks!SaveReachesWorker \/ Hooks!Test
      BY <3>1, <3>2, <3>4 DEF Hooks!SaveReachesWorker, Hooks!Test
    <3>5. ASSUME NEW test \in BOOLEAN, Hooks!Enqueue(test) PROVE Hooks!CancelsOverlap'
      BY <3>1, <3>5 DEF Hooks!Enqueue
    <3>6. ASSUME NEW s \in Hooks!Sources, Hooks!Raise(s) PROVE Hooks!CancelsOverlap'
      BY <3>6 DEF Hooks!Raise, Hooks!CancelsComing
    <3>7. ASSUME NEW s \in Hooks!Sources, Hooks!Latch(s) PROVE Hooks!CancelsOverlap'
      BY <3>7 DEF Hooks!Latch, Hooks!CancelsComing
    <3>8. ASSUME NEW s \in Hooks!Sources, Hooks!AskAbort(s) PROVE Hooks!CancelsOverlap'
      BY <3>8 DEF Hooks!AskAbort, Hooks!CancelsComing
    <3>9. ASSUME NEW s \in Hooks!Sources, Hooks!Lower(s) PROVE Hooks!CancelsOverlap'
      BY <3>1, <3>9 DEF Hooks!Lower
    <3>10. CASE Hooks!Borrow
      BY <3>10 DEF Hooks!Borrow, Hooks!CancelsComing
    <3>11. ASSUME NEW done \in BOOLEAN, Hooks!GiveBack(done) PROVE Hooks!CancelsOverlap'
      BY <3>11 DEF Hooks!GiveBack, Hooks!Retries, Hooks!CancelsComing
    <3>12. CASE Hooks!Look \/ Hooks!Receive
      BY <3>1, <3>12 DEF Hooks!Look, Hooks!Receive, Hooks!GoTo
    <3>13. CASE Hooks!Recheck \/ Hooks!Clear \/ Hooks!Publish
      <4>1. CASE Hooks!Recheck
        <5>1. /\ UNCHANGED v9 /\ v4'.at \in {"clear", "drain"}
              /\ v5' \in {v5, [Hooks!NoClient EXCEPT !.alive = TRUE]}
          BY <4>1 DEF Hooks!Recheck, Hooks!GoTo
        <5> QED
          BY <5>1 DEF Hooks!NoClient
      <4>2. CASE Hooks!Clear
        BY <4>2 DEF Hooks!Clear, Hooks!GoTo
      <4>3. CASE Hooks!Publish
        BY <4>3 DEF Hooks!Publish, Hooks!GoTo
      <4> QED
        BY <3>13, <4>1, <4>2, <4>3
    <3>14. CASE Hooks!CheckLevel \/ Hooks!CheckLatch
      BY <3>14 DEF Hooks!CheckLevel, Hooks!CheckLatch, Hooks!GoTo
    <3>15. CASE Hooks!HttpEvent \/ Hooks!HttpLatch
      <4>1. CASE Hooks!HttpEvent
        <5> DEFINE closes == ~Hooks!dispatchAllowed
        <5>1. /\ v5' = [v5 EXCEPT !.connected = TRUE, !.cancelled = @ \/ closes]
              /\ v4.at = "perform" /\ v4'.at \in {"perform", "event"}
              /\ v8' = (v8 \/ closes) /\ UNCHANGED <<v7, v9, v10, v12>>
          BY <4>1 DEF Hooks!HttpEvent, Hooks!GoTo
        <5> HIDE DEF closes
        <5> QED
          BY <5>1 DEF Hooks!CancelsComing
      <4>2. CASE Hooks!HttpLatch
        BY <4>2 DEF Hooks!HttpLatch, Hooks!GoTo, Hooks!CancelsComing
      <4> QED
        BY <3>15, <4>1, <4>2
    <3>16. CASE Hooks!Unpublish \/ Hooks!CleanUp
      <4>1. CASE Hooks!Unpublish
        BY <4>1 DEF Hooks!Unpublish, Hooks!GoTo
      <4>2. CASE Hooks!CleanUp
        BY <4>2 DEF Hooks!CleanUp, Hooks!GoTo, Hooks!NoClient
      <4> QED
        BY <3>16, <4>1, <4>2
    <3>17. CASE Hooks!Drain \/ Hooks!Release
      BY <3>1, <3>17 DEF Hooks!Drain, Hooks!Release, Hooks!GoTo, Hooks!Absent
    <3>18. CASE UNCHANGED Hooks!webhookVars
      BY <3>1, <3>18 DEF Hooks!webhookVars
    <3> QED
      BY <3>3, <3>4, <3>5, <3>6, <3>7, <3>8, <3>9, <3>10, <3>11, <3>12, <3>13,
         <3>14, <3>15, <3>16, <3>17, <3>18 DEF Hooks!WebhookNext
  <2>3. Hooks!CancelsOverlap => Hooks!OverlapCancels
    BY DEF Hooks!CancelsOverlap, Hooks!CancelsComing, Hooks!OverlapCancels
  <2> QED
    BY <2>1, <2>2, <2>3, PTL DEF Hooks!WebhookSpec
<1> QED
  BY <1>1, <1>2, <1>3, <1>4, <1>5, PTL
     DEF Spec, Hooks!WebhookSpec, OverlapCancels

\* An attempt to set the clock is never left behind by a gate that closed between its
\* check and its start: it can be answered, or the next pass ends it (armNtp,
\* abortNtpForRfGate, the setters of the gate).
THEOREM ListensHolds == Spec => []SyncingListens
<1>1. Init /\ subject = "clock" => Clock!ClockInit
  BY SubjectStays
<1>2. [Next]_vars /\ subject = "clock" => [Clock!ClockNext]_Clock!clockVars
  BY SubjectStays
<1>3. [Next]_vars /\ subject = "clock" => (subject = "clock")'
  BY SubjectStays
<1>4. [Next]_vars /\ ~(subject = "clock") => ~(subject = "clock")'
  BY SubjectStays
<1>5. Clock!ClockSpec => []Clock!SyncingListens
  <2>1. Clock!ClockInit => Clock!Answerable
    BY DEF Clock!ClockInit, Clock!Answerable, Clock!ClockTypes, Clock!Attempt,
           Clock!Calls, Clock!NoCall
  <2>2. Clock!Answerable /\ [Clock!ClockNext]_Clock!clockVars => Clock!Answerable'
    <3> SUFFICES ASSUME Clock!Answerable, [Clock!ClockNext]_Clock!clockVars
                 PROVE  Clock!Answerable'
      OBVIOUS
    <3> USE DEF Clock!Answerable, Clock!ClockTypes, Clock!Calls
    <3>1. ASSUME UNCHANGED <<v1, v6>>, v3' \subseteq v3,
                 UNCHANGED v4, UNCHANGED v5,
                 UNCHANGED v2
          PROVE  Clock!Answerable'
      BY <3>1 DEF Clock!Attempt, Clock!Asking
    <3>0. ASSUME UNCHANGED <<v3, v4, v5>>, Clock!ClockTypes',
                 v2'.abort = v2.abort, ~v2'.started, v1'.state # "SYNCING",
                 v6'.at = "sleep"
          PROVE  Clock!Answerable'
      BY <3>0 DEF Clock!Attempt, Clock!Asking
    <3>2. ASSUME NEW s \in Clock!Sources, Clock!Close(s) PROVE Clock!Answerable'
      <4>1. v5' \in [Clock!Sources -> Clock!Calls] /\ Clock!Asking'
        BY <3>2 DEF Clock!Close, Clock!Asking
      <4> QED
        BY <3>2, <4>1 DEF Clock!Close
    <3>3. ASSUME NEW s \in Clock!Sources, Clock!Deafen(s) PROVE Clock!Answerable'
      <4>1. v5' \in [Clock!Sources -> Clock!Calls] /\ Clock!Asking'
        BY <3>3 DEF Clock!Deafen, Clock!Asking
      <4> QED
        BY <3>3, <4>1 DEF Clock!Deafen
    <3>4. ASSUME NEW s \in Clock!Sources, Clock!AskAbort(s) PROVE Clock!Answerable'
      BY <3>4 DEF Clock!AskAbort, Clock!NoCall
    <3>5. ASSUME NEW s \in Clock!Sources, Clock!Count(s) PROVE Clock!Answerable'
      <4>1. v5' \in [Clock!Sources -> Clock!Calls]
            /\ (Clock!Asking => Clock!Asking')
        BY <3>5 DEF Clock!Count, Clock!Asking, Clock!NoCall
      <4> QED
        BY <3>5, <4>1 DEF Clock!Count, Clock!Attempt
    <3>6. ASSUME NEW s \in Clock!Sources, Clock!Open(s) PROVE Clock!Answerable'
      <4>1. v5' \in [Clock!Sources -> Clock!Calls]
            /\ (Clock!Asking => Clock!Asking')
        BY <3>6 DEF Clock!Open, Clock!Asking, Clock!NoCall
      <4> QED
        BY <3>6, <4>1 DEF Clock!Open, Clock!Attempt
    <3>7. ASSUME NEW user \in BOOLEAN, Clock!AskSync(user) PROVE Clock!Answerable'
      <4>1. Clock!ClockTypes'
        BY <3>7 DEF Clock!AskSync
      <4>2. v2'.started = v2.started /\ v2'.accepting = v2.accepting /\ v2'.abort = v2.abort
        BY <3>7 DEF Clock!AskSync
      <4> QED
        BY <3>7, <4>1, <4>2 DEF Clock!AskSync, Clock!Attempt, Clock!Asking
    <3>8. CASE Clock!Answer \/ Clock!queueSyncFromCallback
      <4>1. Clock!ClockTypes' /\ v1'.state = v1.state
        BY <3>8 DEF Clock!Answer, Clock!queueSyncFromCallback
      <4> QED
        BY <3>8, <4>1 DEF Clock!Answer, Clock!queueSyncFromCallback, Clock!Attempt,
           Clock!Asking
    <3>9. CASE Clock!abortNtpForRfGate
      <4> DEFINE heard == [v2 EXCEPT !.abort = FALSE]
      <4>1. v6' = [v6 EXCEPT !.at = "station"] /\ v6.at = "sleep" /\ UNCHANGED <<v3, v4, v5>>
        BY <3>9 DEF Clock!abortNtpForRfGate, Clock!GoTo
      <4>2. v6'.at = "station" /\ v6' \in [at : {"sleep", "station", "service", "check",
                     "listen", "recheck", "start", "confirm"}, generation : Nat]
        BY <4>1
      <4>3. CASE ~Clock!MustAbort
        <5>1. v2' = heard /\ UNCHANGED v1
          BY <3>9, <4>3 DEF Clock!abortNtpForRfGate
        <5>2. /\ v2' \in [started : BOOLEAN, accepting : BOOLEAN, abort : BOOLEAN,
                          rearm : BOOLEAN, asked : BOOLEAN]
              /\ v2'.started = v2.started /\ v2'.accepting = v2.accepting
          BY <5>1
        <5> QED
          BY <4>1, <4>2, <4>3, <5>1, <5>2
             DEF Clock!MustAbort, Clock!Attempt, Clock!Asking
      <4>4. CASE Clock!MustAbort
        <5>1. Clock!Aborted(heard)
          BY <3>9, <4>4 DEF Clock!abortNtpForRfGate
        <5>2. CASE heard.started \/ v1.state = "SYNCING"
          <6>1. v2' = [Clock!Stopped(heard) EXCEPT !.rearm = TRUE] /\ v1' = Clock!cancelSyncing
            BY <5>1, <5>2 DEF Clock!Aborted
          <6>2. /\ v1' \in [state : {"OFF", "SYNCING", "SYNCED", "FAILED"},
                            anchored : BOOLEAN, pending : BOOLEAN]
                /\ v1'.state # "SYNCING"
            BY <6>1 DEF Clock!cancelSyncing
          <6>3. /\ v2' \in [started : BOOLEAN, accepting : BOOLEAN, abort : BOOLEAN,
                            rearm : BOOLEAN, asked : BOOLEAN]
                /\ ~v2'.started
            BY <6>1 DEF Clock!Stopped
          <6> QED
            BY <4>1, <4>2, <6>2, <6>3 DEF Clock!Attempt, Clock!Asking
        <5>3. CASE ~(heard.started \/ v1.state = "SYNCING")
          <6>1. v2' = heard /\ v1' = Clock!cancelPendingSync
            BY <5>1, <5>3 DEF Clock!Aborted
          <6>2. /\ v1' \in [state : {"OFF", "SYNCING", "SYNCED", "FAILED"},
                            anchored : BOOLEAN, pending : BOOLEAN]
                /\ v1'.state # "SYNCING"
            BY <5>3, <6>1 DEF Clock!cancelPendingSync
          <6>3. v2' \in [started : BOOLEAN, accepting : BOOLEAN, abort : BOOLEAN,
                         rearm : BOOLEAN, asked : BOOLEAN]
            BY <6>1
          <6> QED
            BY <4>1, <4>2, <5>3, <6>1, <6>2, <6>3
               DEF Clock!Attempt, Clock!Asking
        <5> QED
          BY <5>2, <5>3
      <4> QED
        BY <4>3, <4>4
    <3>10. CASE Clock!ServiceStation
      <4>1. v6' = [v6 EXCEPT !.at = "service"] /\ v6.at = "station" /\ UNCHANGED <<v3, v4, v5>>
        BY <3>10 DEF Clock!ServiceStation, Clock!GoTo
      <4>2. v6'.at = "service" /\ v6' \in [at : {"sleep", "station", "service", "check",
                     "listen", "recheck", "start", "confirm"}, generation : Nat]
        BY <4>1
      <4>3. CASE v2' = v2 /\ UNCHANGED v1
        BY <4>1, <4>2, <4>3 DEF Clock!Attempt, Clock!Asking
      <4>4. CASE v2' = [v2 EXCEPT !.rearm = TRUE] /\ UNCHANGED v1
        <5>1. /\ v2' \in [started : BOOLEAN, accepting : BOOLEAN, abort : BOOLEAN,
                          rearm : BOOLEAN, asked : BOOLEAN]
              /\ v2'.started = v2.started /\ v2'.accepting = v2.accepting
              /\ v2'.abort = v2.abort
          BY <4>4
        <5> QED
          BY <4>1, <4>2, <4>4, <5>1 DEF Clock!Attempt, Clock!Asking
      <4>5. CASE v2' = Clock!Stopped(v2) /\ v1' = Clock!markDisabled
        <5>1. /\ v1' \in [state : {"OFF", "SYNCING", "SYNCED", "FAILED"},
                          anchored : BOOLEAN, pending : BOOLEAN]
              /\ v2' \in [started : BOOLEAN, accepting : BOOLEAN, abort : BOOLEAN,
                          rearm : BOOLEAN, asked : BOOLEAN]
              /\ v1'.state # "SYNCING" /\ ~v2'.started
          BY <4>5 DEF Clock!Stopped, Clock!markDisabled
        <5> QED
          BY <4>1, <4>2, <5>1 DEF Clock!Attempt, Clock!Asking
      <4> QED
        BY <3>10, <4>3, <4>4, <4>5 DEF Clock!ServiceStation
    <3>11. CASE Clock!serviceNtp
      <4>0. v6.at = "service" /\ UNCHANGED <<v3, v4, v5>>
        BY <3>11 DEF Clock!serviceNtp
      <4>1. ASSUME v2' = Clock!Stopped(v2), v1'.state # "SYNCING",
                   v1' \in [state : {"OFF", "SYNCING", "SYNCED", "FAILED"},
                            anchored : BOOLEAN, pending : BOOLEAN],
                   Clock!GoTo("sleep")
            PROVE  Clock!Answerable'
        <5>1. /\ v2' \in [started : BOOLEAN, accepting : BOOLEAN, abort : BOOLEAN,
                          rearm : BOOLEAN, asked : BOOLEAN]
              /\ v2'.abort = v2.abort /\ ~v2'.started
          BY <4>1 DEF Clock!Stopped
        <5>2. v6'.at = "sleep" /\ v6' \in [at : {"sleep", "station", "service", "check",
                     "listen", "recheck", "start", "confirm"}, generation : Nat]
          BY <4>1 DEF Clock!GoTo
        <5> QED
          BY <3>0, <4>0, <4>1, <5>1, <5>2
      <4>2. CASE v8 = "up" /\ v3 = {} /\ v1.pending
        <5>1. v1' = [state |-> "SYNCED", anchored |-> TRUE, pending |-> FALSE]
              /\ v2' = Clock!Stopped(v2) /\ Clock!GoTo("sleep")
          BY <3>11, <4>2 DEF Clock!serviceNtp
        <5> QED
          BY <4>1, <5>1
      <4>3. CASE Clock!ServiceAttempt /\ v3 = {}
        <5>1. CASE v1.state = "SYNCING" /\ Clock!handleNtpFailure
          <6>1. v1' = [v1 EXCEPT !.state = "FAILED"] /\ v2' = Clock!Stopped(v2)
                /\ Clock!GoTo("sleep")
            BY <5>1 DEF Clock!handleNtpFailure
          <6> QED
            BY <4>1, <6>1
        <5>2. CASE Clock!GoTo("sleep") /\ UNCHANGED <<v2, v1>>
          BY <4>0, <4>3, <5>2 DEF Clock!GoTo, Clock!Attempt, Clock!Asking
        <5>3. CASE /\ v1.state # "SYNCING"
                   /\ v2' = [v2 EXCEPT !.rearm = FALSE, !.asked = FALSE]
                   /\ v6' = [at |-> "check", generation |-> v4]
                   /\ UNCHANGED v1
          <6>1. /\ v2' \in [started : BOOLEAN, accepting : BOOLEAN, abort : BOOLEAN,
                            rearm : BOOLEAN, asked : BOOLEAN]
                /\ v2'.started = v2.started /\ v2'.accepting = v2.accepting
                /\ v2'.abort = v2.abort
            BY <5>3
          <6> QED
            BY <4>0, <4>3, <5>3, <6>1 DEF Clock!Attempt, Clock!Asking
        <5> QED
          BY <4>3, <5>1, <5>2, <5>3 DEF Clock!ServiceAttempt
      <4>4. CASE Clock!Aborted(v2) /\ Clock!GoTo("sleep")
        <5>2. v6'.at = "sleep" /\ v6' \in [at : {"sleep", "station", "service", "check",
                     "listen", "recheck", "start", "confirm"}, generation : Nat]
          BY <4>4 DEF Clock!GoTo
        <5>1. CASE v2.started \/ v1.state = "SYNCING"
          <6>1. v2' = [Clock!Stopped(v2) EXCEPT !.rearm = TRUE] /\ v1' = Clock!cancelSyncing
            BY <4>4, <5>1 DEF Clock!Aborted
          <6>2. /\ v1' \in [state : {"OFF", "SYNCING", "SYNCED", "FAILED"},
                            anchored : BOOLEAN, pending : BOOLEAN]
                /\ v1'.state # "SYNCING"
            BY <6>1 DEF Clock!cancelSyncing
          <6>3. /\ v2' \in [started : BOOLEAN, accepting : BOOLEAN, abort : BOOLEAN,
                            rearm : BOOLEAN, asked : BOOLEAN]
                /\ ~v2'.started /\ v2'.abort = v2.abort
            BY <6>1 DEF Clock!Stopped
          <6> QED
            BY <3>0, <4>0, <5>2, <6>2, <6>3
        <5>3. CASE ~(v2.started \/ v1.state = "SYNCING")
          <6>1. v2' = v2 /\ v1' = Clock!cancelPendingSync
            BY <4>4, <5>3 DEF Clock!Aborted
          <6>2. /\ v1' \in [state : {"OFF", "SYNCING", "SYNCED", "FAILED"},
                            anchored : BOOLEAN, pending : BOOLEAN]
                /\ v1'.state # "SYNCING"
            BY <5>3, <6>1 DEF Clock!cancelPendingSync
          <6> QED
            BY <3>0, <4>0, <5>2, <5>3, <6>1, <6>2
        <5> QED
          BY <5>1, <5>3
      <4>5. CASE v8 = "down" /\ v2' = Clock!Stopped(v2) /\ v1' = Clock!markDisabled
                 /\ Clock!GoTo("sleep")
        <5>1. v1' \in [state : {"OFF"}, anchored : BOOLEAN, pending : BOOLEAN]
          BY <4>5 DEF Clock!markDisabled
        <5> QED
          BY <4>1, <4>5, <5>1
      <4> QED
        BY <3>11, <4>2, <4>3, <4>4, <4>5 DEF Clock!serviceNtp
    <3>12. CASE Clock!Check
      <4>1. Clock!ClockTypes' /\ v2'.abort = v2.abort /\ v2'.started = v2.started
            /\ v6'.at = (IF Clock!gateStable THEN "listen" ELSE "sleep")
        BY <3>12 DEF Clock!Check, Clock!GoTo, Clock!gateStable
      <4> QED
        BY <3>12, <4>1
           DEF Clock!Check, Clock!gateStable, Clock!Attempt, Clock!Asking
    <3>13. CASE Clock!Listen
      BY <3>13 DEF Clock!Listen, Clock!GoTo, Clock!Attempt, Clock!Asking
    <3>14. CASE Clock!Recheck
      <4>1. CASE Clock!gateStable
        BY <3>14, <4>1 DEF Clock!Recheck, Clock!gateStable, Clock!GoTo, Clock!Attempt,
           Clock!Asking
      <4>2. CASE ~Clock!gateStable
        <5>1. /\ UNCHANGED <<v3, v4, v5>>
              /\ v2' = [Clock!Stopped(v2) EXCEPT !.rearm = TRUE]
              /\ v1' = Clock!cancelSyncing /\ Clock!GoTo("sleep")
          BY <3>14, <4>2 DEF Clock!Recheck
        <5>2. /\ v1' \in [state : {"OFF", "SYNCING", "SYNCED", "FAILED"},
                          anchored : BOOLEAN, pending : BOOLEAN]
              /\ v2' \in [started : BOOLEAN, accepting : BOOLEAN, abort : BOOLEAN,
                          rearm : BOOLEAN, asked : BOOLEAN]
              /\ v1'.state # "SYNCING" /\ ~v2'.started /\ v2'.abort = v2.abort
          BY <5>1 DEF Clock!Stopped, Clock!cancelSyncing
        <5>3. v6'.at = "sleep" /\ v6' \in [at : {"sleep", "station", "service", "check",
                     "listen", "recheck", "start", "confirm"}, generation : Nat]
          BY <5>1 DEF Clock!GoTo
        <5> QED
          BY <3>0, <5>1, <5>2, <5>3
      <4> QED
        BY <4>1, <4>2
    <3>15. CASE Clock!Start
      <4>1. Clock!ClockTypes' /\ v2'.abort = v2.abort /\ v2'.started
            /\ v2'.accepting = v2.accepting /\ v6'.at = "confirm"
        BY <3>15 DEF Clock!Start, Clock!GoTo
      <4> QED
        BY <3>15, <4>1 DEF Clock!Start, Clock!Attempt, Clock!Asking
    <3>16. CASE UNCHANGED Clock!clockVars
      BY <3>1, <3>16 DEF Clock!clockVars
    <3> QED
      BY <3>2, <3>3, <3>4, <3>5, <3>6, <3>7, <3>8, <3>9, <3>10, <3>11, <3>12,
         <3>13, <3>14, <3>15, <3>16 DEF Clock!ClockNext
  <2>3. Clock!Answerable => Clock!SyncingListens
    BY DEF Clock!Answerable, Clock!ClockTypes, Clock!SyncingListens,
           Clock!Attempt, Clock!Asking, Clock!NoCall
  <2> QED
    BY <2>1, <2>2, <2>3, PTL DEF Clock!ClockSpec
<1> QED
  BY <1>1, <1>2, <1>3, <1>4, <1>5, PTL DEF Spec, Clock!ClockSpec, SyncingListens

\* A sound that was accepted is heard: it waits only while another one plays, and it is
\* dropped only for a reason (acceptLocked, finishPlaybackLocked and their callers).
THEOREM SoundHolds == Spec => QueuedIsHeard
<1>1. Init /\ subject = "buzzer" => Sound!BuzzerInit
  BY SubjectStays
<1>2. [Next]_vars /\ subject = "buzzer" => [Sound!BuzzerNext]_Sound!buzzerVars
  BY SubjectStays
<1>3. [Next]_vars /\ subject = "buzzer" => (subject = "buzzer")'
  BY SubjectStays
<1>4. [Next]_vars /\ ~(subject = "buzzer") => ~(subject = "buzzer")'
  BY SubjectStays
<1> USE DEF Sound!Sounds, Sound!High, Sound!Looping, Sound!None
<1>5. Sound!BuzzerInit => WaitsBehindFinite
  BY DEF Sound!BuzzerInit, WaitsBehindFinite
<1>6. ASSUME WaitsBehindFinite, [Sound!BuzzerNext]_Sound!buzzerVars
      PROVE  WaitsBehindFinite' /\ Sound!AcceptedStep
  <2> USE DEF WaitsBehindFinite
  \* A sound that ends, and the one that waited for it
  <2>1. ASSUME NEW p, NEW q, q = Sound!finish(p),
               p = [playing |-> p.playing, queued |-> p.queued, tone |-> p.tone,
                    over |-> p.over, armed |-> p.armed],
               p.queued \in Sound!Sounds \cup {Sound!None}
        PROVE  /\ q = [playing |-> q.playing, queued |-> q.queued, tone |-> q.tone,
                       over |-> q.over, armed |-> q.armed]
               /\ q.queued = Sound!None
               /\ q.playing = IF p.queued # Sound!None /\ Sound!Starts(p.queued)
                              THEN p.queued ELSE Sound!None
    BY <2>1 DEF Sound!finish, Sound!clearPlayback, Sound!Started
  <2>2. ASSUME v1'.playing = v1.playing, v1'.queued = v1.queued, v4' \in {"set", "unset"},
               v1' = [playing |-> v1'.playing, queued |-> v1'.queued, tone |-> v1'.tone,
                      over |-> v1'.over, armed |-> v1'.armed]
        PROVE  WaitsBehindFinite' /\ Sound!AcceptedStep
    BY <1>6, <2>2 DEF Sound!AcceptedStep
  <2>3. ASSUME NEW sound \in Sound!Sounds, Sound!Accept(sound), UNCHANGED v4
        PROVE  WaitsBehindFinite' /\ Sound!AcceptedStep
    <3>1. v1' = Sound!acceptLocked(sound)
      BY <2>3 DEF Sound!Accept, Sound!Apply
    <3>2. CASE v1' = v1
      BY <1>6, <2>3, <2>2, <3>2
    <3>3. CASE v1.playing \in Sound!Looping \cup {Sound!None} /\ v1' # v1
      <4>1. v1' = (IF Sound!Starts(sound)
                   THEN Sound!Started([v1 EXCEPT !.queued = Sound!None], sound)
                   ELSE [v1 EXCEPT !.queued = Sound!None, !.tone = FALSE])
        BY <3>1, <3>3 DEF Sound!acceptLocked
      <4>2. /\ v1' = [playing |-> v1'.playing, queued |-> v1'.queued, tone |-> v1'.tone,
                      over |-> v1'.over, armed |-> v1'.armed]
            /\ v1'.queued = Sound!None /\ v1'.playing \in {sound, v1.playing}
        BY <1>6, <4>1 DEF Sound!Started
      <4> QED
        BY <1>6, <2>3, <3>3, <4>2 DEF Sound!AcceptedStep
    <3>4. CASE v1.playing \notin Sound!Looping \cup {Sound!None} /\ v1' # v1
      <4>1. /\ v1' = [v1 EXCEPT !.queued = sound]
            /\ v1.queued = Sound!None \/ Sound!Outranks(sound)
        BY <3>1, <3>4 DEF Sound!acceptLocked
      <4> QED
        BY <1>6, <2>3, <3>4, <4>1 DEF Sound!Outranks, Sound!AcceptedStep
    <3> QED
      BY <3>2, <3>3, <3>4
  <2>4. ASSUME NEW sound \in Sound!Sounds, Sound!Request(sound)
        PROVE  WaitsBehindFinite' /\ Sound!AcceptedStep
    BY <2>3, <2>4 DEF Sound!Request
  <2>5. CASE Sound!StopAll
    <3>1. v1' = [Sound!clearPlayback(v1) EXCEPT !.queued = Sound!None] /\ v4' = v4
      BY <2>5 DEF Sound!StopAll, Sound!Apply
    <3>2. /\ v1' = [playing |-> Sound!None, queued |-> Sound!None, tone |-> FALSE,
                    over |-> FALSE, armed |-> FALSE]
      BY <1>6, <3>1 DEF Sound!clearPlayback
    <3> HIDE DEF Sound!Sounds, Sound!None
    <3>3. WaitsBehindFinite'
      <4>1. v1'.playing = Sound!None /\ v1'.queued = Sound!None
        BY <3>2
      <4>2. v4' \in {"set", "unset"}
        BY <1>6, <3>1
      <4>3. v1' = [playing |-> v1'.playing, queued |-> v1'.queued, tone |-> v1'.tone,
                   over |-> v1'.over, armed |-> v1'.armed]
        BY <3>2
      <4> QED
        BY <4>1, <4>2, <4>3
    <3>4. Sound!AcceptedStep
      BY <2>5, Zenon DEF Sound!AcceptedStep
    <3> QED
      BY <3>3, <3>4
  <2>6. CASE Sound!Preempt
    BY <2>3, <2>6 DEF Sound!Preempt
  <2>7. CASE Sound!StopCue
    <3> DEFINE p == Sound!WithoutQueued(v1, {"alarm"})
    <3>1. /\ p = [playing |-> p.playing, queued |-> p.queued, tone |-> p.tone,
                  over |-> p.over, armed |-> p.armed]
          /\ p.playing = v1.playing
          /\ p.queued = IF v1.queued = "alarm" THEN Sound!None ELSE v1.queued
      BY <1>6 DEF Sound!WithoutQueued
    <3>2. v1' = (IF p.playing = "alarm" THEN Sound!finish(p) ELSE p) /\ v4' = v4
      BY <2>7 DEF Sound!StopCue, Sound!Apply
    <3> HIDE DEF p
    <3>3. WaitsBehindFinite'
      <4>1. CASE p.playing = "alarm"
        <5>1. /\ v1' = [playing |-> v1'.playing, queued |-> v1'.queued, tone |-> v1'.tone,
                        over |-> v1'.over, armed |-> v1'.armed]
              /\ v1'.queued = Sound!None
              /\ v1'.playing = IF p.queued # Sound!None /\ Sound!Starts(p.queued)
                               THEN p.queued ELSE Sound!None
          BY <1>6, <2>1, <3>1, <3>2, <4>1
        <5> QED
          BY <1>6, <3>1, <3>2, <5>1
      <4>2. CASE p.playing # "alarm"
        BY <1>6, <3>1, <3>2, <4>2
      <4> QED
        BY <4>1, <4>2
    <3>4. Sound!AcceptedStep
      BY <2>7, Zenon DEF Sound!AcceptedStep
    <3> QED
      BY <3>3, <3>4
  <2>8. CASE Sound!stopPulseTrains \/ (Sound!stopExtendedPulse /\ UNCHANGED v4)
    <3> DEFINE p == Sound!WithoutQueued(v1, Sound!Looping)
    <3>1. /\ p = [playing |-> p.playing, queued |-> p.queued, tone |-> p.tone,
                  over |-> p.over, armed |-> p.armed]
          /\ p.playing = v1.playing
          /\ p.queued = IF v1.queued \in Sound!Looping THEN Sound!None ELSE v1.queued
      BY <1>6 DEF Sound!WithoutQueued
    <3>2. v4' = v4 /\ (v1' = p \/ (p.playing \in Sound!Looping /\ v1' = Sound!finish(p)))
      BY <2>8 DEF Sound!stopPulseTrains, Sound!stopExtendedPulse, Sound!Apply
    <3> HIDE DEF p
    <3>3. CASE v1' = p
      BY <1>6, <3>1, <3>2, <3>3 DEF Sound!AcceptedStep
    <3>4. CASE p.playing \in Sound!Looping /\ v1' = Sound!finish(p)
      <4>1. v1.queued = Sound!None /\ p.queued = Sound!None
        BY <1>6, <3>1, <3>4
      <4>2. /\ v1' = [playing |-> v1'.playing, queued |-> v1'.queued, tone |-> v1'.tone,
                      over |-> v1'.over, armed |-> v1'.armed]
            /\ v1'.queued = Sound!None /\ v1'.playing = Sound!None
        BY <2>1, <3>1, <3>4, <4>1
      <4> QED
        BY <1>6, <3>2, <4>1, <4>2 DEF Sound!AcceptedStep
    <3> QED
      BY <3>2, <3>3, <3>4
  <2>9. ASSUME NEW want \in BOOLEAN, Sound!ServicePulse(want)
        PROVE  WaitsBehindFinite' /\ Sound!AcceptedStep
    BY <2>3, <2>8, <2>9 DEF Sound!ServicePulse
  <2>10. CASE Sound!PulseAfterStop
    BY <1>6, <2>3, <2>2, <2>10 DEF Sound!PulseAfterStop
  <2>11. CASE Sound!Configure \/ Sound!Parsed
    BY <1>6, <2>2, <2>11 DEF Sound!Configure, Sound!Parsed
  <2>12. CASE Sound!TestMelody
    BY <1>6, <2>3, <2>2, <2>12 DEF Sound!TestMelody
  <2>13. CASE Sound!PhaseOver
    BY <1>6, <2>2, <2>13 DEF Sound!PhaseOver
  <2>14. ASSUME NEW c \in Sound!Callers, Sound!TakeTime(c)
         PROVE  WaitsBehindFinite' /\ Sound!AcceptedStep
    BY <1>6, <2>2, <2>14 DEF Sound!TakeTime
  <2>15. ASSUME NEW c \in Sound!Callers, Sound!Service(c)
         PROVE  WaitsBehindFinite' /\ Sound!AcceptedStep
    <3>1. CASE v1' = v1
      BY <1>6, <2>2, <2>15, <3>1 DEF Sound!Service
    <3>2. CASE v1.playing # "pulse" /\ v1' = Sound!finish(v1)
      <4>1. /\ v1' = [playing |-> v1'.playing, queued |-> v1'.queued, tone |-> v1'.tone,
                      over |-> v1'.over, armed |-> v1'.armed]
            /\ v1'.queued = Sound!None
            /\ v1'.playing = IF v1.queued # Sound!None /\ Sound!Starts(v1.queued)
                             THEN v1.queued ELSE Sound!None
        BY <1>6, <2>1, <3>2
      <4> QED
        BY <1>6, <2>15, <4>1 DEF Sound!Service, Sound!AcceptedStep, Sound!Starts
    <3>3. ASSUME NEW tone \in BOOLEAN, v1.playing # Sound!None,
                 v1' = [Sound!Started(v1, v1.playing) EXCEPT !.tone = tone]
          PROVE  WaitsBehindFinite' /\ Sound!AcceptedStep
      <4>1. /\ v1' = [playing |-> v1'.playing, queued |-> v1'.queued, tone |-> v1'.tone,
                      over |-> v1'.over, armed |-> v1'.armed]
            /\ v1'.playing = v1.playing /\ v1'.queued = v1.queued
        BY <1>6, <3>3 DEF Sound!Started
      <4> QED
        BY <1>6, <2>2, <2>15, <4>1 DEF Sound!Service
    <3> QED
      BY <2>15, <3>1, <3>2, <3>3 DEF Sound!Service, Sound!Apply
  <2>16. CASE UNCHANGED Sound!buzzerVars
    BY <1>6, <2>2, <2>16 DEF Sound!buzzerVars
  <2> QED
    BY <1>6, <2>4, <2>5, <2>6, <2>7, <2>8, <2>9, <2>10, <2>11, <2>12, <2>13, <2>14,
       <2>15, <2>16 DEF Sound!BuzzerNext
<1>7. WaitsBehindFinite => Sound!WaitsForSound
  BY DEF WaitsBehindFinite, Sound!WaitsForSound
<1> DEFINE Kept == subject = "buzzer" => WaitsBehindFinite
<1>8. Init => Kept
  BY <1>1, <1>5
<1>9. Kept /\ [Next]_vars => Kept'
  BY <1>2, <1>3, <1>4, <1>6
<1>10. Kept => (subject = "buzzer" => Sound!WaitsForSound)
  BY <1>7
<1>11. Kept /\ [Next]_vars => [subject = "buzzer" => Sound!AcceptedStep]_vars
  BY <1>2, <1>6
<1> QED
  BY <1>8, <1>9, <1>10, <1>11, PTL DEF Spec, QueuedIsHeard

\* K1 is never closed for nothing: when the switch has been read it is for a press that is
\* forwarded or a pulse, and after that no stop, rinse, limit or command of a pass leaves
\* it closed without a press or a pulse (applyMomentaryRelayDrive, emitFirmwarePulse and
\* their callers).
THEOREM ExplainedHolds == Spec => []ClosedIsExplained
<1>1. Init /\ subject = "switch" => Switch!MomentaryInit
  BY SubjectStays
<1>2. [Next]_vars /\ subject = "switch" => [Switch!MomentaryNext]_Switch!momentaryVars
  BY SubjectStays
<1>3. [Next]_vars /\ subject = "switch" => (subject = "switch")'
  BY SubjectStays
<1>4. [Next]_vars /\ ~(subject = "switch") => ~(subject = "switch")'
  BY SubjectStays
\* Relations between a machine and what becomes of it
<1>5. /\ \A m : Shaped(m) => Untouched(m, m)
      /\ \A m, n, o : Untouched(m, n) /\ Untouched(n, o) => Untouched(m, o)
      /\ \A m, n : Untouched(m, n) => Shaped(n) /\ Keeps(m, n)
      /\ \A m, n : Untouched(m, n) /\ Forwarding(m) => Forwarding(n)
      /\ \A m, n, o : Keeps(m, n) /\ Keeps(n, o) => Keeps(m, o)
      /\ \A m : Shaped(m) => Keeps(m, m)
      /\ \A m, n : Keeps(m, n) => Shaped(n)
      /\ \A m : Forwarding(m) => Explained(m)
  BY DEF Untouched, Keeps, Forwarding, Explained, Switch!Closed
\* Fields that say nothing of K1
<1>6. ASSUME NEW m, Shaped(m), NEW x
      PROVE  /\ Untouched(m, [m EXCEPT !.tripped = x])
             /\ Untouched(m, [m EXCEPT !.edges = x])
             /\ Untouched(m, [m EXCEPT !.run = x])
             /\ Untouched(m, [m EXCEPT !.skip = x])
             /\ Untouched(m, [m EXCEPT !.given = x])
             /\ Untouched(m, [m EXCEPT !.view = x])
             /\ Untouched(m, [m EXCEPT !.rinsing = x])
             /\ Untouched(m, [m EXCEPT !.allowed = x])
             /\ Untouched(m, [m EXCEPT !.rinseSent = x])
             /\ Untouched(m, [m EXCEPT !.fromIdle = x])
             /\ Untouched(m, [m EXCEPT !.gesture = x])
             /\ Untouched(m, [m EXCEPT !.pre = x])
  BY <1>6, SMTT(30) DEF Untouched, Shaped
\* Those that K1 is about
<1>a. ASSUME NEW m, Shaped(m), NEW x
      PROVE  LET n == [m EXCEPT !.relay = x]
             IN  Shaped(n) /\ n.relay = x /\ n.phys = m.phys /\ n.pulse = m.pulse
                 /\ n.suppressed = m.suppressed
  <2>1. [m EXCEPT !.relay = x] =
          [relay |-> x, tripped |-> m.tripped, phys |-> m.phys, gesture |-> m.gesture,
           pre |-> m.pre, fromIdle |-> m.fromIdle, rinseSent |-> m.rinseSent,
           edges |-> m.edges, skip |-> m.skip, run |-> m.run, pulse |-> m.pulse,
           allowed |-> m.allowed, suppressed |-> m.suppressed, rinsing |-> m.rinsing,
           given |-> m.given, view |-> m.view]
    BY <1>a DEF Shaped
  <2> QED
    BY <1>a, <2>1 DEF Shaped
<1>b. ASSUME NEW m, Shaped(m), NEW x \in BOOLEAN
      PROVE  LET n == [m EXCEPT !.pulse = x]
             IN  Shaped(n) /\ n.relay = m.relay /\ n.phys = m.phys /\ n.pulse = x
                 /\ n.suppressed = m.suppressed
  <2>1. [m EXCEPT !.pulse = x] =
          [relay |-> m.relay, tripped |-> m.tripped, phys |-> m.phys,
           gesture |-> m.gesture, pre |-> m.pre, fromIdle |-> m.fromIdle,
           rinseSent |-> m.rinseSent, edges |-> m.edges, skip |-> m.skip,
           run |-> m.run, pulse |-> x, allowed |-> m.allowed,
           suppressed |-> m.suppressed, rinsing |-> m.rinsing, given |-> m.given,
           view |-> m.view]
    BY <1>b DEF Shaped
  <2> QED
    BY <1>b, <2>1 DEF Shaped
<1>c. ASSUME NEW m, Shaped(m), NEW x \in BOOLEAN
      PROVE  LET n == [m EXCEPT !.suppressed = x]
             IN  Shaped(n) /\ n.relay = m.relay /\ n.phys = m.phys /\ n.pulse = m.pulse
                 /\ n.suppressed = x
  <2>1. [m EXCEPT !.suppressed = x] =
          [relay |-> m.relay, tripped |-> m.tripped, phys |-> m.phys,
           gesture |-> m.gesture, pre |-> m.pre, fromIdle |-> m.fromIdle,
           rinseSent |-> m.rinseSent, edges |-> m.edges, skip |-> m.skip,
           run |-> m.run, pulse |-> m.pulse, allowed |-> m.allowed, suppressed |-> x,
           rinsing |-> m.rinsing, given |-> m.given, view |-> m.view]
    BY <1>c DEF Shaped
  <2> QED
    BY <1>c, <2>1 DEF Shaped
<1>d. ASSUME NEW m, Shaped(m), NEW x \in BOOLEAN
      PROVE  LET n == [m EXCEPT !.phys = x]
             IN  Shaped(n) /\ n.phys = x
  <2>1. [m EXCEPT !.phys = x] =
          [relay |-> m.relay, tripped |-> m.tripped, phys |-> x, gesture |-> m.gesture,
           pre |-> m.pre, fromIdle |-> m.fromIdle, rinseSent |-> m.rinseSent,
           edges |-> m.edges, skip |-> m.skip, run |-> m.run, pulse |-> m.pulse,
           allowed |-> m.allowed, suppressed |-> m.suppressed, rinsing |-> m.rinsing,
           given |-> m.given, view |-> m.view]
    BY <1>d DEF Shaped
  <2> QED
    BY <1>d, <2>1 DEF Shaped
<1>7. ASSUME NEW m, Shaped(m), NEW f PROVE Untouched(m, Switch!Seen(m, f))
  BY <1>6, <1>7 DEF Switch!Seen
<1>8. ASSUME NEW m, Shaped(m) PROVE Untouched(m, Switch!Reason(m))
  BY <1>6, <1>8 DEF Switch!Reason
\* The notes of the control code
<1>9. ASSUME NEW m, Shaped(m)
      PROVE  /\ Untouched(m, Switch!SettleOff(m)) /\ Untouched(m, Switch!NoteStart(m))
             /\ Untouched(m, Switch!NoteStop(m)) /\ Untouched(m, Switch!NoteStartCanceled(m))
             /\ Untouched(m, Switch!Confirmed(m))
             /\ \A restore, pre : Untouched(m, Switch!NoteDisqualified(m, restore, pre))
  <2>1. Untouched(m, Switch!SettleOff(m))
    BY <1>5, <1>6, <1>7, <1>9 DEF Switch!SettleOff
  <2>2. Untouched(m, Switch!NoteStart(m))
    BY <1>5, <1>7, <1>8, <1>9 DEF Switch!NoteStart
  <2>3. Untouched(m, Switch!NoteStop(m))
    BY <1>5, <1>7, <1>9 DEF Switch!NoteStop
  <2>4. Untouched(m, Switch!NoteStartCanceled(m))
    BY <1>5, <1>7, <1>8, <1>9 DEF Switch!NoteStartCanceled
  <2>5. Untouched(m, Switch!Confirmed(m))
    <3> DEFINE on == [m EXCEPT !.run = TRUE]
               seen == [had |-> TRUE, coffee |-> TRUE, settling |-> FALSE,
                        stopAck |-> FALSE, startAck |-> FALSE, state |-> "CONFIRMED_ON"]
    <3>1. Untouched(m, on)
      BY <1>6, <1>9
    <3> HIDE DEF on, seen
    <3>2. Untouched(m, Switch!Reason(Switch!Seen(on, seen)))
      BY <1>5, <1>7, <1>8, <3>1
    <3> QED
      BY <3>2, Zenon DEF Switch!Confirmed, on, seen
  <2>6. ASSUME NEW restore, NEW pre
        PROVE  Untouched(m, Switch!NoteDisqualified(m, restore, pre))
    BY <1>5, <1>7, <1>8, <1>9, <2>4 DEF Switch!NoteDisqualified
  <2> QED
    BY <2>1, <2>2, <2>3, <2>4, <2>5, <2>6
\* The sensors
<1>10. ASSUME NEW m, Shaped(m)
       PROVE  /\ \A on : Untouched(m, Switch!SampleReed(m, on))
              /\ \A due : Untouched(m, Switch!ReedSense(m, due))
              /\ \A due : Untouched(m, Switch!StaleSense(m, due))
              /\ \A signal : Untouched(m, Switch!AfterTare(m, signal))
              /\ \A signal : Untouched(m, Switch!AfterQuiet(m, signal))
              /\ \A signal, due : Untouched(m, Switch!AfterStop(m, signal, due))
              /\ \A shot, due : Untouched(m, Switch!AfterStart(m, shot, due))
              /\ \A signal, keep, due :
                    Untouched(m, Switch!AfterLowFlow(m, signal, keep, due))
              /\ \A signal, shot, due : Untouched(m, Switch!AfterFlow(m, signal, shot, due))
              /\ \A shot, limit : Untouched(m, Switch!AfterHardLimit(m, shot, limit))
              /\ \A event, active, drop :
                    Untouched(m, Switch!AfterEvents(m, event, active, drop))
  <2>1. ASSUME NEW on PROVE Untouched(m, Switch!SampleReed(m, on))
    BY <1>5, <1>7, <1>10 DEF Switch!SampleReed
  <2>2. ASSUME NEW due PROVE Untouched(m, Switch!ReedSense(m, due))
    <3> DEFINE over == Switch!Seen(m, [assume |-> "none"])
    <3>1. Untouched(m, over)
      BY <1>7, <1>10
    <3> HIDE DEF over
    <3>2. Untouched(m, [over EXCEPT !.run = FALSE, !.edges = @ \cup {"off"}])
      <4> DEFINE off == [over EXCEPT !.run = FALSE]
      <4>1. Untouched(m, off)
        BY <1>5, <1>6, <3>1
      <4> HIDE DEF off
      <4>2. Untouched(m, [off EXCEPT !.edges = over.edges \cup {"off"}])
        BY <1>5, <1>6, <4>1
      <4> QED
        BY <4>2 DEF off
    <3> QED
      BY <1>5, <1>10, <3>1, <3>2 DEF Switch!ReedSense, over
  <2>3. ASSUME NEW due PROVE Untouched(m, Switch!StaleSense(m, due))
    BY <1>7, <1>10 DEF Switch!StaleSense
  <2>4. ASSUME NEW signal PROVE Untouched(m, Switch!AfterTare(m, signal))
    BY <1>5, <1>7, <1>10 DEF Switch!AfterTare
  <2>5. ASSUME NEW signal PROVE Untouched(m, Switch!AfterQuiet(m, signal))
    BY <1>5, <1>7, <1>9, <1>10 DEF Switch!AfterQuiet
  <2>6. ASSUME NEW signal, NEW due PROVE Untouched(m, Switch!AfterStop(m, signal, due))
    BY <1>5, <1>7, <1>9, <1>10 DEF Switch!AfterStop
  <2>7. ASSUME NEW shot, NEW due PROVE Untouched(m, Switch!AfterStart(m, shot, due))
    BY <1>5, <1>6, <1>7, <1>10 DEF Switch!AfterStart
  <2>8. ASSUME NEW signal, NEW keep, NEW due
        PROVE  Untouched(m, Switch!AfterLowFlow(m, signal, keep, due))
    BY <1>5, <1>7, <1>10 DEF Switch!AfterLowFlow
  <2>9. ASSUME NEW signal, NEW shot, NEW due
        PROVE  Untouched(m, Switch!AfterFlow(m, signal, shot, due))
    BY <1>5, <1>6, <1>9, <1>10 DEF Switch!AfterFlow
  <2>10. ASSUME NEW shot, NEW limit PROVE Untouched(m, Switch!AfterHardLimit(m, shot, limit))
    BY <1>5, <1>7, <1>9, <1>10 DEF Switch!AfterHardLimit
  <2>11. ASSUME NEW event, NEW active, NEW drop
         PROVE  Untouched(m, Switch!AfterEvents(m, event, active, drop))
    <3> DEFINE a == IF \/ event = "connected" /\ ~active
                       \/ event = "cup removed" /\ m.view.state = "ASSUMED_OFF"
                    THEN Switch!SettleOff(m) ELSE m
               b == IF /\ a.run /\ a.view.state = "CONFIRMED_OFF"
                       /\ ~a.view.stopAck /\ ~a.view.settling /\ a.view.startAck
                    THEN Switch!Seen(a, [state |-> "ASSUMED_ON"]) ELSE a
    <3>1. Untouched(m, a)
      BY <1>5, <1>9, <1>10
    <3> HIDE DEF a
    <3>2. Untouched(m, b)
      BY <1>5, <1>7, <3>1
    <3> HIDE DEF b
    <3>3. Untouched(m, IF drop THEN Switch!Seen(b, [coffee |-> TRUE]) ELSE b)
      BY <1>5, <1>7, <3>2
    <3> QED
      BY <3>3, Zenon DEF Switch!AfterEvents, a, b
  <2> QED
    BY <2>1, <2>2, <2>3, <2>4, <2>5, <2>6, <2>7, <2>8, <2>9, <2>10, <2>11
<1>11. ASSUME NEW m, Shaped(m), NEW r, NEW active
       PROVE  Untouched(m, Switch!Sense(m, r, active))
  <2> DEFINE a == Switch!AfterEvents(m, r.event, active, r.drop)
             fresh == Switch!Seen(a, [fresh |-> TRUE, scale |-> TRUE])
             b == Switch!AfterTare(fresh, r.signal)
             c == Switch!AfterStop(Switch!AfterQuiet(b, r.signal), r.signal, r.due)
             d == Switch!AfterLowFlow(Switch!AfterStart(c, r.shot, r.due), r.signal,
                                      active /\ r.drop /\ r.shot, r.due)
  <2>1. Untouched(m, a)
    BY <1>10, <1>11
  <2> HIDE DEF a
  <2>2. Untouched(m, b)
    BY <1>5, <1>7, <1>10, <2>1
  <2> HIDE DEF b
  <2>3. Untouched(m, c)
    BY <1>5, <1>10, <2>2
  <2> HIDE DEF c
  <2>4. Untouched(m, d)
    BY <1>5, <1>10, <2>3
  <2> HIDE DEF d
  <2>5. Untouched(m, Switch!StaleSense(a, r.due))
    BY <1>5, <1>10, <2>1
  <2>6. Untouched(m, Switch!AfterHardLimit(Switch!AfterFlow(d, r.signal, r.shot, r.due),
                                           r.shot, r.limit))
    BY <1>5, <1>10, <2>4
  <2>7. Untouched(m, Switch!WeightSense(m, r, active))
    BY <2>5, <2>6, Zenon DEF Switch!WeightSense, a, b, c, d
  <2>8. Untouched(m, Switch!ReedSense(m, r.due))
    BY <1>10, <1>11
  <2> QED
    BY <2>7, <2>8 DEF Switch!Sense

\* K1 and the pulses
<1>12. ASSUME NEW m, Shaped(m)
       PROVE  /\ Shaped(Switch!Open(m)) /\ ~Switch!Closed(Switch!Open(m))
              /\ Switch!Open(m).phys = m.phys /\ Switch!Open(m).pulse = m.pulse
              /\ Switch!Open(m).suppressed = m.suppressed
              /\ Shaped(Switch!Close(m)) /\ Switch!Close(m).phys = m.phys
              /\ Switch!Close(m).pulse = m.pulse
              /\ Switch!Close(m).suppressed = m.suppressed
              /\ Shaped(Switch!Trip(m)) /\ ~Switch!Closed(Switch!Trip(m))
              /\ Switch!Trip(m).phys = m.phys
  <2>1. ASSUME NEW x
        PROVE  LET n == [m EXCEPT !.relay = x]
               IN  Shaped(n) /\ n.relay = x /\ n.phys = m.phys /\ n.pulse = m.pulse
                   /\ n.suppressed = m.suppressed
    BY <1>a, <1>12
  <2>2. /\ Shaped(Switch!Open(m)) /\ ~Switch!Closed(Switch!Open(m))
        /\ Switch!Open(m).phys = m.phys /\ Switch!Open(m).pulse = m.pulse
        /\ Switch!Open(m).suppressed = m.suppressed
    BY <1>12, <2>1 DEF Switch!Open, Switch!Closed
  <2>3. /\ Shaped(Switch!Close(m)) /\ Switch!Close(m).phys = m.phys
        /\ Switch!Close(m).pulse = m.pulse /\ Switch!Close(m).suppressed = m.suppressed
    BY <1>12, <2>1 DEF Switch!Close
  <2>4. /\ Shaped(Switch!Trip(m)) /\ ~Switch!Closed(Switch!Trip(m))
        /\ Switch!Trip(m).phys = m.phys
    <3> DEFINE n == [m EXCEPT !.relay = "TRIPPED"]
    <3>1. Shaped(n) /\ n.relay = "TRIPPED" /\ n.phys = m.phys
      BY <2>1
    <3> HIDE DEF n
    <3>2. Untouched(n, [n EXCEPT !.tripped = TRUE])
      BY <1>6, <3>1
    <3>3. Switch!Trip(m) = [n EXCEPT !.tripped = TRUE]
      BY DEF Switch!Trip, n
    <3> QED
      BY <3>1, <3>2, <3>3 DEF Untouched, Switch!Closed
  <2> QED
    BY <2>2, <2>3, <2>4
<1>13. ASSUME NEW m, Shaped(m)
       PROVE  /\ Keeps(m, Switch!AbortPulse(m))
              /\ Switch!AbortPulse(m).suppressed = m.suppressed
  <2> DEFINE n == [m EXCEPT !.pulse = FALSE]
  <2>1. /\ Shaped(n) /\ n.phys = m.phys /\ n.pulse = FALSE
        /\ n.suppressed = m.suppressed /\ n.relay = m.relay
    BY <1>b, <1>13
  <2> HIDE DEF n
  <2>2. Switch!AbortPulse(m) \in {m, IF m.phys THEN n ELSE Switch!Open(n)}
    BY <1>13 DEF Switch!AbortPulse, Shaped, n
  <2> QED
    BY <1>12, <1>13, <2>1, <2>2 DEF Keeps, Explained, Switch!Closed
<1>14. ASSUME NEW m, Shaped(m), NEW over
       PROVE  /\ Shaped(Switch!DrivePulse(m, over))
              /\ Switch!DrivePulse(m, over).phys = m.phys
              /\ Switch!Closed(Switch!DrivePulse(m, over)) => Switch!DrivePulse(m, over).pulse
  <2> DEFINE n == [m EXCEPT !.pulse = FALSE]
  <2>1. Shaped(n) /\ n.phys = m.phys
    BY <1>b, <1>14
  <2> HIDE DEF n
  <2>2. \/ Switch!DrivePulse(m, over) = Switch!Open(m)
        \/ Switch!DrivePulse(m, over) = Switch!Open(n)
        \/ m.pulse /\ Switch!DrivePulse(m, over) = Switch!Close(m)
    BY DEF Switch!DrivePulse, n
  <2> QED
    BY <1>12, <1>14, <2>1, <2>2
<1>15. ASSUME NEW m, Shaped(m)
       PROVE  /\ Shaped(Switch!Forward(m)) /\ Switch!Forward(m).phys = m.phys
              /\ Switch!Closed(Switch!Forward(m)) => ~Switch!Forward(m).suppressed
  <2> DEFINE n == [m EXCEPT !.suppressed = TRUE]
  <2>1. Shaped(n) /\ n.phys = m.phys
    BY <1>c, <1>15
  <2> HIDE DEF n
  <2>2. \/ ~m.suppressed /\ Switch!Forward(m) = Switch!Close(m)
        \/ Switch!Forward(m) = Switch!Open(n)
    BY DEF Switch!Forward, n
  <2> QED
    BY <1>12, <1>15, <2>1, <2>2
<1>16. ASSUME NEW m, Shaped(m), NEW over
       PROVE  /\ Shaped(Switch!Drive(m, over)) /\ Switch!Drive(m, over).phys = m.phys
              /\ Forwarding(Switch!Drive(m, over))
  <2> DEFINE free == [m EXCEPT !.suppressed = FALSE]
  <2>1. Shaped(free) /\ free.phys = m.phys
    BY <1>c, <1>16
  <2> HIDE DEF free
  <2>2. \/ Switch!Drive(m, over) = Switch!DrivePulse(m, over)
        \/ Switch!Drive(m, over) = Switch!DrivePulse(free, over)
        \/ m.phys /\ Switch!Drive(m, over) = Switch!Forward(m)
        \/ m.phys /\ Switch!Drive(m, over) = Switch!Forward(Switch!AbortPulse(m))
    BY <1>16, Zenon DEF Switch!Drive, free
  <2> QED
    BY <1>13, <1>14, <1>15, <1>16, <2>1, <2>2 DEF Keeps, Forwarding
<1>17. ASSUME NEW m, Shaped(m), NEW over PROVE Keeps(m, Switch!Drive(m, over))
  BY <1>5, <1>16, <1>17 DEF Keeps
<1>18. ASSUME NEW m, Shaped(m)
       PROVE  /\ Keeps(m, Switch!StartPulse(m))
              /\ \A why : Keeps(m, Switch!StopPulse(m, why))
  <2> DEFINE o == [Switch!Close(m) EXCEPT !.pulse = TRUE]
  <2>1. Shaped(o) /\ o.phys = m.phys /\ o.pulse = TRUE
    <3> DEFINE closed == Switch!Close(m)
    <3>1. Shaped(closed) /\ closed.phys = m.phys
      BY <1>12, <1>18
    <3> HIDE DEF closed
    <3>2. ASSUME NEW x \in BOOLEAN
          PROVE  LET c == [closed EXCEPT !.pulse = x]
                 IN  Shaped(c) /\ c.phys = closed.phys /\ c.pulse = x
      BY <1>b, <3>1, <3>2
    <3>3. Shaped(o) /\ o.phys = closed.phys /\ o.pulse = TRUE
      BY <3>2 DEF closed
    <3> QED
      BY <3>1, <3>3
  <2>2. Keeps(m, m)
    BY <1>5, <1>18
  <2>3. ASSUME NEW n, Shaped(n), n.phys = m.phys, n.pulse PROVE Keeps(m, n)
    BY <2>3 DEF Keeps, Explained
  <2>4. Keeps(m, Switch!StartPulse(m))
    BY <2>1, <2>2, <2>3 DEF Switch!StartPulse
  <2>5. ASSUME NEW why PROVE Keeps(m, Switch!StopPulse(m, why))
    <3> DEFINE n == [o EXCEPT !.given = Append(o.given, why)]
               p == [Switch!Close(m) EXCEPT !.pulse = TRUE, !.given = Append(@, why)]
    <3>1. n = p
      OBVIOUS
    <3>2. \/ Switch!StopPulse(m, why) = m \/ Switch!StopPulse(m, why) = p
          \/ Switch!StopPulse(m, why) = Switch!Seen(p, [cut |-> TRUE])
      BY Zenon DEF Switch!StopPulse
    <3> HIDE DEF p
    <3>3. \A x : Untouched(o, [o EXCEPT !.given = x])
      BY <1>6, <2>1
    <3> HIDE DEF o
    <3>4. Shaped(n) /\ n.phys = m.phys /\ n.pulse
      BY <2>1, <3>3 DEF Untouched
    <3> HIDE DEF n
    <3>5. \A f : Untouched(n, Switch!Seen(n, f))
      BY <1>7, <3>4
    <3>6. Keeps(m, n) /\ Keeps(m, Switch!Seen(n, [cut |-> TRUE]))
      BY <2>3, <3>4, <3>5 DEF Untouched
    <3> QED
      BY <2>2, <3>1, <3>2, <3>6
  <2> QED
    BY <2>4, <2>5
<1>19. ASSUME NEW m, Shaped(m), NEW why PROVE Keeps(m, Switch!MaybeStopPulse(m, why))
  BY <1>13, <1>18, <1>19 DEF Switch!MaybeStopPulse
<1>20. ASSUME NEW m, Shaped(m) PROVE Keeps(m, Switch!EndRun(m))
  <2> DEFINE ended == [m EXCEPT !.run = FALSE]
  <2>1. Untouched(m, ended)
    BY <1>6, <1>20
  <2> HIDE DEF ended
  <2>2. Keeps(m, Switch!NoteStop(Switch!MaybeStopPulse(ended, "wall")))
    BY <1>5, <1>9, <1>19, <2>1
  <2>3. \A f : Keeps(m, Switch!Seen(ended, f))
    BY <1>5, <1>7, <2>1
  <2>4. \/ Switch!EndRun(m) = Switch!NoteStop(Switch!MaybeStopPulse(ended, "wall"))
        \/ Switch!EndRun(m) = Switch!Seen(ended, [orphan |-> TRUE])
        \/ Switch!EndRun(m) = ended
    BY Zenon DEF Switch!EndRun, ended
  <2> QED
    BY <1>5, <2>1, <2>2, <2>3, <2>4
<1>21. ASSUME NEW m, Shaped(m), NEW wall PROVE Keeps(m, Switch!Wall(m, wall))
  <2>1. Keeps(m, Switch!Trip(m))
    BY <1>12, <1>21 DEF Keeps, Explained
  <2>2. Keeps(m, Switch!EndRun(Switch!Trip(m)))
    BY <1>5, <1>20, <2>1
  <2>3. \A f : Keeps(m, Switch!Seen(Switch!SettleOff(m), f))
    BY <1>5, <1>7, <1>9, <1>21
  <2>4. \/ Switch!Wall(m, wall) = m
        \/ Switch!Wall(m, wall) = Switch!Seen(Switch!SettleOff(m), [idle |-> TRUE])
        \/ Switch!Wall(m, wall) = Switch!EndRun(Switch!Trip(m))
    BY Zenon DEF Switch!Wall
  <2> QED
    BY <1>5, <1>21, <2>2, <2>3, <2>4
<1>22. ASSUME NEW m, Shaped(m) PROVE Keeps(m, Switch!RetryStop(m))
  <2>1. \A f : Keeps(m, Switch!MaybeStopPulse(Switch!Seen(m, f), "retry"))
    BY <1>5, <1>7, <1>19, <1>22
  <2> QED
    BY <1>5, <1>22, <2>1 DEF Switch!RetryStop
\* What the control loop asks of the machine
<1>23. ASSUME NEW m, Shaped(m), NEW over
       PROVE  /\ \A remote : Keeps(m, Switch!RequestStart(m, remote))
              /\ Keeps(m, Switch!RequestStop(m, over))
              /\ Keeps(m, Switch!BeginRinse(m)) /\ Keeps(m, Switch!EndRinse(m))
  <2>1. ASSUME NEW remote PROVE Keeps(m, Switch!RequestStart(m, remote))
    <3> DEFINE s == [Switch!NoteStart(m) EXCEPT !.run = TRUE]
    <3>1. Untouched(m, s)
      BY <1>5, <1>6, <1>9, <1>23
    <3> HIDE DEF s
    <3>2. Keeps(m, Switch!StartPulse(s)) /\ Keeps(m, s)
      BY <1>5, <1>18, <3>1
    <3> QED
      BY <3>2, Zenon DEF Switch!RequestStart, s
  <2>2. Keeps(m, Switch!RequestStop(m, over))
    <3> DEFINE r == [m EXCEPT !.run = FALSE]
               s == [r EXCEPT !.skip = FALSE]
    <3>1. Untouched(m, r)
      BY <1>6, <1>23
    <3> HIDE DEF r
    <3>2. Keeps(m, s) /\ Shaped(s)
      BY <1>5, <1>6, <3>1
    <3>3. [m EXCEPT !.run = FALSE, !.skip = FALSE] = s
      BY DEF r
    <3> HIDE DEF s
    <3>4. /\ Keeps(m, Switch!Drive(Switch!NoteStop(Switch!AbortPulse(s)), over))
          /\ Keeps(m, Switch!NoteStop(s))
          /\ Keeps(m, Switch!Drive(Switch!NoteStop(s), over))
          /\ Keeps(m, Switch!StopPulse(Switch!NoteStop(s), "stop"))
      <4>1. Keeps(m, Switch!NoteStop(s))
        BY <1>5, <1>9, <3>2
      <4>2. Keeps(m, Switch!NoteStop(Switch!AbortPulse(s)))
        BY <1>5, <1>9, <1>13, <3>2
      <4> QED
        BY <1>5, <1>17, <1>18, <4>1, <4>2
    <3> QED
      BY <3>3, <3>4, Zenon DEF Switch!RequestStop
  <2>3. Keeps(m, Switch!BeginRinse(m))
    <3> DEFINE r == [m EXCEPT !.rinsing = TRUE]
               q == [r EXCEPT !.suppressed = TRUE]
               quiet == Switch!Open(Switch!AbortPulse(q))
               noted == Switch!NoteStart(quiet)
               n == [noted EXCEPT !.run = TRUE]
    <3>1. Untouched(m, r)
      BY <1>6, <1>23
    <3> HIDE DEF r
    <3>2. Shaped(q) /\ q.phys = m.phys
      <4>1. Shaped(r) /\ r.phys = m.phys
        BY <3>1 DEF Untouched
      <4> QED
        BY <1>c, <4>1
    <3>3. [m EXCEPT !.rinsing = TRUE, !.suppressed = TRUE] = q
      BY DEF r
    <3> HIDE DEF q
    <3>4. Keeps(m, quiet)
      <4>1. Shaped(Switch!AbortPulse(q)) /\ Switch!AbortPulse(q).phys = m.phys
        BY <1>13, <3>2 DEF Keeps
      <4> QED
        BY <1>12, <4>1 DEF Keeps, Explained
    <3> HIDE DEF quiet
    <3>n. Untouched(quiet, noted)
      BY <1>5, <1>9, <3>4
    <3> HIDE DEF noted
    <3>5. Keeps(m, n)
      <4>1. Shaped(noted) /\ Keeps(m, noted)
        BY <1>5, <3>4, <3>n
      <4>2. Keeps(noted, n)
        BY <1>5, <1>6, <4>1
      <4> QED
        BY <1>5, <4>1, <4>2
    <3> HIDE DEF n
    <3>6. Keeps(m, Switch!StartPulse(n)) /\ Keeps(m, m)
      BY <1>5, <1>18, <1>23, <3>5
    <3> QED
      BY <3>3, <3>6, Zenon DEF Switch!BeginRinse, n, noted, quiet
  <2>4. Keeps(m, Switch!EndRinse(m))
    <3> DEFINE r == [m EXCEPT !.run = FALSE]
               q == [r EXCEPT !.suppressed = TRUE]
               ended == Switch!NoteStop(q)
               n == Switch!StopPulse(Switch!AbortPulse(ended), "rinse")
    <3>1. Untouched(m, r)
      BY <1>6, <1>23
    <3> HIDE DEF r
    <3>2. Keeps(m, q)
      <4>1. /\ Shaped(r) /\ r.phys = m.phys
            /\ r.relay = m.relay /\ r.pulse = m.pulse
        BY <3>1 DEF Untouched
      <4>2. Shaped(q) /\ q.phys = r.phys /\ q.relay = r.relay /\ q.pulse = r.pulse
        BY <1>c, <4>1
      <4> QED
        BY <4>1, <4>2 DEF Keeps, Explained, Switch!Closed
    <3>3. [m EXCEPT !.run = FALSE, !.suppressed = TRUE] = q
      BY DEF r
    <3> HIDE DEF q
    <3>4. Keeps(m, ended)
      BY <1>5, <1>9, <3>2
    <3> HIDE DEF ended
    <3>5. Keeps(m, n)
      BY <1>5, <1>13, <1>18, <3>4
    <3> HIDE DEF n
    <3>6. Keeps(m, [n EXCEPT !.rinsing = FALSE])
      BY <1>5, <1>6, <3>5
    <3> QED
      BY <3>3, <3>6, Zenon DEF Switch!EndRinse, n, ended
  <2> QED
    BY <2>1, <2>2, <2>3, <2>4
<1>24. ASSUME NEW m, Shaped(m), NEW rinse, NEW cut, NEW over
       PROVE  Keeps(m, Switch!Finalize(m, rinse, cut, over))
  <2> DEFINE armed == IF Switch!HasReed(m) THEN m ELSE Switch!Seen(m, [armed |-> cut])
             n == IF rinse THEN Switch!EndRinse(armed) ELSE Switch!RequestStop(armed, over)
  <2>1. Untouched(m, armed)
    BY <1>5, <1>7, <1>24
  <2> HIDE DEF armed
  <2>2. Keeps(m, n)
    BY <1>5, <1>23, <2>1
  <2> HIDE DEF n
  <2>3. Keeps(m, [n EXCEPT !.rinsing = FALSE])
    BY <1>5, <1>6, <2>2
  <2> QED
    BY <2>3, Zenon DEF Switch!Finalize, n, armed
\* The switch: K1 follows it first, and the edges it makes leave K1 alone.
<1>25. ASSUME NEW m, Shaped(m)
       PROVE  /\ \A forwarded : Untouched(m, Switch!StartStopEdge(m, forwarded))
              /\ \A forwarded : Untouched(m, Switch!Pressed(m, forwarded))
              /\ \A long : Untouched(m, Switch!Held(m, long))
              /\ \A long, forwarded : Untouched(m, Switch!Released(m, long, forwarded))
  <2>1. ASSUME NEW n, Shaped(n), NEW forwarded
        PROVE  Untouched(n, Switch!StartStopEdge(n, forwarded))
    <3> DEFINE a == [n EXCEPT !.edges = n.edges \cup {"off", "user"}]
               b == [a EXCEPT !.skip = TRUE]
               c == [b EXCEPT !.run = FALSE]
               d == [c EXCEPT !.given = IF forwarded THEN <<"press">> ELSE <<>>]
               e == [n EXCEPT !.edges = n.edges \cup {"on", "start"}]
               f == [Switch!NoteStart(e) EXCEPT !.run = TRUE]
    <3>1. Untouched(n, a) /\ Untouched(n, e)
      BY <1>6, <2>1
    <3> HIDE DEF a, e
    <3>2. Untouched(n, b)
      BY <1>5, <1>6, <3>1
    <3> HIDE DEF b
    <3>3. Untouched(n, c)
      BY <1>5, <1>6, <3>2
    <3> HIDE DEF c
    <3>4. Untouched(n, d)
      BY <1>5, <1>6, <3>3
    <3>5. Untouched(n, f)
      BY <1>5, <1>6, <1>9, <3>1
    <3> HIDE DEF d, f
    <3>6. Untouched(n, Switch!NoteStop(d))
      BY <1>5, <1>9, <3>4
    <3> QED
      BY <3>5, <3>6, Zenon DEF Switch!StartStopEdge, a, b, c, d, e, f
  <2>2. ASSUME NEW forwarded PROVE Untouched(m, Switch!Pressed(m, forwarded))
    <3> DEFINE a == [m EXCEPT !.rinseSent = FALSE]
               p == [a EXCEPT !.fromIdle = ~Switch!Running(m)]
               q == [p EXCEPT !.pre = [running |-> Switch!Running(m),
                                       state |-> Switch!ViewState(m)]]
               r == [Switch!StartStopEdge(q, forwarded) EXCEPT !.gesture = TRUE]
    <3>1. Untouched(m, a)
      BY <1>6, <1>25
    <3> HIDE DEF a
    <3>2. Untouched(m, p)
      BY <1>5, <1>6, <3>1
    <3> HIDE DEF p
    <3>3. Untouched(m, q)
      BY <1>5, <1>6, <3>2
    <3> HIDE DEF q
    <3>4. Untouched(m, r)
      BY <1>5, <1>6, <2>1, <3>3
    <3> HIDE DEF r
    <3> QED
      BY <3>2, <3>4, Zenon DEF Switch!Pressed, a, p, q, r
  <2>3. Untouched(m, Switch!Revert(m))
    <3> DEFINE a == [m EXCEPT !.run = TRUE]
               b == [a EXCEPT !.edges = m.edges \ {"start"}]
               c == [m EXCEPT !.run = FALSE]
               d == [c EXCEPT !.skip = TRUE]
               e == [d EXCEPT !.edges = (m.edges \ {"start"}) \cup {"off", "user"}]
    <3>1. Untouched(m, a) /\ Untouched(m, c)
      BY <1>6, <1>25
    <3> HIDE DEF a, c
    <3>2. Untouched(m, b) /\ Untouched(m, d)
      BY <1>5, <1>6, <3>1
    <3> HIDE DEF b, d
    <3>3. Untouched(m, e)
      <4> DEFINE edges == (m.edges \ {"start"}) \cup {"off", "user"}
      <4> HIDE DEF edges
      <4>1. Untouched(m, [d EXCEPT !.edges = edges])
        BY <1>5, <1>6, <3>2
      <4> QED
        BY <4>1 DEF edges
    <3> HIDE DEF e
    <3>4. \A pre : /\ Untouched(m, Switch!NoteDisqualified(b, TRUE, pre))
                   /\ Untouched(m, Switch!NoteDisqualified(e, FALSE, pre))
      BY <1>5, <1>9, <3>2, <3>3
    <3> QED
      BY <3>4, Zenon DEF Switch!Revert, a, b, c, d, e
  <2>4. ASSUME NEW long PROVE Untouched(m, Switch!Held(m, long))
    <3> DEFINE a == [m EXCEPT !.edges = m.edges \cup {"rinse"}]
               b == [a EXCEPT !.rinseSent = TRUE]
               c == [b EXCEPT !.gesture = FALSE]
               d == [c EXCEPT !.pre = Switch!NoPress]
               e == [Switch!Revert(m) EXCEPT !.gesture = FALSE]
               f == [e EXCEPT !.pre = Switch!NoPress]
    <3>1. Untouched(m, a) /\ Untouched(m, e)
      BY <1>5, <1>6, <1>25, <2>3
    <3> HIDE DEF a, e
    <3>2. Untouched(m, b) /\ Untouched(m, f)
      BY <1>5, <1>6, <3>1
    <3> HIDE DEF b
    <3>3. Untouched(m, c)
      BY <1>5, <1>6, <3>2
    <3> HIDE DEF c
    <3>4. Untouched(m, d)
      BY <1>5, <1>6, <3>3
    <3> HIDE DEF d, f
    <3>5. Switch!Held(m, long) = d \/ Switch!Held(m, long) = f \/ Switch!Held(m, long) = m
      BY Zenon DEF Switch!Held, a, b, c, d, e, f
    <3> QED
      BY <1>5, <1>25, <3>2, <3>4, <3>5
  <2>5. ASSUME NEW long, NEW forwarded
        PROVE  Untouched(m, Switch!Released(m, long, forwarded))
    <3> DEFINE a == [m EXCEPT !.gesture = FALSE]
               b == [a EXCEPT !.pre = Switch!NoPress]
               c == [b EXCEPT !.fromIdle = FALSE]
               r == [c EXCEPT !.rinseSent = FALSE]
    <3>1. Untouched(m, a)
      BY <1>6, <1>25
    <3> HIDE DEF a
    <3>2. Untouched(m, b)
      BY <1>5, <1>6, <3>1
    <3> HIDE DEF b
    <3>3. Untouched(m, c)
      BY <1>5, <1>6, <3>2
    <3> HIDE DEF c
    <3>4. Untouched(m, r)
      BY <1>5, <1>6, <3>3
    <3> HIDE DEF r
    <3>5. Untouched(m, Switch!StartStopEdge(r, forwarded))
      BY <1>5, <2>1, <3>4
    <3> QED
      BY <3>4, <3>5, Zenon DEF Switch!Released, a, b, c, r
  <2> QED
    BY <1>25, <2>1, <2>2, <2>4, <2>5
<1>26. ASSUME NEW m, Shaped(m), NEW on \in BOOLEAN, NEW long, NEW over
       PROVE  /\ Shaped(Switch!UpdateInput(m, on, long, over))
              /\ Forwarding(Switch!UpdateInput(m, on, long, over))
  <2> DEFINE p == [m EXCEPT !.phys = on]
             d == Switch!Drive(p, over)
  <2>1. Shaped(p)
    BY <1>d, <1>26
  <2> HIDE DEF p
  <2>2. Shaped(d) /\ Forwarding(d)
    BY <1>16, <2>1
  <2> HIDE DEF d
  <2>3. /\ \A forwarded : Untouched(d, Switch!Pressed(d, forwarded))
        /\ Untouched(d, Switch!Held(d, long))
        /\ \A forwarded : Untouched(d, Switch!Released(d, long, forwarded))
        /\ Untouched(d, d)
    BY <1>5, <1>25, <2>2
  <2>4. \/ \E forwarded : Switch!UpdateInput(m, on, long, over)
                            = Switch!Pressed(d, forwarded)
        \/ Switch!UpdateInput(m, on, long, over) = Switch!Held(d, long)
        \/ \E forwarded : Switch!UpdateInput(m, on, long, over)
                            = Switch!Released(d, long, forwarded)
        \/ Switch!UpdateInput(m, on, long, over) = d
    BY Zenon DEF Switch!UpdateInput, d, p
  <2> QED
    BY <1>5, <2>2, <2>3, <2>4
\* A pass of the control loop
<1>27. ASSUME NEW m, Shaped(m)
       PROVE  /\ \A state, web : Keeps(m, Switch!To(m, state, web).machine)
              /\ \A cut, over, state : Keeps(m, Switch!End(m, cut, over, state).machine)
              /\ \A web : Keeps(m, Switch!BeginBrew(m, web).machine)
              /\ \A state, web :
                    Keeps(m, Switch!To(Switch!BeginRinse(m), state, web).machine)
  <2>1. \A n, state, web : Switch!To(n, state, web).machine = n
    BY DEF Switch!To
  <2>2. ASSUME NEW cut, NEW over, NEW state
        PROVE  Keeps(m, Switch!End(m, cut, over, state).machine)
    <3> DEFINE rinse == v2.state = "RINSE"
               n == Switch!Finalize(m, rinse, cut, over)
    <3> HIDE DEF rinse
    <3>1. Keeps(m, n)
      BY <1>24, <1>27
    <3>2. Switch!End(m, cut, over, state) = Switch!To(n, state, FALSE)
      BY Zenon DEF Switch!End, n, rinse
    <3> QED
      BY <2>1, <3>1, <3>2
  <2>3. \A web : Keeps(m, Switch!BeginBrew(m, web).machine)
    BY <1>23, <1>27, <2>1 DEF Switch!BeginBrew
  <2> QED
    BY <1>5, <1>23, <1>27, <2>1, <2>2, <2>3
<1>28. ASSUME Shaped(v1), NEW blocked, NEW ends, NEW over
       PROVE  Keeps(v1, Switch!StatePass(blocked, ends, over).machine)
  <2> DEFINE pass == Switch!StatePass(blocked, ends, over)
             untripped == [v1 EXCEPT !.tripped = FALSE]
             settled == Switch!Seen(v1, [idle |-> FALSE])
  <2>1. Untouched(v1, untripped) /\ Untouched(v1, settled)
    BY <1>6, <1>7, <1>28
  <2>2. \/ \E state, web : pass = Switch!To(v1, state, web)
        \/ \E cut, state : pass = Switch!End(v1, cut, over, state)
        \/ \E state, web : pass = Switch!To(untripped, state, web)
        \/ \E cut, state : pass = Switch!End(untripped, cut, over, state)
        \/ \E cut, state : pass = Switch!End(settled, cut, over, state)
        \/ \E web : pass = Switch!BeginBrew(v1, web)
        \/ \E state, web : pass = Switch!To(Switch!BeginRinse(v1), state, web)
    <3> DEFINE stay == Switch!To(v1, v2.state, v2.web)
               idle == ~Switch!HasReed(v1) /\ v1.view.idle
               brewing ==
                 CASE Switch!WantsRinse ->
                        Switch!To(Switch!BeginRinse(v1), "RINSE", v2.web)
                   [] Switch!WantsStop -> Switch!End(v1, FALSE, over, "READY")
                   [] ~Switch!WantsRinse /\ ~Switch!WantsStop /\ idle ->
                        Switch!End(settled, FALSE, over, Switch!AfterHold(v1))
                   [] ~Switch!WantsRinse /\ ~Switch!WantsStop /\ ~idle /\ ends # "none" ->
                        Switch!End(v1, ends = "cut", over, Switch!AfterHold(v1))
                   [] OTHER -> stay
               moving ==
                 CASE v2.state = "REQUIRES_OFF" ->
                        Switch!To(v1, Switch!AfterHold(v1), FALSE)
                   [] v2.state = "READY" /\ Switch!WantsStart /\ ~blocked ->
                        Switch!BeginBrew(v1, FALSE)
                   [] v2.state = "READY" /\ Switch!WantsRinse /\ ~blocked ->
                        Switch!To(Switch!BeginRinse(v1), "RINSE", FALSE)
                   [] v2.state = "RINSE" /\ ends = "other" ->
                        Switch!End(v1, FALSE, over, Switch!AfterHold(v1))
                   [] v2.state = "BREW" -> brewing
                   [] OTHER -> stay
    <3>1. \/ brewing = stay
          \/ brewing = Switch!To(Switch!BeginRinse(v1), "RINSE", v2.web)
          \/ \E cut, state : brewing = Switch!End(v1, cut, over, state)
          \/ \E cut, state : brewing = Switch!End(settled, cut, over, state)
      <4>1. Switch!WantsStop => ~Switch!WantsRinse
        BY DEF Switch!WantsStop
      <4> HIDE DEF stay, idle, settled
      <4>2. CASE Switch!WantsRinse
        <5>1. brewing = Switch!To(Switch!BeginRinse(v1), "RINSE", v2.web)
          BY <4>1, <4>2, Zenon DEF brewing
        <5> QED
          BY <5>1, Zenon
      <4>3. CASE Switch!WantsStop
        <5>1. brewing = Switch!End(v1, FALSE, over, "READY")
          BY <4>1, <4>3, Zenon DEF brewing
        <5> QED
          BY <5>1, Zenon
      <4>4. CASE ~Switch!WantsRinse /\ ~Switch!WantsStop /\ idle
        <5>1. brewing = Switch!End(settled, FALSE, over, Switch!AfterHold(v1))
          BY <4>4, Zenon DEF brewing
        <5> QED
          BY <5>1, Zenon
      <4>5. CASE ~Switch!WantsRinse /\ ~Switch!WantsStop /\ ~idle /\ ends # "none"
        <5> DEFINE cut == ends = "cut"
        <5> HIDE DEF cut
        <5>1. brewing = Switch!End(v1, cut, over, Switch!AfterHold(v1))
          BY <4>5, Zenon DEF brewing, cut
        <5> QED
          BY <5>1, Zenon
      <4>6. CASE ~Switch!WantsRinse /\ ~Switch!WantsStop /\ ~idle /\ ~(ends # "none")
        <5>1. brewing = stay
          BY <4>6, Zenon DEF brewing
        <5> QED
          BY <5>1, Zenon
      <4> HIDE DEF brewing
      <4> QED
        BY <4>2, <4>3, <4>4, <4>5, <4>6, Zenon
    <3>2. \/ moving = stay \/ moving = brewing
          \/ \E state : moving = Switch!To(v1, state, FALSE)
          \/ moving = Switch!BeginBrew(v1, FALSE)
          \/ moving = Switch!To(Switch!BeginRinse(v1), "RINSE", FALSE)
          \/ \E cut, state : moving = Switch!End(v1, cut, over, state)
      <4>1. Switch!WantsStart => ~Switch!WantsRinse
        BY DEF Switch!WantsStart
      <4> DEFINE due == v2.state = "REQUIRES_OFF"
                 starts == v2.state = "READY" /\ Switch!WantsStart /\ ~blocked
                 rinses == v2.state = "READY" /\ Switch!WantsRinse /\ ~blocked
                 ended == v2.state = "RINSE" /\ ends = "other"
                 runs == v2.state = "BREW"
      <4>2. /\ due => ~starts /\ ~rinses /\ ~ended /\ ~runs
            /\ starts => ~rinses /\ ~ended /\ ~runs
            /\ rinses => ~ended /\ ~runs
            /\ ended => ~runs
        BY <4>1
      <4>3. moving = CASE due -> Switch!To(v1, Switch!AfterHold(v1), FALSE)
                       [] starts -> Switch!BeginBrew(v1, FALSE)
                       [] rinses -> Switch!To(Switch!BeginRinse(v1), "RINSE", FALSE)
                       [] ended -> Switch!End(v1, FALSE, over, Switch!AfterHold(v1))
                       [] runs -> brewing
                       [] OTHER -> stay
        OBVIOUS
      <4> HIDE DEF stay, brewing, moving, due, starts, rinses, ended, runs
      <4>4. CASE due
        <5>1. moving = Switch!To(v1, Switch!AfterHold(v1), FALSE)
          BY <4>2, <4>3, <4>4, Zenon
        <5> QED
          BY <5>1, Zenon
      <4>5. CASE starts
        BY <4>2, <4>3, <4>5, Zenon
      <4>6. CASE rinses
        BY <4>2, <4>3, <4>6, Zenon
      <4>7. CASE ended
        <5>1. moving = Switch!End(v1, FALSE, over, Switch!AfterHold(v1))
          BY <4>2, <4>3, <4>7, Zenon
        <5> QED
          BY <5>1, Zenon
      <4>8. CASE runs
        BY <4>2, <4>3, <4>8, Zenon
      <4>9. CASE ~due /\ ~starts /\ ~rinses /\ ~ended /\ ~runs
        BY <4>3, <4>9, Zenon
      <4> QED
        BY <4>4, <4>5, <4>6, <4>7, <4>8, <4>9, Zenon
    <3>3. \/ pass = moving
          \/ \E state, web : pass = Switch!To(untripped, state, web)
          \/ \E cut, state : pass = Switch!End(untripped, cut, over, state)
          \/ \E cut, state : pass = Switch!End(v1, cut, over, state)
      <4> HIDE DEF untripped
      <4> QED
        BY Zenon
           DEF Switch!StatePass, moving, brewing, stay, idle, settled, pass,
               untripped
    <3> HIDE DEF moving, brewing, pass, untripped, settled
    <3> QED
      BY <3>1, <3>2, <3>3, Zenon DEF stay
  <2> HIDE DEF pass, untripped, settled
  <2>3. Keeps(v1, pass.machine)
    BY <1>5, <1>27, <1>28, <2>1, <2>2
  <2> QED
    BY <2>3 DEF pass
<1>29. ASSUME NEW m, Shaped(m), NEW active PROVE Keeps(m, Switch!Outcome(m, active))
  <2> DEFINE a == [m EXCEPT !.run = FALSE]
             b == [a EXCEPT !.gesture = FALSE]
  <2>1. Untouched(m, a)
    BY <1>6, <1>29
  <2> HIDE DEF a
  <2>2. Untouched(m, b)
    BY <1>5, <1>6, <2>1
  <2> HIDE DEF b
  <2>3. Untouched(m, Switch!NoteStartCanceled(b))
    BY <1>5, <1>9, <2>2
  <2>4. \/ Switch!Outcome(m, active) = m
        \/ Switch!Outcome(m, active) = Switch!NoteStartCanceled(b)
    BY Zenon DEF Switch!Outcome, a, b
  <2> QED
    BY <1>5, <1>29, <2>3, <2>4
<1>30. ASSUME NEW m, Shaped(m), NEW s, NEW command, NEW over
       PROVE  Keeps(m, Switch!Obey(m, s, command, over).machine)
  <2> DEFINE obeyed == Switch!Obey(m, s, command, over)
             a == [m EXCEPT !.skip = FALSE]
             asked == Switch!Reason(a)
             off == Switch!SettleOff(m)
             Ended(x) == Switch!To(Switch!Finalize(x, s.state = "RINSE", FALSE, over),
                                   Switch!AfterHold(x), FALSE)
             on == Switch!Seen(Switch!Confirmed(m),
                               [orphan |-> FALSE, cut |-> FALSE, armed |-> FALSE,
                                retry |-> FALSE, idle |-> FALSE])
  <2>1. Untouched(m, a)
    BY <1>6, <1>30
  <2> HIDE DEF a
  <2>2. Untouched(m, asked) /\ Untouched(m, off) /\ Untouched(m, on)
    BY <1>5, <1>7, <1>8, <1>9, <1>30, <2>1
  <2>3. \A n, state, web : Switch!To(n, state, web).machine = n
    BY DEF Switch!To
  <2>4. ASSUME NEW n, Untouched(m, n) PROVE Keeps(m, Ended(n).machine)
    <3> DEFINE rinse == s.state = "RINSE"
               ended == Switch!Finalize(n, rinse, FALSE, over)
    <3> HIDE DEF rinse
    <3>1. Keeps(m, ended)
      BY <1>5, <1>24, <2>4
    <3>2. Ended(n) = Switch!To(ended, Switch!AfterHold(n), FALSE)
      BY Zenon DEF Ended, ended, rinse
    <3> HIDE DEF Ended, ended
    <3> QED
      BY <2>3, <3>1, <3>2
  <2>5. \A state, web :
           Keeps(m, Switch!To(Switch!RequestStop(asked, over), state, web).machine)
    <3> HIDE DEF asked
    <3> QED
      BY <1>5, <1>23, <2>2, <2>3
  <2>6. \/ obeyed = Ended(asked) \/ obeyed = Ended(off)
        \/ \E state, web :
              \/ obeyed = Switch!To(Switch!RequestStop(asked, over), state, web)
              \/ obeyed = Switch!To(Switch!BeginRinse(m), state, web)
              \/ obeyed = Switch!To(off, state, web)
              \/ obeyed = Switch!To(on, state, web)
              \/ obeyed = Switch!To(m, state, web)
        \/ \E web : obeyed = Switch!BeginBrew(m, web)
    BY Zenon DEF Switch!Obey, a
  <2> HIDE DEF obeyed, asked, off, on
  <2>7. Keeps(m, Ended(asked).machine) /\ Keeps(m, Ended(off).machine)
    BY <2>2, <2>4
  <2> HIDE DEF Ended
  <2>8. Keeps(m, off) /\ Keeps(m, on)
    BY <1>5, <2>2
  <2>9. Keeps(m, obeyed.machine)
    BY <1>27, <1>30, <2>3, <2>5, <2>6, <2>7, <2>8
  <2> QED
    BY <2>9 DEF obeyed
<1>31. ASSUME K1Explained, [Switch!MomentaryNext]_Switch!momentaryVars PROVE K1Explained'
  <2>1. Shaped(v1) /\ (v3 # "service" => Explained(v1))
    BY <1>31 DEF K1Explained
  <2>2. ASSUME NEW on \in BOOLEAN, NEW long, NEW allowed, NEW reed, NEW over,
               Switch!Input(on, long, allowed, reed, over)
        PROVE  K1Explained'
    <3> DEFINE a == [v1 EXCEPT !.allowed = allowed]
               b == Switch!SampleReed(a, reed)
    <3>1. Shaped(a)
      BY <1>5, <1>6, <2>1
    <3> HIDE DEF a
    <3>2. Shaped(b)
      BY <1>5, <1>10, <3>1
    <3> HIDE DEF b
    <3>3. /\ Shaped(Switch!UpdateInput(b, on, long, over))
          /\ Forwarding(Switch!UpdateInput(b, on, long, over))
      BY <1>26, <3>2
    <3>4. v1' = Switch!UpdateInput(b, on, long, over) /\ v3' = "service"
      BY <2>2, Zenon DEF Switch!Input, a, b
    <3>5. Shaped(v1') /\ Forwarding(v1')
      BY <3>3, <3>4
    <3> QED
      BY <3>4, <3>5 DEF K1Explained, Shaped, Forwarding, Switch!Closed
  <2>3. ASSUME NEW reading, NEW wall, NEW over, Switch!Service(reading, wall, over)
        PROVE  K1Explained'
    <3> DEFINE a == Switch!Sense(v1, reading, Switch!Active)
               b == Switch!Drive(a, over)
               c == Switch!RetryStop(Switch!Wall(b, wall))
    <3>1. Shaped(a)
      BY <1>5, <1>11, <2>1
    <3> HIDE DEF a
    <3>2. Shaped(b) /\ Explained(b)
      BY <1>5, <1>16, <3>1
    <3> HIDE DEF b
    <3>3. Keeps(b, c)
      BY <1>5, <1>21, <1>22, <3>2
    <3>4. v1' = c /\ v3' = "control"
      BY <2>3, Zenon DEF Switch!Service, a, b
    <3> HIDE DEF c
    <3>5. Shaped(v1') /\ Explained(v1')
      BY <3>2, <3>3, <3>4 DEF Keeps
    <3> QED
      BY <3>4, <3>5 DEF K1Explained, Shaped, Explained, Switch!Closed
  <2>4. ASSUME NEW blocked, NEW ends, NEW command, NEW over,
               Switch!Control(blocked, ends, command, over)
        PROVE  K1Explained'
    <3> DEFINE passed == Switch!StatePass(blocked, ends, over)
               after == Switch!Outcome(passed.machine,
                                       passed.session.state \in {"BREW", "RINSE"})
               obeyed == Switch!Obey(after, passed.session, command, over)
               a == [obeyed.machine EXCEPT !.edges = {}]
               b == [a EXCEPT !.allowed = TRUE]
    <3>1. v3 = "control" /\ v1' = b /\ v3' = "input"
      BY <2>4, Zenon DEF Switch!Control
    <3>2. Keeps(v1, passed.machine)
      BY <1>28, <2>1
    <3> HIDE DEF passed
    <3>3. Keeps(v1, after)
      BY <1>5, <1>29, <3>2
    <3> HIDE DEF after
    <3>4. Keeps(v1, obeyed.machine)
      <4>1. Shaped(after)
        BY <1>5, <3>3
      <4>2. Keeps(after, obeyed.machine)
        BY <1>30, <4>1
      <4> QED
        BY <1>5, <3>3, <4>2
    <3> HIDE DEF obeyed
    <3>5. Keeps(v1, a)
      <4>1. Untouched(obeyed.machine, a)
        BY <1>5, <1>6, <3>4
      <4> QED
        BY <1>5, <3>4, <4>1
    <3> HIDE DEF a
    <3>6. Keeps(v1, b)
      <4>1. Untouched(a, b)
        BY <1>5, <1>6, <3>5
      <4> QED
        BY <1>5, <3>5, <4>1
    <3> HIDE DEF b
    <3>7. Shaped(v1') /\ Explained(v1')
      BY <2>1, <3>1, <3>6 DEF Keeps
    <3> QED
      BY <3>1, <3>7 DEF K1Explained, Shaped, Explained, Switch!Closed
  <2>5. CASE Switch!Timer
    <3>1. v1' = Switch!Trip(v1) /\ v3' = v3
      BY <2>5 DEF Switch!Timer
    <3>2. Shaped(v1') /\ ~Switch!Closed(v1')
      BY <1>12, <2>1, <3>1
    <3> QED
      BY <3>1, <3>2
         DEF K1Explained, Shaped, Explained, Forwarding, Switch!Closed
  <2>6. CASE UNCHANGED Switch!momentaryVars
    BY <1>31, <2>6 DEF Switch!momentaryVars, K1Explained, Shaped, Explained, Forwarding,
       Switch!Closed
  <2> QED
    BY <1>31, <2>2, <2>3, <2>4, <2>5, <2>6, Zenon DEF Switch!MomentaryNext
<1>32. Switch!MomentaryInit => K1Explained
  <2> SUFFICES ASSUME Switch!MomentaryInit PROVE K1Explained
    OBVIOUS
  <2>1. PICK view :
           v1 = [relay |-> "OPEN", tripped |-> FALSE, phys |-> FALSE, gesture |-> FALSE,
                 pre |-> Switch!NoPress, fromIdle |-> FALSE, rinseSent |-> FALSE,
                 edges |-> {}, skip |-> FALSE, run |-> FALSE, pulse |-> FALSE,
                 allowed |-> TRUE, suppressed |-> FALSE, rinsing |-> FALSE,
                 given |-> <<>>, view |-> view]
    BY Zenon DEF Switch!MomentaryInit
  <2>2. v1.relay = "OPEN" /\ Shaped(v1)
    BY <2>1 DEF Shaped
  <2>3. v3 = "input"
    BY DEF Switch!MomentaryInit
  <2> QED
    BY <2>2, <2>3 DEF K1Explained, Explained, Switch!Closed
<1>33. K1Explained => Switch!ClosedIsExplained
  BY DEF K1Explained, Explained, Forwarding, Switch!ClosedIsExplained
<1> DEFINE Kept == subject = "switch" => K1Explained
<1>34. Init => Kept
  BY <1>1, <1>32
<1>35. Kept /\ [Next]_vars => Kept'
  BY <1>2, <1>3, <1>4, <1>31
<1>36. Kept => ClosedIsExplained
  BY <1>33 DEF ClosedIsExplained
<1> QED
  BY <1>34, <1>35, <1>36, PTL DEF Spec

\* One stop toggles the group once: whatever becomes of the press, the pulse, the retry, the
\* limits, the end of a rinse and the web commands, between two reasons to switch the group
\* no second toggle follows the first (requestMachineStop, emitFirmwarePulse, the retry of a
\* stop that is not seen in the weight and the logical run walls).
THEOREM StopsOnceHolds == Spec => []StopsOnce
\* What a pulse may be given after
<1>0. /\ \A why \in {"wall", "stop", "rinse"} :
            Append(<<>>, why) = <<why>> /\ <<why>> \in Toggles
      /\ Append(<<"wall">>, "rinse") = <<"wall", "rinse">>
      /\ <<"wall", "rinse">> \in Toggles /\ <<>> \in Toggles
  <2>1. ASSUME NEW why \in {"wall", "stop", "rinse"}
        PROVE  Append(<<>>, why) = <<why>> /\ <<why>> \in Toggles
    <3>1. <<why>> \in Toggles
      BY <2>1 DEF Toggles
    <3>2. Append(<<>>, why) = <<why>>
      BY <2>1
    <3> QED
      BY <3>1, <3>2
  <2>2. Append(<<"wall">>, "rinse") = <<"wall", "rinse">>
    <3> DEFINE S == {"wall", "rinse"}
               one == <<"wall">>
               two == <<"wall", "rinse">>
    <3>1. one \in Seq(S)
      OBVIOUS
    <3>2. Len(one) = 1
      OBVIOUS
    <3>3. one[1] = "wall"
      OBVIOUS
    <3>4. two \in Seq(S)
      OBVIOUS
    <3>5. Len(two) = 2
      OBVIOUS
    <3>6. two[1] = "wall"
      OBVIOUS
    <3>7. two[2] = "rinse"
      OBVIOUS
    <3> HIDE DEF one, two
    <3>8. Append(one, "rinse") = two
      BY <3>1, <3>2, <3>3, <3>4, <3>5, <3>6, <3>7
    <3> QED
      BY <3>8 DEF one, two
  <2>3. <<"wall", "rinse">> \in Toggles /\ <<>> \in Toggles
    BY DEF Toggles
  <2> QED
    BY <2>1, <2>2, <2>3
<1>1. Init /\ subject = "switch" => Switch!MomentaryInit
  BY SubjectStays
<1>2. [Next]_vars /\ subject = "switch" => [Switch!MomentaryNext]_Switch!momentaryVars
  BY SubjectStays
<1>3. [Next]_vars /\ subject = "switch" => (subject = "switch")'
  BY SubjectStays
<1>4. [Next]_vars /\ ~(subject = "switch") => ~(subject = "switch")'
  BY SubjectStays
<1>5. ASSUME NEW m, Formed(m), NEW f, "kind" \notin DOMAIN f
      PROVE  LET n == Switch!Seen(m, f)
             IN  /\ Formed(n) /\ SameBuild(m, n) /\ Alters(m, n, {"view"})
                 /\ \A k \in DOMAIN m.view :
                      n.view[k] = IF k \in DOMAIN f THEN f[k] ELSE m.view[k]
  BY <1>5 DEF Switch!Seen, Formed, SameBuild, Alters, MachineFields, Switch!HasReed
\* The notes of the control code
<1>6. ASSUME NEW m, Formed(m)
      PROVE  LET n == Switch!SettleOff(m)
             IN  /\ Noted(m, n) /\ n.run = FALSE /\ n.given = m.given
                 /\ Calm(n) /\ Uncut(n)
                 /\ ~Switch!HasReed(n) => ~n.view.stopAck
  <2> DEFINE o == [m EXCEPT !.run = FALSE]
  <2>1. Formed(o) /\ SameBuild(m, o) /\ Alters(m, o, {"run"}) /\ o.run = FALSE
    BY <1>6 DEF Formed, SameBuild, Alters, MachineFields, Switch!HasReed
  <2> HIDE DEF o
  <2>2. Switch!SettleOff(m) = Switch!Seen(o, Switch!SettledOff)
    BY DEF Switch!SettleOff, o
  <2>3. /\ "kind" \notin DOMAIN Switch!SettledOff
        /\ {"state", "stopAck", "retry", "cut"} \subseteq DOMAIN Switch!SettledOff
        /\ Switch!SettledOff.retry = FALSE /\ Switch!SettledOff.cut = FALSE
        /\ Switch!SettledOff.stopAck = FALSE
    BY DEF Switch!SettledOff
  <2> QED
    BY <1>5, <1>6, <2>1, <2>2, <2>3
       DEF Noted, Formed, SameBuild, Alters, MachineFields, Calm, Uncut, Switch!HasReed
<1>7. ASSUME NEW m, Formed(m)
      PROVE  LET n == Switch!NoteStart(m)
             IN  /\ Noted(m, n) /\ n.run = m.run /\ n.given = <<>> /\ Calm(n) /\ Uncut(n)
                 /\ ~Switch!HasReed(n) => ~n.view.stopAck
  <2> DEFINE reed == [issued |-> FALSE, assume |-> IF m.view.reed THEN "none" ELSE "on"]
             scale == [scale |-> m.view.scale \/ m.view.fresh]
             start == [Switch!SettledOff EXCEPT !.state = "ASSUMED_ON", !.startAck = TRUE]
             n == IF Switch!HasReed(m) THEN Switch!Seen(m, reed)
                  ELSE Switch!Seen(Switch!Seen(m, scale), start)
  <2>1. Switch!NoteStart(m) = [n EXCEPT !.given = <<>>]
    BY Zenon DEF Switch!NoteStart, Switch!Reason
  <2>2. /\ "kind" \notin DOMAIN reed /\ "kind" \notin DOMAIN scale
        /\ "kind" \notin DOMAIN start
        /\ {"state", "stopAck", "retry", "cut"} \subseteq DOMAIN start
        /\ start.retry = FALSE /\ start.cut = FALSE /\ start.stopAck = FALSE
    BY DEF Switch!SettledOff
  <2> HIDE DEF reed, scale, start
  <2>3. /\ Formed(n) /\ SameBuild(m, n) /\ Alters(m, n, {"view"})
        /\ ~Switch!HasReed(m) => n.view.retry = FALSE /\ n.view.cut = FALSE
                                 /\ n.view.stopAck = FALSE
    <3>1. CASE Switch!HasReed(m)
      BY <1>5, <1>7, <2>2, <3>1
    <3>2. CASE ~Switch!HasReed(m)
      <4> DEFINE o == Switch!Seen(m, scale)
      <4>1. Formed(o) /\ SameBuild(m, o) /\ Alters(m, o, {"view"})
        BY <1>5, <1>7, <2>2
      <4> HIDE DEF o
      <4>2. n = Switch!Seen(o, start)
        BY <3>2 DEF o
      <4>3. /\ Formed(n) /\ SameBuild(o, n) /\ Alters(o, n, {"view"})
            /\ \A k \in DOMAIN o.view :
                 n.view[k] = IF k \in DOMAIN start THEN start[k] ELSE o.view[k]
        BY <1>5, <2>2, <4>1, <4>2
      <4> HIDE DEF n
      <4> QED
        BY <2>2, <3>2, <4>1, <4>3
           DEF Formed, SameBuild, Alters, MachineFields, Switch!HasReed
    <3> QED
      BY <3>1, <3>2
  <2> HIDE DEF n
  <2> QED
    BY <2>1, <2>3
       DEF Noted, Formed, SameBuild, Alters, MachineFields, Calm, Uncut, Switch!HasReed
<1>8. ASSUME NEW m, Formed(m)
      PROVE  LET n == Switch!NoteStop(m)
             IN  /\ Noted(m, n) /\ n.run = m.run /\ n.given = m.given
                 /\ ~Switch!HasReed(m) /\ n.view.retry => n = m
                 /\ ~Switch!HasReed(m) =>
                      n.view.state \in {"CONFIRMED_OFF", "ASSUMED_OFF", "UNKNOWN"}
  <2> DEFINE v == m.view
             reed == [issued |-> TRUE, assume |-> IF v.reed THEN "off" ELSE "none"]
             stop == [retry |-> FALSE, startAck |-> FALSE, stopAck |-> v.fresh,
                      settling |-> v.fresh \/ v.armed,
                      state |-> CASE v.fresh \/ v.armed -> "ASSUMED_OFF"
                                  [] ~v.fresh /\ ~v.armed /\ v.scale -> "UNKNOWN"
                                  [] OTHER -> "CONFIRMED_OFF"]
             n == Switch!NoteStop(m)
  <2>1. \/ n = m /\ (Switch!HasReed(m) \/ v.state = "CONFIRMED_OFF")
        \/ Switch!HasReed(m) /\ n = Switch!Seen(m, reed)
        \/ ~Switch!HasReed(m) /\ n = Switch!Seen(m, stop)
    BY Zenon DEF Switch!NoteStop
  <2>2. /\ "kind" \notin DOMAIN reed /\ "kind" \notin DOMAIN stop
        /\ DOMAIN stop = {"retry", "startAck", "stopAck", "settling", "state"}
        /\ stop.retry = FALSE
        /\ stop.state \in {"CONFIRMED_OFF", "ASSUMED_OFF", "UNKNOWN"}
    OBVIOUS
  <2> HIDE DEF v, reed, stop, n
  <2>3. CASE n = m /\ (Switch!HasReed(m) \/ v.state = "CONFIRMED_OFF")
    BY <1>8, <2>3
       DEF Noted, Formed, SameBuild, Alters, MachineFields, Switch!HasReed, n, v
  <2>4. CASE Switch!HasReed(m) /\ n = Switch!Seen(m, reed)
    <3>1. Formed(n) /\ SameBuild(m, n) /\ Alters(m, n, {"view"})
      BY <1>5, <1>8, <2>2, <2>4
    <3> QED
      BY <2>4, <3>1
         DEF Noted, SameBuild, Alters, MachineFields, Calm, Uncut, Switch!HasReed, n
  <2>5. CASE ~Switch!HasReed(m) /\ n = Switch!Seen(m, stop)
    <3>1. /\ Formed(n) /\ SameBuild(m, n) /\ Alters(m, n, {"view"})
          /\ \A k \in DOMAIN m.view :
               n.view[k] = IF k \in DOMAIN stop THEN stop[k] ELSE m.view[k]
      <4> DEFINE o == Switch!Seen(m, stop)
      <4>1. /\ Formed(o) /\ SameBuild(m, o) /\ Alters(m, o, {"view"})
            /\ \A k \in DOMAIN m.view :
                 o.view[k] = IF k \in DOMAIN stop THEN stop[k] ELSE m.view[k]
        BY <1>5, <1>8, <2>2
      <4>2. n = o
        BY <2>5
      <4> HIDE DEF o
      <4> QED
        BY <4>1, <4>2, Zenon
    <3>2. Calm(n)
      BY <1>8, <2>2, <2>5, <3>1 DEF Formed, Calm
    <3>3. Uncut(m) => Uncut(n)
      BY <1>8, <2>2, <2>5, <3>1 DEF Formed, SameBuild, Uncut, Switch!HasReed
    <3>4. Alters(m, n, {"run", "given", "view"})
      BY <3>1 DEF Alters
    <3>5. n.run = m.run /\ n.given = m.given
      BY <3>1 DEF Alters, MachineFields
    <3>6. n.view.retry = FALSE /\ n.view.state = stop.state
      BY <1>8, <2>2, <2>5, <3>1 DEF Formed
    <3> QED
      BY <2>2, <3>1, <3>2, <3>3, <3>4, <3>5, <3>6 DEF Noted, n
  <2> QED
    BY <2>1, <2>3, <2>4, <2>5 DEF n
<1>9. ASSUME NEW m, Formed(m), NEW f, "kind" \notin DOMAIN f, "cut" \notin DOMAIN f,
             ~Switch!HasReed(m) => /\ {"stopAck", "retry"} \subseteq DOMAIN f
                                   /\ f.stopAck = FALSE /\ f.retry = FALSE
      PROVE  LET n == Switch!Reason(Switch!Seen(m, f))
             IN  /\ Noted(m, n) /\ n.run = m.run /\ n.given = <<>> /\ Calm(n)
                 /\ ~Switch!HasReed(n) => ~n.view.stopAck
  <2> DEFINE s == Switch!Seen(m, f)
  <2>1. /\ Formed(s) /\ SameBuild(m, s) /\ Alters(m, s, {"view"})
        /\ \A k \in DOMAIN m.view : s.view[k] = IF k \in DOMAIN f THEN f[k] ELSE m.view[k]
    BY <1>5, <1>9
  <2> HIDE DEF s
  <2>2. Switch!Reason(Switch!Seen(m, f)) = [s EXCEPT !.given = <<>>]
    BY DEF Switch!Reason, s
  <2> QED
    BY <1>9, <2>1, <2>2
       DEF Noted, Formed, SameBuild, Alters, MachineFields, Calm, Uncut, Switch!HasReed
<1>10. ASSUME NEW m, Formed(m)
       PROVE  LET n == Switch!NoteStartCanceled(m)
              IN  /\ Noted(m, n) /\ n.run = m.run /\ n.given = <<>> /\ Calm(n)
                  /\ ~Switch!HasReed(n) => ~n.view.stopAck
  <2> DEFINE reed == [issued |-> FALSE, assume |-> "none"]
             weight == [had |-> FALSE, stopAck |-> FALSE, retry |-> FALSE,
                        startAck |-> FALSE, orphan |-> FALSE, settling |-> FALSE,
                        idle |-> FALSE, state |-> "CONFIRMED_OFF"]
  <2>1. /\ "kind" \notin DOMAIN reed /\ "cut" \notin DOMAIN reed
        /\ "kind" \notin DOMAIN weight /\ "cut" \notin DOMAIN weight
        /\ {"stopAck", "retry"} \subseteq DOMAIN weight
        /\ weight.stopAck = FALSE /\ weight.retry = FALSE
    OBVIOUS
  <2>2. Switch!NoteStartCanceled(m) =
          (IF Switch!HasReed(m) THEN Switch!Reason(Switch!Seen(m, reed))
           ELSE Switch!Reason(Switch!Seen(m, weight)))
    BY Zenon DEF Switch!NoteStartCanceled
  <2> HIDE DEF reed, weight
  <2> QED
    BY <1>9, <1>10, <2>1, <2>2
<1>11. ASSUME NEW m, Formed(m), NEW restore, NEW pre
       PROVE  LET n == Switch!NoteDisqualified(m, restore, pre)
              IN  /\ Noted(m, n) /\ n.run = m.run /\ n.given = <<>> /\ Calm(n)
                  /\ ~Switch!HasReed(n) => ~n.view.stopAck
  <2> DEFINE reed == [issued |-> FALSE, assume |-> IF restore THEN "grace_on" ELSE "grace_off"]
             weight == [stopAck |-> FALSE, retry |-> FALSE, startAck |-> FALSE,
                        orphan |-> FALSE, settling |-> FALSE,
                        state |-> IF pre = "CONFIRMED_OFF" THEN "ASSUMED_ON" ELSE pre]
             noted == Switch!NoteStartCanceled(m)
  <2>1. /\ "kind" \notin DOMAIN reed /\ "cut" \notin DOMAIN reed
        /\ "kind" \notin DOMAIN weight /\ "cut" \notin DOMAIN weight
        /\ {"stopAck", "retry"} \subseteq DOMAIN weight
        /\ weight.stopAck = FALSE /\ weight.retry = FALSE
    OBVIOUS
  <2>2. \/ /\ Switch!HasReed(m)
           /\ Switch!NoteDisqualified(m, restore, pre) = Switch!Reason(Switch!Seen(m, reed))
        \/ /\ ~Switch!HasReed(m)
           /\ Switch!NoteDisqualified(m, restore, pre) = Switch!Reason(Switch!Seen(m, weight))
        \/ Switch!NoteDisqualified(m, restore, pre) = Switch!Reason(noted)
    BY Zenon DEF Switch!NoteDisqualified
  <2> HIDE DEF reed, weight, noted
  <2>3. CASE Switch!HasReed(m) /\ Switch!NoteDisqualified(m, restore, pre)
                                   = Switch!Reason(Switch!Seen(m, reed))
    BY <1>9, <1>11, <2>1, <2>3
  <2>4. CASE ~Switch!HasReed(m) /\ Switch!NoteDisqualified(m, restore, pre)
                                    = Switch!Reason(Switch!Seen(m, weight))
    BY <1>9, <1>11, <2>1, <2>4
  <2>5. CASE Switch!NoteDisqualified(m, restore, pre) = Switch!Reason(noted)
    <3>1. /\ Noted(m, noted) /\ noted.run = m.run /\ noted.given = <<>> /\ Calm(noted)
          /\ ~Switch!HasReed(noted) => ~noted.view.stopAck
      BY <1>10, <1>11 DEF noted
    <3>2. Switch!NoteDisqualified(m, restore, pre) = [noted EXCEPT !.given = <<>>]
      BY <2>5 DEF Switch!Reason
    <3> QED
      BY <3>1, <3>2
         DEF Noted, Formed, SameBuild, Alters, MachineFields, Calm, Uncut, Switch!HasReed
  <2> QED
    BY <2>2, <2>3, <2>4, <2>5
<1>12. ASSUME NEW m, Formed(m)
       PROVE  LET n == Switch!Confirmed(m)
              IN  /\ Noted(m, n) /\ n.run = TRUE /\ n.given = <<>>
                  /\ ~Switch!HasReed(n) => ~n.view.stopAck
  <2> DEFINE o == [m EXCEPT !.run = TRUE]
             f == [had |-> TRUE, coffee |-> TRUE, settling |-> FALSE, stopAck |-> FALSE,
                   startAck |-> FALSE, state |-> "CONFIRMED_ON"]
             s == Switch!Seen(o, f)
  <2>1. Formed(o) /\ SameBuild(m, o) /\ Alters(m, o, {"run"}) /\ o.run = TRUE
    BY <1>12 DEF Formed, SameBuild, Alters, MachineFields, Switch!HasReed
  <2>2. /\ DOMAIN f = {"had", "coffee", "settling", "stopAck", "startAck", "state"}
        /\ f.stopAck = FALSE
    OBVIOUS
  <2>3. Switch!Confirmed(m) = [s EXCEPT !.given = <<>>]
    BY Zenon DEF Switch!Confirmed, Switch!Reason
  <2> HIDE DEF o, f
  <2>4. /\ Formed(s) /\ SameBuild(o, s) /\ Alters(o, s, {"view"})
        /\ \A k \in DOMAIN o.view : s.view[k] = IF k \in DOMAIN f THEN f[k] ELSE o.view[k]
    BY <1>5, <2>1, <2>2
  <2> HIDE DEF s
  <2> QED
    BY <1>12, <2>1, <2>2, <2>3, <2>4
       DEF Noted, Formed, SameBuild, Alters, MachineFields, Calm, Uncut, Switch!HasReed
\* The sensors
<1>13. /\ \A m : Tallied(m) => Sensed(m, m)
       /\ \A m, n, o : Sensed(m, n) /\ Sensed(n, o) => Sensed(m, o)
       /\ \A m, n : Sensed(m, n) => Tallied(n) /\ (Switch!HasReed(n) <=> Switch!HasReed(m))
       /\ \A m : Calm(m) => Owed(m)
  <2>1. ASSUME NEW m, Tallied(m) PROVE Sensed(m, m)
    BY <2>1 DEF Sensed, Tallied, Formed, SameBuild, Alters
  <2>2. ASSUME NEW m, NEW n, NEW o, Sensed(m, n), Sensed(n, o) PROVE Sensed(m, o)
    BY <2>2 DEF Sensed, SameBuild, Alters, MachineFields
  <2>3. ASSUME NEW m, NEW n, Sensed(m, n)
        PROVE  Tallied(n) /\ (Switch!HasReed(n) <=> Switch!HasReed(m))
    BY <2>3 DEF Sensed, SameBuild, Switch!HasReed
  <2>4. \A m : Calm(m) => Owed(m)
    BY DEF Calm, Owed
  <2> QED
    BY <2>1, <2>2, <2>3, <2>4
<1>14. ASSUME NEW m, Tallied(m), NEW n, Noted(m, n), n.given \in {<<>>, m.given},
              n.run => n.given = <<>>,
              ~Switch!HasReed(n) /\ n.view.stopAck =>
                 n.view.state \in {"CONFIRMED_OFF", "ASSUMED_OFF", "UNKNOWN"}
       PROVE  Sensed(m, n)
  BY <1>0, <1>14 DEF Noted, Sensed, Tallied, Alters, MachineFields
<1>15. ASSUME NEW m, Tallied(m), NEW f, "kind" \notin DOMAIN f, "cut" \notin DOMAIN f
       PROVE  LET n == Switch!Seen(m, f)
              IN  /\ (~Switch!HasReed(m) /\ n.view.stopAck =>
                        n.view.state \in {"CONFIRMED_OFF", "ASSUMED_OFF", "UNKNOWN"})
                     => Sensed(m, n)
                  /\ "retry" \notin DOMAIN f => (Calm(m) => Calm(n))
                  /\ ~Switch!HasReed(m) => \A k \in {"state", "stopAck", "retry", "cut"} :
                       n.view[k] = IF k \in DOMAIN f THEN f[k] ELSE m.view[k]
  <2> DEFINE n == Switch!Seen(m, f)
  <2>1. /\ Formed(n) /\ SameBuild(m, n) /\ Alters(m, n, {"view"})
        /\ \A k \in DOMAIN m.view : n.view[k] = IF k \in DOMAIN f THEN f[k] ELSE m.view[k]
    BY <1>5, <1>15 DEF Tallied
  <2> HIDE DEF n
  <2>2. ~Switch!HasReed(m) => \A k \in {"state", "stopAck", "retry", "cut"} :
           n.view[k] = IF k \in DOMAIN f THEN f[k] ELSE m.view[k]
    BY <1>15, <2>1 DEF Tallied, Formed
  <2>3. "retry" \notin DOMAIN f => (Calm(m) => Calm(n))
    BY <2>1, <2>2 DEF Calm, SameBuild, Switch!HasReed
  <2>4. ASSUME ~Switch!HasReed(m) /\ n.view.stopAck =>
                 n.view.state \in {"CONFIRMED_OFF", "ASSUMED_OFF", "UNKNOWN"}
        PROVE  Sensed(m, n)
    BY <1>15, <2>1, <2>2, <2>4
       DEF Sensed, Tallied, Formed, SameBuild, Alters, MachineFields, Uncut, Switch!HasReed
  <2> QED
    BY <2>2, <2>3, <2>4 DEF n
<1>16. ASSUME NEW m, Tallied(m)
       PROVE  LET n == Switch!SettleOff(m) IN Sensed(m, n) /\ Calm(n)
  BY <1>6, <1>14, <1>16 DEF Tallied
<1>17. ASSUME NEW m, Tallied(m), Calm(m), ~Switch!HasReed(m)
       PROVE  /\ \A signal : LET n == Switch!AfterTare(m, signal) IN Sensed(m, n) /\ Calm(n)
              /\ \A signal : LET n == Switch!AfterQuiet(m, signal) IN Sensed(m, n) /\ Calm(n)
              /\ \A due : LET n == Switch!StaleSense(m, due) IN Sensed(m, n) /\ Calm(n)
              /\ \A signal, due :
                    LET n == Switch!AfterStop(m, signal, due) IN Sensed(m, n) /\ Owed(n)
              /\ \A event, active, drop :
                    LET n == Switch!AfterEvents(m, event, active, drop)
                    IN  Sensed(m, n) /\ Calm(n)
  <2>1. ASSUME NEW signal
        PROVE  LET n == Switch!AfterTare(m, signal) IN Sensed(m, n) /\ Calm(n)
    <3> DEFINE f == [state |-> "ASSUMED_ON"]
    <3>1. DOMAIN f = {"state"}
      OBVIOUS
    <3> HIDE DEF f
    <3>2. m.view.state = "CONFIRMED_ON" =>
            Sensed(m, Switch!Seen(m, f)) /\ Calm(Switch!Seen(m, f))
      BY <1>15, <1>17, <3>1 DEF Tallied
    <3>3. \/ Switch!AfterTare(m, signal) = m
          \/ /\ m.view.state = "CONFIRMED_ON"
             /\ Switch!AfterTare(m, signal) = Switch!Seen(m, f)
      BY Zenon DEF Switch!AfterTare, f
    <3> QED
      BY <1>13, <1>17, <3>2, <3>3
  <2>2. ASSUME NEW signal
        PROVE  LET n == Switch!AfterQuiet(m, signal) IN Sensed(m, n) /\ Calm(n)
    <3> DEFINE f == [stopAck |-> FALSE, orphan |-> FALSE, state |-> "CONFIRMED_OFF"]
    <3>1. DOMAIN f = {"stopAck", "orphan", "state"} /\ f.stopAck = FALSE
      OBVIOUS
    <3> HIDE DEF f
    <3>2. Sensed(m, Switch!Seen(m, f)) /\ Calm(Switch!Seen(m, f))
      BY <1>15, <1>17, <3>1
    <3>3. \/ Switch!AfterQuiet(m, signal) = m
          \/ Switch!AfterQuiet(m, signal) = Switch!SettleOff(m)
          \/ Switch!AfterQuiet(m, signal) = Switch!Seen(m, f)
      BY <1>17 DEF Switch!AfterQuiet, f
    <3> QED
      BY <1>13, <1>16, <1>17, <3>2, <3>3
  <2>3. ASSUME NEW due
        PROVE  LET n == Switch!StaleSense(m, due) IN Sensed(m, n) /\ Calm(n)
    <3> DEFINE v == m.view
               settling == v.settling \/ v.armed
               lost == due /\ ~settling /\ (m.run \/ v.scale \/ (v.stopAck /\ v.scale))
               state == CASE lost -> "UNKNOWN"
                          [] ~lost /\ v.state = "CONFIRMED_ON" ->
                               IF settling THEN "ASSUMED_OFF" ELSE "ASSUMED_ON"
                          [] OTHER -> v.state
               ack == v.stopAck /\ ~due
               f == [fresh |-> FALSE, stopAck |-> ack, state |-> state]
    <3>1. Switch!StaleSense(m, due) = Switch!Seen(m, f)
      BY Zenon DEF Switch!StaleSense
    <3>2. state \in {"UNKNOWN", v.state} \/ v.state = "CONFIRMED_ON"
      OBVIOUS
    <3>3. ack => v.stopAck
      OBVIOUS
    <3> HIDE DEF v, settling, lost, state, ack
    <3>4. DOMAIN f = {"fresh", "stopAck", "state"} /\ f.stopAck = ack /\ f.state = state
      OBVIOUS
    <3> HIDE DEF f
    <3>5. Switch!Seen(m, f).view.stopAck =>
             Switch!Seen(m, f).view.state \in {"CONFIRMED_OFF", "ASSUMED_OFF", "UNKNOWN"}
      BY <1>15, <1>17, <3>2, <3>3, <3>4 DEF Tallied, v
    <3> QED
      BY <1>15, <1>17, <3>1, <3>4, <3>5
  <2>4. ASSUME NEW signal, NEW due
        PROVE  LET n == Switch!AfterStop(m, signal, due) IN Sensed(m, n) /\ Owed(n)
    <3> DEFINE retry == [retry |-> TRUE]
               start == [startAck |-> m.view.startAck]
               stop == [stopAck |-> FALSE]
               n == Switch!AfterStop(m, signal, due)
    <3>1. DOMAIN retry = {"retry"} /\ DOMAIN start = {"startAck"} /\ DOMAIN stop = {"stopAck"}
          /\ stop.stopAck = FALSE
      OBVIOUS
    <3>2. \/ n = m \/ n = Switch!SettleOff(m)
          \/ m.view.stopAck /\ m.view.cut /\ n = Switch!Seen(m, retry)
          \/ n = Switch!Seen(Switch!Confirmed(m), start)
          \/ n = Switch!Seen(m, stop)
      BY <1>17 DEF Switch!AfterStop
    <3> HIDE DEF retry, start, stop, n
    <3>3. ASSUME m.view.stopAck, m.view.cut, n = Switch!Seen(m, retry)
          PROVE  Sensed(m, n) /\ Owed(n)
      <4>1. /\ n.view.state = m.view.state /\ n.view.stopAck = m.view.stopAck
            /\ n.view.cut = m.view.cut
        BY <1>15, <1>17, <3>1, <3>3
      <4> QED
        BY <1>15, <1>17, <3>1, <3>3, <4>1 DEF Tallied, Owed
    <3>4. ASSUME n = Switch!Seen(Switch!Confirmed(m), start) PROVE Sensed(m, n) /\ Calm(n)
      <4> DEFINE o == Switch!Confirmed(m)
      <4>1. Sensed(m, o) /\ Calm(o) /\ ~Switch!HasReed(o) /\ ~o.view.stopAck
        BY <1>12, <1>13, <1>14, <1>17 DEF Tallied, Noted
      <4> HIDE DEF o
      <4>2. Sensed(o, Switch!Seen(o, start)) /\ Calm(Switch!Seen(o, start))
        BY <1>13, <1>15, <3>1, <4>1
      <4> QED
        BY <1>13, <3>4, <4>1, <4>2 DEF o
    <3>5. Sensed(m, Switch!Seen(m, stop)) /\ Calm(Switch!Seen(m, stop))
      BY <1>15, <1>17, <3>1
    <3> QED
      BY <1>13, <1>16, <1>17, <3>2, <3>3, <3>4, <3>5 DEF n
  <2>5. ASSUME NEW event, NEW active, NEW drop
        PROVE  LET n == Switch!AfterEvents(m, event, active, drop) IN Sensed(m, n) /\ Calm(n)
    <3> DEFINE f == [state |-> "ASSUMED_ON"]
               g == [coffee |-> TRUE]
               a == IF \/ event = "connected" /\ ~active
                       \/ event = "cup removed" /\ m.view.state = "ASSUMED_OFF"
                    THEN Switch!SettleOff(m) ELSE m
               b == IF /\ a.run /\ a.view.state = "CONFIRMED_OFF"
                       /\ ~a.view.stopAck /\ ~a.view.settling /\ a.view.startAck
                    THEN Switch!Seen(a, f) ELSE a
    <3>1. DOMAIN f = {"state"} /\ DOMAIN g = {"coffee"}
      OBVIOUS
    <3>2. Switch!AfterEvents(m, event, active, drop) = IF drop THEN Switch!Seen(b, g) ELSE b
      BY Zenon DEF Switch!AfterEvents
    <3>3. Sensed(m, a) /\ Calm(a)
      BY <1>13, <1>16, <1>17
    <3> HIDE DEF f, g, a
    <3>4. Sensed(m, b) /\ Calm(b)
      <4>1. ~a.view.stopAck => Sensed(a, Switch!Seen(a, f)) /\ Calm(Switch!Seen(a, f))
        BY <1>13, <1>15, <1>17, <3>1, <3>3
      <4> QED
        BY <1>13, <3>3, <4>1
    <3> HIDE DEF b
    <3>5. Sensed(b, Switch!Seen(b, g)) /\ Calm(Switch!Seen(b, g))
      BY <1>13, <1>15, <1>17, <3>1, <3>4 DEF Tallied
    <3> QED
      BY <1>13, <3>2, <3>4, <3>5
  <2> QED
    BY <2>1, <2>2, <2>3, <2>4, <2>5
<1>18. ASSUME NEW m, Tallied(m), Owed(m), ~Switch!HasReed(m)
       PROVE  /\ \A shot, due :
                    LET n == Switch!AfterStart(m, shot, due) IN Sensed(m, n) /\ Owed(n)
              /\ \A signal, keep, due :
                    LET n == Switch!AfterLowFlow(m, signal, keep, due)
                    IN  Sensed(m, n) /\ Owed(n)
              /\ \A signal, shot, due :
                    LET n == Switch!AfterFlow(m, signal, shot, due)
                    IN  Sensed(m, n) /\ Owed(n)
              /\ \A shot, limit :
                    LET n == Switch!AfterHardLimit(m, shot, limit)
                    IN  Sensed(m, n) /\ Owed(n)
  <2>0. ~m.view.stopAck => Calm(m)
    BY <1>18 DEF Owed, Calm
  <2>1. ASSUME NEW shot, NEW due
        PROVE  LET n == Switch!AfterStart(m, shot, due) IN Sensed(m, n) /\ Owed(n)
    <3> DEFINE o == [m EXCEPT !.run = FALSE]
               f == [startAck |-> FALSE, orphan |-> FALSE, state |-> "ASSUMED_OFF"]
    <3>1. DOMAIN f = {"startAck", "orphan", "state"} /\ f.state = "ASSUMED_OFF"
      OBVIOUS
    <3>2. Sensed(m, o) /\ (Calm(m) => Calm(o))
      BY <1>18 DEF Sensed, Tallied, Formed, SameBuild, Alters, MachineFields, Uncut, Calm,
                   Switch!HasReed
    <3>3. \/ Switch!AfterStart(m, shot, due) = m
          \/ ~m.view.stopAck /\ Switch!AfterStart(m, shot, due) = Switch!Seen(o, f)
      BY Zenon DEF Switch!AfterStart
    <3> HIDE DEF o, f
    <3>4. Sensed(o, Switch!Seen(o, f)) /\ (Calm(o) => Calm(Switch!Seen(o, f)))
      BY <1>13, <1>15, <1>18, <3>1, <3>2
    <3> QED
      BY <1>13, <1>18, <2>0, <3>2, <3>3, <3>4
  <2>2. ASSUME NEW signal, NEW keep, NEW due
        PROVE  LET n == Switch!AfterLowFlow(m, signal, keep, due) IN Sensed(m, n) /\ Owed(n)
    <3> DEFINE f == [state |-> "ASSUMED_ON"]
    <3>1. DOMAIN f = {"state"}
      OBVIOUS
    <3> HIDE DEF f
    <3>2. ~m.view.stopAck => Sensed(m, Switch!Seen(m, f)) /\ Calm(Switch!Seen(m, f))
      BY <1>15, <1>18, <2>0, <3>1
    <3>3. \/ Switch!AfterLowFlow(m, signal, keep, due) = m
          \/ /\ ~m.view.stopAck
             /\ Switch!AfterLowFlow(m, signal, keep, due) = Switch!Seen(m, f)
      BY Zenon DEF Switch!AfterLowFlow, f
    <3> QED
      BY <1>13, <1>18, <3>2, <3>3
  <2>3. ASSUME NEW signal, NEW shot, NEW due
        PROVE  LET n == Switch!AfterFlow(m, signal, shot, due) IN Sensed(m, n) /\ Owed(n)
    <3> DEFINE run == m.run \/ m.view.state = "ASSUMED_OFF"
               o == Switch!Confirmed(m)
               p == [o EXCEPT !.run = run]
    <3>1. \/ Switch!AfterFlow(m, signal, shot, due) = m
          \/ ~m.view.stopAck /\ Switch!AfterFlow(m, signal, shot, due) = p
      BY Zenon DEF Switch!AfterFlow
    <3> HIDE DEF run
    <3>2. /\ Noted(m, o) /\ o.given = <<>> /\ ~Switch!HasReed(o)
          /\ ~Switch!HasReed(o) => ~o.view.stopAck
      BY <1>12, <1>18 DEF Tallied, Noted, SameBuild, Switch!HasReed
    <3> HIDE DEF o
    <3>3. Sensed(m, p) /\ (Calm(m) => Calm(p))
      BY <1>0, <1>18, <3>2
         DEF Noted, Sensed, Tallied, Formed, SameBuild, Alters, MachineFields, Uncut, Calm,
             Switch!HasReed
    <3> QED
      BY <1>13, <1>18, <2>0, <3>1, <3>3
  <2>4. ASSUME NEW shot, NEW limit
        PROVE  LET n == Switch!AfterHardLimit(m, shot, limit) IN Sensed(m, n) /\ Owed(n)
    <3> DEFINE f == [idle |-> TRUE]
               o == Switch!SettleOff(m)
    <3>1. DOMAIN f = {"idle"}
      OBVIOUS
    <3>2. Sensed(m, o) /\ Calm(o)
      BY <1>16, <1>18
    <3>3. \/ Switch!AfterHardLimit(m, shot, limit) = m
          \/ Switch!AfterHardLimit(m, shot, limit) = Switch!Seen(o, f)
      BY Zenon DEF Switch!AfterHardLimit
    <3> HIDE DEF f, o
    <3>4. Sensed(o, Switch!Seen(o, f)) /\ Calm(Switch!Seen(o, f))
      BY <1>13, <1>15, <3>1, <3>2 DEF Tallied
    <3> QED
      BY <1>13, <1>18, <3>2, <3>3, <3>4
  <2> QED
    BY <2>1, <2>2, <2>3, <2>4
<1>19. ASSUME NEW m, Tallied(m), Switch!HasReed(m), NEW due
       PROVE  Sensed(m, Switch!ReedSense(m, due))
  <2> DEFINE f == [assume |-> "none"]
             over == Switch!Seen(m, f)
  <2>1. DOMAIN f = {"assume"}
    OBVIOUS
  <2>2. \/ Switch!ReedSense(m, due) = m
        \/ Switch!ReedSense(m, due) = over
        \/ Switch!ReedSense(m, due) =
             [over EXCEPT !.run = FALSE, !.edges = over.edges \cup {"off"}]
    BY Zenon DEF Switch!ReedSense
  <2> HIDE DEF f
  <2>3. Sensed(m, over) /\ Switch!HasReed(over) /\ over.edges = m.edges
    BY <1>5, <1>13, <1>15, <1>19, <2>1 DEF Alters, MachineFields, Tallied
  <2> HIDE DEF over
  <2>4. Sensed(m, [over EXCEPT !.run = FALSE, !.edges = over.edges \cup {"off"}])
    BY <1>19, <2>3
       DEF Sensed, Tallied, Formed, SameBuild, Alters, MachineFields, Uncut, Switch!HasReed
  <2> QED
    BY <1>13, <1>19, <2>2, <2>3, <2>4
<1>20. ASSUME NEW m, Tallied(m), Calm(m), NEW r, NEW active
       PROVE  LET n == Switch!Sense(m, r, active) IN Sensed(m, n) /\ Owed(n)
  <2>1. CASE Switch!HasReed(m)
    <3>1. Sensed(m, Switch!ReedSense(m, r.due))
      BY <1>19, <1>20, <2>1
    <3> QED
      BY <1>13, <2>1, <3>1 DEF Switch!Sense, Owed
  <2>2. CASE ~Switch!HasReed(m)
    <3> DEFINE g == [fresh |-> TRUE, scale |-> TRUE]
               a == Switch!AfterEvents(m, r.event, active, r.drop)
               fresh == Switch!Seen(a, g)
               b == Switch!AfterTare(fresh, r.signal)
               q == Switch!AfterQuiet(b, r.signal)
               c == Switch!AfterStop(q, r.signal, r.due)
               s == Switch!AfterStart(c, r.shot, r.due)
               d == Switch!AfterLowFlow(s, r.signal, active /\ r.drop /\ r.shot, r.due)
               e == Switch!AfterFlow(d, r.signal, r.shot, r.due)
    <3>1. DOMAIN g = {"fresh", "scale"}
      OBVIOUS
    <3>2. Switch!WeightSense(m, r, active) =
            (IF r.signal = "stale" THEN Switch!StaleSense(a, r.due)
             ELSE Switch!AfterHardLimit(e, r.shot, r.limit))
      BY Zenon DEF Switch!WeightSense
    <3> HIDE DEF g
    <3>3. Sensed(m, a) /\ Calm(a) /\ Tallied(a) /\ ~Switch!HasReed(a)
      BY <1>13, <1>17, <1>20, <2>2
    <3> HIDE DEF a
    <3>4. Sensed(m, fresh) /\ Calm(fresh) /\ Tallied(fresh) /\ ~Switch!HasReed(fresh)
      <4>1. Sensed(a, fresh) /\ Calm(fresh)
        BY <1>15, <3>1, <3>3 DEF Tallied
      <4> QED
        BY <1>13, <3>3, <4>1
    <3> HIDE DEF fresh
    <3>5. Sensed(m, b) /\ Calm(b) /\ Tallied(b) /\ ~Switch!HasReed(b)
      BY <1>13, <1>17, <3>4
    <3> HIDE DEF b
    <3>6. Sensed(m, q) /\ Calm(q) /\ Tallied(q) /\ ~Switch!HasReed(q)
      BY <1>13, <1>17, <3>5
    <3> HIDE DEF q
    <3>7. Sensed(m, c) /\ Owed(c) /\ Tallied(c) /\ ~Switch!HasReed(c)
      BY <1>13, <1>17, <3>6
    <3> HIDE DEF c
    <3>8. Sensed(m, s) /\ Owed(s) /\ Tallied(s) /\ ~Switch!HasReed(s)
      BY <1>13, <1>18, <3>7
    <3> HIDE DEF s
    <3>9. Sensed(m, d) /\ Owed(d) /\ Tallied(d) /\ ~Switch!HasReed(d)
      BY <1>13, <1>18, <3>8
    <3> HIDE DEF d
    <3>10. Sensed(m, e) /\ Owed(e) /\ Tallied(e) /\ ~Switch!HasReed(e)
      BY <1>13, <1>18, <3>9
    <3> HIDE DEF e
    <3>11. /\ Sensed(m, Switch!AfterHardLimit(e, r.shot, r.limit))
           /\ Owed(Switch!AfterHardLimit(e, r.shot, r.limit))
      BY <1>13, <1>18, <3>10
    <3>12. Sensed(m, Switch!StaleSense(a, r.due)) /\ Owed(Switch!StaleSense(a, r.due))
      BY <1>13, <1>17, <3>3
    <3> QED
      BY <2>2, <3>2, <3>11, <3>12, Zenon DEF Switch!Sense
  <2> QED
    BY <2>1, <2>2
\* K1 and the pulses
<1>21. ASSUME NEW m, NEW n, DOMAIN m = MachineFields, DOMAIN n = MachineFields,
              n.given = m.given, n.run = m.run, n.view = m.view
       PROVE  /\ (Formed(m) => Formed(n)) /\ (Tallied(m) => Tallied(n))
              /\ (Calm(m) => Calm(n)) /\ (Owed(m) => Owed(n)) /\ (Uncut(m) => Uncut(n))
              /\ Switch!HasReed(n) <=> Switch!HasReed(m)
  BY <1>21 DEF Formed, Tallied, Calm, Owed, Uncut, Switch!HasReed
<1>22. ASSUME NEW m, DOMAIN m = MachineFields, NEW over
       PROVE  /\ Alters(m, Switch!Open(m), {"relay"}) /\ ~Switch!Closed(Switch!Open(m))
              /\ Alters(m, Switch!Close(m), {"relay"})
              /\ Alters(m, Switch!AbortPulse(m), {"relay", "pulse"})
              /\ ~Switch!AbortPulse(m).pulse
              /\ Alters(m, Switch!DrivePulse(m, over), {"relay", "pulse"})
              /\ Switch!Closed(Switch!DrivePulse(m, over)) => Switch!DrivePulse(m, over).pulse
              /\ Alters(m, Switch!Forward(m), {"relay", "suppressed"})
  <2>1. ASSUME NEW o, DOMAIN o = MachineFields
        PROVE  /\ Alters(o, Switch!Open(o), {"relay"}) /\ ~Switch!Closed(Switch!Open(o))
               /\ Alters(o, Switch!Close(o), {"relay"})
    BY <2>1 DEF Alters, MachineFields, Switch!Open, Switch!Close, Switch!Closed
  <2> DEFINE p == [m EXCEPT !.pulse = FALSE]
             s == [m EXCEPT !.suppressed = TRUE]
  <2>2. /\ Alters(m, p, {"pulse"}) /\ p.pulse = FALSE /\ Alters(m, s, {"suppressed"})
    BY <1>22 DEF Alters, MachineFields
  <2>3. /\ \/ ~m.pulse /\ Switch!AbortPulse(m) = m
           \/ Switch!AbortPulse(m) = p \/ Switch!AbortPulse(m) = Switch!Open(p)
        /\ \/ Switch!DrivePulse(m, over) = Switch!Open(m)
           \/ Switch!DrivePulse(m, over) = Switch!Open(p)
           \/ m.pulse /\ Switch!DrivePulse(m, over) = Switch!Close(m)
        /\ Switch!Forward(m) = Switch!Close(m) \/ Switch!Forward(m) = Switch!Open(s)
    BY DEF Switch!AbortPulse, Switch!DrivePulse, Switch!Forward
  <2> HIDE DEF p, s
  <2>4. /\ Alters(m, Switch!AbortPulse(m), {"relay", "pulse"}) /\ ~Switch!AbortPulse(m).pulse
    BY <1>22, <2>1, <2>2, <2>3 DEF Alters, MachineFields
  <2>5. /\ Alters(m, Switch!DrivePulse(m, over), {"relay", "pulse"})
        /\ Switch!Closed(Switch!DrivePulse(m, over)) => Switch!DrivePulse(m, over).pulse
    BY <1>22, <2>1, <2>2, <2>3 DEF Alters, MachineFields
  <2>6. Alters(m, Switch!Forward(m), {"relay", "suppressed"})
    BY <1>22, <2>1, <2>2, <2>3 DEF Alters, MachineFields
  <2> QED
    BY <1>22, <2>1, <2>4, <2>5, <2>6
<1>23. ASSUME NEW m, DOMAIN m = MachineFields, NEW over
       PROVE  LET n == Switch!Drive(m, over)
              IN  /\ Alters(m, n, {"relay", "pulse", "suppressed"})
                  /\ m.rinsing => (Switch!Closed(n) => n.pulse)
  <2> DEFINE free == [m EXCEPT !.suppressed = FALSE]
             a == Switch!AbortPulse(m)
  <2>1. Alters(m, free, {"suppressed"}) /\ Alters(m, a, {"relay", "pulse"})
    BY <1>22, <1>23 DEF Alters, MachineFields
  <2>2. \/ Switch!Drive(m, over) = Switch!DrivePulse(m, over)
        \/ ~m.rinsing /\ Switch!Drive(m, over) = Switch!DrivePulse(free, over)
        \/ ~m.rinsing /\ Switch!Drive(m, over) = Switch!Forward(m)
        \/ ~m.rinsing /\ Switch!Drive(m, over) = Switch!Forward(a)
    BY Zenon DEF Switch!Drive
  <2> HIDE DEF free, a
  <2>3. /\ Alters(m, Switch!DrivePulse(m, over), {"relay", "pulse"})
        /\ Switch!Closed(Switch!DrivePulse(m, over)) => Switch!DrivePulse(m, over).pulse
        /\ Alters(free, Switch!DrivePulse(free, over), {"relay", "pulse"})
        /\ Alters(m, Switch!Forward(m), {"relay", "suppressed"})
        /\ Alters(a, Switch!Forward(a), {"relay", "suppressed"})
    <3>1. DOMAIN free = MachineFields /\ DOMAIN a = MachineFields
      BY <2>1 DEF Alters
    <3>2. Alters(free, Switch!DrivePulse(free, over), {"relay", "pulse"})
      BY <1>22, <3>1
    <3>3. Alters(a, Switch!Forward(a), {"relay", "suppressed"})
      BY <1>22, <3>1
    <3> QED
      BY <1>22, <1>23, <3>2, <3>3
  <2> DEFINE n == Switch!Drive(m, over)
  <2>4. Alters(m, n, {"relay", "pulse", "suppressed"})
    BY <2>1, <2>2, <2>3 DEF Alters, MachineFields
  <2> QED
    BY <2>2, <2>3, <2>4
<1>24. ASSUME NEW m, Formed(m), NEW why
       PROVE  /\ LET n == Switch!StartPulse(m)
                 IN  \/ n = m /\ ((~m.rinsing /\ m.phys) \/ m.pulse)
                     \/ /\ Formed(n) /\ Alters(m, n, {"relay", "pulse"}) /\ n.pulse = TRUE
              /\ LET n == Switch!StopPulse(m, why)
                 IN  \/ n = m
                     \/ /\ Formed(n) /\ SameBuild(m, n)
                        /\ Alters(m, n, {"relay", "pulse", "given", "view"})
                        /\ n.pulse = TRUE /\ n.given = Append(m.given, why)
                        /\ ~Switch!HasReed(m) => \A k \in {"state", "stopAck", "retry"} :
                                                   n.view[k] = m.view[k]
  <2> DEFINE c == Switch!Close(m)
             r == [c EXCEPT !.pulse = TRUE]
             given == Append(c.given, why)
             p == [c EXCEPT !.pulse = TRUE, !.given = given]
             f == [cut |-> TRUE]
  <2>1. Alters(m, c, {"relay"})
    BY <1>22, <1>24 DEF Formed
  <2>2. /\ \/ Switch!StartPulse(m) = m /\ ((~m.rinsing /\ m.phys) \/ m.pulse)
           \/ Switch!StartPulse(m) = r
        /\ \/ Switch!StopPulse(m, why) = m
           \/ Switch!StopPulse(m, why) = p
           \/ Switch!StopPulse(m, why) = Switch!Seen(p, f)
    BY Zenon DEF Switch!StartPulse, Switch!StopPulse, Switch!MayEmit
  <2>3. DOMAIN f = {"cut"}
    OBVIOUS
  <2> HIDE DEF c, f
  <2>4. c.given = m.given
    BY <1>24, <2>1 DEF Alters, MachineFields
  <2> HIDE DEF given
  <2>5. /\ Alters(m, p, {"relay", "pulse", "given"}) /\ p.pulse = TRUE
        /\ p.given = given
        /\ Alters(m, r, {"relay", "pulse"}) /\ r.pulse = TRUE
    BY <1>24, <2>1 DEF Alters, MachineFields
  <2> HIDE DEF p, r
  <2>6. Formed(p) /\ p.view = m.view /\ Formed(r)
    BY <1>24, <2>5 DEF Alters, MachineFields, Formed, Switch!HasReed
  <2> DEFINE s == Switch!Seen(p, f)
  <2>7. /\ Formed(s) /\ SameBuild(p, s) /\ Alters(p, s, {"view"})
        /\ \A k \in DOMAIN p.view : s.view[k] = IF k \in DOMAIN f THEN f[k] ELSE p.view[k]
    BY <1>5, <2>3, <2>6
  <2> HIDE DEF s
  <2>8. /\ SameBuild(m, s) /\ Alters(m, s, {"relay", "pulse", "given", "view"})
        /\ s.pulse = TRUE /\ s.given = given
        /\ ~Switch!HasReed(m) => \A k \in {"state", "stopAck", "retry"} :
                                   s.view[k] = m.view[k]
    BY <1>24, <2>3, <2>5, <2>6, <2>7 DEF SameBuild, Alters, MachineFields, Formed
  <2>9. /\ SameBuild(m, p) /\ Alters(m, p, {"relay", "pulse", "given", "view"})
        /\ ~Switch!HasReed(m) => \A k \in {"state", "stopAck", "retry"} :
                                   p.view[k] = m.view[k]
    BY <2>5, <2>6 DEF SameBuild, Alters, MachineFields
  <2>10. given = Append(m.given, why)
    BY <2>4 DEF given
  <2> QED
    BY <2>2, <2>5, <2>6, <2>7, <2>8, <2>9, <2>10 DEF s
<1>25. ASSUME NEW m, Formed(m), m.given \in Toggles, m.run = FALSE
       PROVE  LET n == Switch!NoteStop(m)
              IN  /\ Tallied(n) /\ (Calm(m) => Calm(n)) /\ Alters(m, n, {"view"})
                  /\ n.run = FALSE /\ n.given = m.given
  BY <1>8, <1>25
     DEF Noted, Tallied, SameBuild, Alters, MachineFields, Formed, Switch!HasReed
<1>26. ASSUME NEW m, Tallied(m), Calm(m), m.run = FALSE, NEW why,
              Append(m.given, why) \in Toggles
       PROVE  LET n == Switch!StopPulse(m, why)
              IN  /\ Tallied(n) /\ Calm(n)
                  /\ Alters(m, n, {"relay", "pulse", "given", "view"})
                  /\ n = m \/ (n.pulse = TRUE /\ n.given = Append(m.given, why))
  <2> DEFINE n == Switch!StopPulse(m, why)
  <2>1. CASE n = m
    BY <1>26, <2>1 DEF Tallied, Formed, Alters
  <2>2. CASE /\ Formed(n) /\ SameBuild(m, n)
             /\ Alters(m, n, {"relay", "pulse", "given", "view"})
             /\ n.pulse = TRUE /\ n.given = Append(m.given, why)
             /\ ~Switch!HasReed(m) => \A k \in {"state", "stopAck", "retry"} :
                                        n.view[k] = m.view[k]
    <3> HIDE DEF n
    <3>1. n.run = FALSE /\ (Switch!HasReed(n) <=> Switch!HasReed(m)) /\ n.given \in Toggles
      BY <1>26, <2>2 DEF SameBuild, Alters, MachineFields, Switch!HasReed
    <3>2. ~Switch!HasReed(m) => /\ n.view.state = m.view.state
                                /\ n.view.stopAck = m.view.stopAck
                                /\ n.view.retry = m.view.retry
      BY <2>2
    <3> QED
      BY <1>26, <2>2, <3>1, <3>2 DEF Tallied, Calm, n
  <2>3. Formed(m)
    BY <1>26 DEF Tallied
  <2> HIDE DEF n
  <2> QED
    BY <1>24, <2>1, <2>2, <2>3 DEF n
\* What the control loop asks of the machine
<1>27. ASSUME NEW m, Tallied(m), Calm(m), m.given = <<>> \/ m.skip \/ m.pulse, NEW over
       PROVE  LET n == Switch!RequestStop(m, over)
              IN  /\ Tallied(n) /\ Calm(n)
                  /\ Alters(m, n, {"relay", "pulse", "suppressed", "skip", "run", "given",
                                   "view"})
  <2> DEFINE s == [m EXCEPT !.run = FALSE, !.skip = FALSE]
             a == Switch!AbortPulse(s)
             F == {"relay", "pulse", "suppressed", "skip", "run", "given", "view"}
  <2>1. /\ Formed(s) /\ s.given \in Toggles /\ s.run = FALSE /\ Calm(s) /\ s.given = m.given
        /\ Alters(m, s, F)
    BY <1>27 DEF Tallied, Formed, Alters, MachineFields, Calm, Switch!HasReed
  <2>2. \/ Switch!RequestStop(m, over) = Switch!Drive(Switch!NoteStop(a), over)
        \/ Switch!RequestStop(m, over) = Switch!NoteStop(s)
        \/ Switch!RequestStop(m, over) = Switch!Drive(Switch!NoteStop(s), over)
        \/ /\ ~m.skip /\ ~m.pulse
           /\ Switch!RequestStop(m, over) = Switch!StopPulse(Switch!NoteStop(s), "stop")
    BY Zenon DEF Switch!RequestStop
  <2> HIDE DEF s
  <2>3. /\ Formed(a) /\ a.given \in Toggles /\ a.run = FALSE /\ Calm(a) /\ Alters(m, a, F)
    <3>1. Alters(s, a, {"relay", "pulse"})
      BY <1>22, <2>1 DEF Formed
    <3> HIDE DEF a
    <3>2. /\ DOMAIN a = MachineFields /\ a.given = s.given /\ a.run = s.run /\ a.view = s.view
          /\ DOMAIN s = MachineFields
      BY <2>1, <3>1 DEF Alters, MachineFields, Formed
    <3>3. Formed(a) /\ Calm(a)
      BY <1>21, <2>1, <3>2
    <3>4. Alters(m, a, F)
      BY <2>1, <3>1 DEF Alters, MachineFields
    <3> QED
      BY <2>1, <3>2, <3>3, <3>4
  <2> HIDE DEF a
  \* A stop that is noted, and the switch that is followed then
  <2>4. ASSUME NEW b, Formed(b), b.given \in Toggles, b.run = FALSE, Calm(b), Alters(m, b, F)
        PROVE  LET n == Switch!NoteStop(b)
                   d == Switch!Drive(n, over)
               IN  /\ Tallied(n) /\ Calm(n) /\ Alters(m, n, F) /\ n.run = FALSE
                   /\ n.given = b.given
                   /\ Tallied(d) /\ Calm(d) /\ Alters(m, d, F)
    <3> DEFINE n == Switch!NoteStop(b)
               d == Switch!Drive(n, over)
    <3>1. /\ Tallied(n) /\ Calm(n) /\ Alters(b, n, {"view"}) /\ n.run = FALSE
          /\ n.given = b.given
      BY <1>25, <2>4
    <3> HIDE DEF n
    <3>2. DOMAIN n = MachineFields /\ Alters(m, n, F)
      BY <2>4, <3>1 DEF Alters, MachineFields
    <3>3. Alters(n, d, {"relay", "pulse", "suppressed"})
      BY <1>23, <3>2
    <3> HIDE DEF d
    <3>4. DOMAIN d = MachineFields /\ d.given = n.given /\ d.run = n.run /\ d.view = n.view
      BY <3>3 DEF Alters, MachineFields
    <3>5. Tallied(d) /\ Calm(d)
      BY <1>21, <3>1, <3>2, <3>4
    <3>6. Alters(m, d, F)
      BY <3>2, <3>3 DEF Alters, MachineFields
    <3> QED
      BY <3>1, <3>2, <3>5, <3>6 DEF n, d
  <2>5. CASE ~m.skip /\ ~m.pulse
             /\ Switch!RequestStop(m, over) = Switch!StopPulse(Switch!NoteStop(s), "stop")
    <3> DEFINE n == Switch!NoteStop(s)
               e == Switch!StopPulse(n, "stop")
    <3>1. /\ Tallied(n) /\ Calm(n) /\ Alters(m, n, F) /\ n.run = FALSE /\ n.given = <<>>
      BY <1>27, <2>1, <2>4, <2>5
    <3> HIDE DEF n
    <3>2. Tallied(e) /\ Calm(e) /\ Alters(n, e, {"relay", "pulse", "given", "view"})
      BY <1>0, <1>26, <3>1
    <3> HIDE DEF e
    <3>3. Alters(m, e, F)
      BY <3>1, <3>2 DEF Alters, MachineFields
    <3> QED
      BY <2>5, <3>2, <3>3 DEF e, n
  <2>6. CASE \/ Switch!RequestStop(m, over) = Switch!Drive(Switch!NoteStop(a), over)
             \/ Switch!RequestStop(m, over) = Switch!NoteStop(s)
             \/ Switch!RequestStop(m, over) = Switch!Drive(Switch!NoteStop(s), over)
    BY <2>1, <2>3, <2>4, <2>6
  <2> QED
    BY <2>2, <2>5, <2>6
<1>28. ASSUME NEW m, Tallied(m), Calm(m), m.given \in {<<>>, <<"wall">>}
       PROVE  LET n == Switch!EndRinse(m)
              IN  /\ Tallied(n) /\ Calm(n) /\ n.rinsing = FALSE
                  /\ Alters(m, n, {"relay", "pulse", "suppressed", "rinsing", "run", "given",
                                   "view"})
  <2> DEFINE s == [m EXCEPT !.run = FALSE, !.suppressed = TRUE]
             ended == Switch!NoteStop(s)
             a == Switch!AbortPulse(ended)
             e == Switch!StopPulse(a, "rinse")
             n == [e EXCEPT !.rinsing = FALSE]
             F == {"relay", "pulse", "suppressed", "rinsing", "run", "given", "view"}
  <2>1. /\ Formed(s) /\ s.given \in Toggles /\ s.run = FALSE /\ Calm(s) /\ s.given = m.given
        /\ Alters(m, s, F)
    BY <1>28 DEF Tallied, Formed, Alters, MachineFields, Calm, Switch!HasReed
  <2>2. Switch!EndRinse(m) = n
    BY Zenon DEF Switch!EndRinse
  <2> HIDE DEF s
  <2>3. /\ Tallied(ended) /\ Calm(ended) /\ Alters(s, ended, {"view"}) /\ ended.run = FALSE
        /\ ended.given = m.given
    BY <1>25, <2>1
  <2> HIDE DEF ended
  <2>4. Alters(ended, a, {"relay", "pulse"})
    BY <1>22, <2>3 DEF Alters
  <2> HIDE DEF a
  <2>5. /\ DOMAIN a = MachineFields /\ DOMAIN ended = MachineFields /\ a.given = ended.given
        /\ a.run = ended.run /\ a.view = ended.view
    BY <2>3, <2>4 DEF Alters, MachineFields
  <2>6. Tallied(a) /\ Calm(a) /\ a.run = FALSE /\ a.given = m.given
    BY <1>21, <2>3, <2>5
  <2>7. Tallied(e) /\ Calm(e) /\ Alters(a, e, {"relay", "pulse", "given", "view"})
    BY <1>0, <1>26, <1>28, <2>6
  <2> HIDE DEF e
  <2>8. /\ DOMAIN n = MachineFields /\ n.given = e.given /\ n.run = e.run /\ n.view = e.view
        /\ DOMAIN e = MachineFields /\ n.rinsing = FALSE /\ Alters(e, n, {"rinsing"})
    BY <2>7 DEF Alters, MachineFields
  <2> HIDE DEF n
  <2>9. Tallied(n) /\ Calm(n)
    BY <1>21, <2>7, <2>8
  <2>10. Alters(m, n, F)
    BY <2>1, <2>3, <2>4, <2>7, <2>8 DEF Alters, MachineFields
  <2> QED
    BY <2>2, <2>8, <2>9, <2>10
<1>29. ASSUME NEW m, Tallied(m), Calm(m), NEW rinse, NEW cut, NEW over,
              \/ m.given = <<>> \/ (rinse /\ m.given = <<"wall">>)
              \/ ~rinse /\ (m.skip \/ m.pulse)
       PROVE  LET n == Switch!Finalize(m, rinse, cut, over)
              IN  /\ Tallied(n) /\ Calm(n) /\ n.rinsing = FALSE /\ n.edges = m.edges
  <2> DEFINE f == [armed |-> cut]
             armed == IF Switch!HasReed(m) THEN m ELSE Switch!Seen(m, f)
             o == IF rinse THEN Switch!EndRinse(armed) ELSE Switch!RequestStop(armed, over)
             n == [o EXCEPT !.rinsing = FALSE]
  <2>1. DOMAIN f = {"armed"}
    OBVIOUS
  <2>2. Switch!Finalize(m, rinse, cut, over) = n
    BY Zenon DEF Switch!Finalize
  <2> HIDE DEF f
  <2>3. Tallied(armed) /\ Calm(armed) /\ Alters(m, armed, {"view"})
    <3>1. ASSUME ~Switch!HasReed(m)
          PROVE  LET s == Switch!Seen(m, f) IN Tallied(s) /\ Calm(s) /\ Alters(m, s, {"view"})
      <4>1. Alters(m, Switch!Seen(m, f), {"view"})
        BY <1>5, <1>29, <2>1 DEF Tallied
      <4>2. Sensed(m, Switch!Seen(m, f)) /\ Calm(Switch!Seen(m, f))
        BY <1>15, <1>29, <2>1, <3>1 DEF Tallied
      <4> QED
        BY <1>13, <4>1, <4>2
    <3> QED
      BY <1>29, <3>1 DEF Alters, Tallied, Formed
  <2> HIDE DEF armed
  <2>4. armed.given = m.given /\ armed.skip = m.skip /\ armed.pulse = m.pulse
        /\ armed.edges = m.edges
    BY <2>3 DEF Alters, MachineFields
  <2>5. Tallied(o) /\ Calm(o) /\ o.edges = m.edges
    <3>1. CASE rinse
      <4>1. Tallied(o) /\ Calm(o) /\ Alters(armed, o, {"relay", "pulse", "suppressed",
                                                       "rinsing", "run", "given", "view"})
        BY <1>28, <1>29, <2>3, <2>4, <3>1
      <4> HIDE DEF o
      <4> QED
        BY <2>4, <4>1 DEF Alters, MachineFields
    <3>2. CASE ~rinse
      <4>1. Tallied(o) /\ Calm(o) /\ Alters(armed, o, {"relay", "pulse", "suppressed", "skip",
                                                       "run", "given", "view"})
        BY <1>27, <1>29, <2>3, <2>4, <3>2
      <4> HIDE DEF o
      <4> QED
        BY <2>4, <4>1 DEF Alters, MachineFields
    <3> QED
      BY <3>1, <3>2
  <2> HIDE DEF o
  <2>6. /\ DOMAIN n = MachineFields /\ DOMAIN o = MachineFields /\ n.given = o.given
        /\ n.run = o.run /\ n.view = o.view /\ n.rinsing = FALSE /\ n.edges = o.edges
    BY <2>5 DEF Tallied, Formed, MachineFields
  <2> HIDE DEF n
  <2> QED
    BY <1>21, <2>2, <2>5, <2>6
<1>30. ASSUME NEW m, Formed(m), NEW remote
       PROVE  LET n == Switch!RequestStart(m, remote)
              IN  /\ Tallied(n) /\ Calm(n) /\ n.given = <<>>
                  /\ Alters(m, n, {"relay", "pulse", "run", "given", "view"})
  <2> DEFINE noted == Switch!NoteStart(m)
             s == [noted EXCEPT !.run = TRUE]
             e == Switch!StartPulse(s)
             F == {"relay", "pulse", "run", "given", "view"}
  <2>1. /\ Noted(m, noted) /\ noted.given = <<>> /\ Calm(noted)
        /\ ~Switch!HasReed(noted) => ~noted.view.stopAck
    BY <1>7, <1>30
  <2>2. Switch!RequestStart(m, remote) = s \/ Switch!RequestStart(m, remote) = e
    BY Zenon DEF Switch!RequestStart
  <2> HIDE DEF noted
  <2>3. Tallied(s) /\ Calm(s) /\ s.given = <<>> /\ Alters(m, s, F)
    BY <1>0, <2>1 DEF Noted, Tallied, Formed, Alters, MachineFields, Calm, Switch!HasReed
  <2> HIDE DEF s
  <2>4. e = s \/ (Formed(e) /\ Alters(s, e, {"relay", "pulse"}))
    BY <1>24, <2>3 DEF Tallied
  <2> HIDE DEF e
  <2>5. CASE e = s
    BY <2>2, <2>3, <2>5
  <2>6. CASE Formed(e) /\ Alters(s, e, {"relay", "pulse"})
    <3>1. DOMAIN e = MachineFields /\ DOMAIN s = MachineFields /\ e.run = s.run
          /\ Alters(m, e, F) /\ e.given = <<>> /\ e.view = s.view
      BY <2>3, <2>6 DEF Formed, Tallied, Alters, MachineFields
    <3>2. Tallied(e) /\ Calm(e)
      BY <1>21, <2>3, <3>1
    <3> QED
      BY <2>2, <2>3, <3>1, <3>2
  <2> QED
    BY <2>4, <2>5, <2>6
<1>31. ASSUME NEW m, Formed(m), ~m.rinsing
       PROVE  LET n == Switch!BeginRinse(m)
              IN  /\ Tallied(n) /\ Calm(n) /\ Uncut(n) /\ n.given = <<>>
                  /\ n.rinsing = TRUE /\ n.pulse = TRUE
  <2> DEFINE s == [m EXCEPT !.rinsing = TRUE, !.suppressed = TRUE]
             a == Switch!AbortPulse(s)
             quiet == Switch!Open(a)
             noted == Switch!NoteStart(quiet)
             r == [noted EXCEPT !.run = TRUE]
             e == Switch!StartPulse(r)
  <2>1. Formed(s) /\ s.rinsing = TRUE
    BY <1>31 DEF Formed, MachineFields, Switch!HasReed
  <2>2. Switch!BeginRinse(m) = e
    BY <1>31, Zenon DEF Switch!BeginRinse
  <2> HIDE DEF s
  <2>3. Alters(s, a, {"relay", "pulse"}) /\ ~a.pulse
    BY <1>22, <2>1 DEF Formed
  <2> HIDE DEF a
  <2>4. Alters(a, quiet, {"relay"})
    BY <1>22, <2>3 DEF Alters
  <2> HIDE DEF quiet
  <2>5. Formed(quiet) /\ quiet.rinsing = TRUE /\ ~quiet.pulse
    BY <2>1, <2>3, <2>4 DEF Alters, MachineFields, Formed, Switch!HasReed
  <2>6. /\ Noted(quiet, noted) /\ noted.given = <<>> /\ Calm(noted) /\ Uncut(noted)
        /\ ~Switch!HasReed(noted) => ~noted.view.stopAck
    BY <1>7, <2>5
  <2> HIDE DEF noted
  <2>7. /\ Formed(r) /\ Tallied(r) /\ Calm(r) /\ Uncut(r) /\ r.given = <<>> /\ r.rinsing = TRUE
        /\ ~r.pulse
    BY <1>0, <2>5, <2>6
       DEF Noted, Tallied, Formed, Alters, MachineFields, Calm, Uncut, Switch!HasReed
  <2> HIDE DEF r
  <2>8. Formed(e) /\ Alters(r, e, {"relay", "pulse"}) /\ e.pulse = TRUE
    BY <1>24, <2>7
  <2> HIDE DEF e
  <2>9. /\ DOMAIN e = MachineFields /\ DOMAIN r = MachineFields /\ e.run = r.run
        /\ e.rinsing = TRUE /\ e.given = <<>> /\ e.view = r.view
    BY <2>7, <2>8 DEF Formed, Alters, MachineFields
  <2>10. Tallied(e) /\ Calm(e) /\ Uncut(e)
    BY <1>21, <2>7, <2>8, <2>9
  <2> QED
    BY <2>2, <2>8, <2>9, <2>10
\* The limits of a run and the retry of a stop
<1>32. ASSUME NEW m, Tallied(m), ~Switch!HasReed(m), m.view.stopAck
       PROVE  ~Switch!AllowsStop(m)
  BY <1>32 DEF Tallied, Switch!AllowsStop
<1>33. ASSUME NEW m, Tallied(m), Owed(m), m.given = <<>>
       PROVE  LET n == Switch!EndRun(m)
              IN  /\ Tallied(n) /\ Owed(n)
                  /\ Alters(m, n, {"relay", "run", "pulse", "given", "view"})
                  /\ \/ n.given = <<>> /\ (Uncut(m) => Uncut(n))
                        /\ n.relay = m.relay /\ n.pulse = m.pulse
                     \/ n.given = <<"wall">> /\ n.pulse = TRUE /\ Calm(n)
  <2> DEFINE s == [m EXCEPT !.run = FALSE]
             e == Switch!StopPulse(s, "wall")
             n == Switch!NoteStop(e)
             f == [orphan |-> TRUE]
             F == {"relay", "run", "pulse", "given", "view"}
  <2>1. /\ Tallied(s) /\ Owed(s) /\ Alters(m, s, F) /\ s.given = <<>> /\ s.run = FALSE
        /\ s.phys = m.phys /\ s.view = m.view /\ s.edges = m.edges
        /\ s.relay = m.relay /\ s.pulse = m.pulse /\ (Uncut(m) => Uncut(s))
    BY <1>33 DEF Tallied, Formed, Alters, MachineFields, Owed, Uncut, Switch!HasReed
  <2>2. \/ /\ Switch!AllowsStop(m)
           /\ Switch!EndRun(m) = Switch!NoteStop(Switch!MaybeStopPulse(s, "wall"))
        \/ ~Switch!HasReed(m) /\ Switch!EndRun(m) = Switch!Seen(s, f)
        \/ Switch!EndRun(m) = s
    BY Zenon DEF Switch!EndRun
  <2>3. DOMAIN f = {"orphan"}
    OBVIOUS
  <2> HIDE DEF s, f
  <2>4. Switch!AllowsStop(s) <=> Switch!AllowsStop(m)
    BY <2>1 DEF Switch!AllowsStop, Switch!HasReed
  <2>5. CASE Switch!AllowsStop(m) /\ Switch!EndRun(m) = n
    <3>1. Calm(s)
      BY <1>32, <2>1, <2>4, <2>5 DEF Owed, Calm
    <3>2. /\ Tallied(e) /\ Calm(e) /\ Alters(s, e, {"relay", "pulse", "given", "view"})
          /\ e = s \/ (e.pulse = TRUE /\ e.given = <<"wall">>)
      <4>1. /\ Tallied(e) /\ Calm(e) /\ Alters(s, e, {"relay", "pulse", "given", "view"})
            /\ e = s \/ (e.pulse = TRUE /\ e.given = Append(s.given, "wall"))
        BY <1>0, <1>26, <2>1, <3>1
      <4> HIDE DEF e
      <4> QED
        BY <1>0, <2>1, <4>1
    <3> HIDE DEF e
    <3>3. Formed(e) /\ e.given \in Toggles /\ e.run = FALSE
      BY <2>1, <3>2 DEF Tallied, Alters, MachineFields
    <3>4. Tallied(n) /\ Calm(n) /\ Alters(e, n, {"view"}) /\ n.given = e.given
      BY <1>25, <3>2, <3>3
    <3>5. Uncut(e) => Uncut(n)
      BY <1>8, <3>3 DEF Noted
    <3> HIDE DEF n
    <3>6. Alters(m, n, F) /\ n.pulse = e.pulse /\ n.relay = e.relay
      BY <2>1, <3>2, <3>4 DEF Alters, MachineFields
    <3>7. Owed(n)
      BY <1>13, <3>4
    <3> QED
      BY <2>1, <2>5, <3>2, <3>4, <3>5, <3>6, <3>7
  <2>6. CASE ~Switch!HasReed(m) /\ Switch!EndRun(m) = Switch!Seen(s, f)
    <3> DEFINE o == Switch!Seen(s, f)
    <3>1. /\ Formed(o) /\ SameBuild(s, o) /\ Alters(s, o, {"view"})
          /\ \A k \in DOMAIN s.view : o.view[k] = IF k \in DOMAIN f THEN f[k] ELSE s.view[k]
      BY <1>5, <2>1, <2>3 DEF Tallied
    <3> HIDE DEF o
    <3>2. /\ Alters(m, o, F) /\ o.given = <<>> /\ o.run = FALSE
          /\ o.relay = m.relay /\ o.pulse = m.pulse
      BY <2>1, <3>1 DEF Alters, MachineFields
    <3>3. Tallied(o) /\ Owed(o) /\ (Uncut(m) => Uncut(o))
      BY <2>1, <2>3, <3>1, <3>2
         DEF Tallied, Formed, Owed, Uncut, SameBuild, Switch!HasReed
    <3> QED
      BY <2>6, <3>2, <3>3 DEF o
  <2>7. CASE Switch!EndRun(m) = s
    BY <2>1, <2>7
  <2>8. Switch!AllowsStop(m) => Switch!MaybeStopPulse(s, "wall") = e
    BY <2>4 DEF Switch!MaybeStopPulse
  <2> HIDE DEF e, n
  <2> QED
    BY <2>2, <2>5, <2>6, <2>7, <2>8 DEF n
<1>34. ASSUME NEW m, Tallied(m), Owed(m), NEW wall
       PROVE  LET n == Switch!Wall(m, wall)
              IN  /\ Tallied(n) /\ Owed(n)
                  /\ Alters(m, n, {"relay", "tripped", "run", "pulse", "given", "view"})
                  /\ \/ n.given = m.given /\ (Uncut(m) => Uncut(n))
                     \/ /\ n.given = <<"wall">> /\ n.pulse = TRUE /\ n.tripped = TRUE
                        /\ Calm(n)
                  /\ (Switch!Closed(m) => m.pulse) => (Switch!Closed(n) => n.pulse)
  <2> DEFINE t == Switch!Trip(m)
             e == Switch!EndRun(t)
             o == Switch!SettleOff(m)
             f == [idle |-> TRUE]
             i == Switch!Seen(o, f)
             F == {"relay", "tripped", "run", "pulse", "given", "view"}
  <2>1. \/ Switch!Wall(m, wall) = m
        \/ Switch!Wall(m, wall) = i
        \/ m.run /\ Switch!Wall(m, wall) = e
    BY DEF Switch!Wall
  <2>2. DOMAIN f = {"idle"}
    OBVIOUS
  <2> HIDE DEF f
  <2>3. /\ Tallied(t) /\ Owed(t) /\ Alters(m, t, {"relay", "tripped"}) /\ t.tripped = TRUE
        /\ t.given = m.given /\ t.relay = "TRIPPED" /\ (Uncut(m) => Uncut(t))
    BY <1>34
       DEF Tallied, Formed, Alters, MachineFields, Owed, Uncut, Switch!HasReed, Switch!Trip
  <2> HIDE DEF t
  <2>4. ASSUME m.run
        PROVE  /\ Tallied(e) /\ Owed(e) /\ Alters(m, e, F)
               /\ \/ e.given = m.given /\ (Uncut(m) => Uncut(e))
                  \/ /\ e.given = <<"wall">> /\ e.pulse = TRUE /\ e.tripped = TRUE
                     /\ Calm(e)
               /\ Switch!Closed(e) => e.pulse
    <3>1. m.given = <<>>
      BY <1>34, <2>4 DEF Tallied
    <3>2. /\ Tallied(e) /\ Owed(e) /\ Alters(t, e, {"relay", "run", "pulse", "given", "view"})
          /\ \/ e.given = <<>> /\ (Uncut(t) => Uncut(e))
                /\ e.relay = t.relay /\ e.pulse = t.pulse
             \/ e.given = <<"wall">> /\ e.pulse = TRUE /\ Calm(e)
      BY <1>33, <2>3, <3>1
    <3> HIDE DEF e
    <3>3. Alters(m, e, F) /\ e.tripped = TRUE
      BY <2>3, <3>2 DEF Alters, MachineFields
    <3>4. Switch!Closed(e) => e.pulse
      BY <2>3, <3>2 DEF Switch!Closed
    <3> QED
      BY <2>3, <3>1, <3>2, <3>3, <3>4
  <2> HIDE DEF e
  <2>5. Noted(m, o) /\ o.given = m.given /\ Calm(o) /\ Tallied(o)
    BY <1>6, <1>13, <1>16, <1>34 DEF Tallied
  <2>6. Uncut(o)
    BY <1>6, <1>34 DEF Tallied
  <2> HIDE DEF o
  <2>7. Alters(o, i, {"view"}) /\ Calm(i) /\ Tallied(i) /\ Uncut(i)
    <3>1. Alters(o, i, {"view"})
      BY <1>5, <2>2, <2>5 DEF Tallied
    <3>2. Sensed(o, i) /\ Calm(i)
      BY <1>15, <2>2, <2>5 DEF Tallied
    <3> QED
      BY <1>13, <2>6, <3>1, <3>2 DEF Sensed
  <2> HIDE DEF i
  <2>8. /\ Alters(m, i, F) /\ i.given = m.given /\ Owed(i)
        /\ i.relay = m.relay /\ i.pulse = m.pulse
    BY <1>13, <2>5, <2>7 DEF Noted, Alters, MachineFields
  <2>9. Alters(m, m, F)
    BY <1>34 DEF Tallied, Formed, Alters
  <2> QED
    BY <1>34, <2>1, <2>4, <2>7, <2>8, <2>9 DEF Switch!Closed
<1>35. ASSUME NEW m, Tallied(m), Owed(m)
       PROVE  LET n == Switch!RetryStop(m)
              IN  /\ Tallied(n) /\ Calm(n) /\ Alters(m, n, {"relay", "pulse", "view"})
                  /\ Calm(m) => n = m
  <2> DEFINE f == [retry |-> FALSE]
             o == Switch!Seen(m, f)
             a == Switch!AbortPulse(o)
  <2>1. \/ ~Switch!HasReed(m) /\ m.view.retry
           /\ Switch!RetryStop(m) = Switch!MaybeStopPulse(o, "retry")
        \/ Calm(m) /\ Switch!RetryStop(m) = m
    BY DEF Switch!RetryStop, Calm
  <2>2. DOMAIN f = {"retry"} /\ f.retry = FALSE
    OBVIOUS
  <2> HIDE DEF f
  <2>3. CASE ~Switch!HasReed(m) /\ m.view.retry
             /\ Switch!RetryStop(m) = Switch!MaybeStopPulse(o, "retry")
    <3>1. /\ Formed(o) /\ SameBuild(m, o) /\ Alters(m, o, {"view"})
          /\ \A k \in DOMAIN m.view : o.view[k] = IF k \in DOMAIN f THEN f[k] ELSE m.view[k]
      BY <1>5, <1>35, <2>2 DEF Tallied
    <3> HIDE DEF o
    <3>2. o.view.stopAck = m.view.stopAck /\ o.view.state = m.view.state
          /\ o.view.retry = FALSE /\ m.view.stopAck /\ ~Switch!HasReed(o)
      BY <1>35, <2>2, <2>3, <3>1 DEF Tallied, Formed, Owed, SameBuild, Switch!HasReed
    <3>3. Tallied(o) /\ Calm(o)
      BY <1>35, <2>3, <3>1, <3>2 DEF Tallied, Alters, MachineFields, Calm
    <3>4. Switch!MaybeStopPulse(o, "retry") = a
      BY <1>32, <3>2, <3>3 DEF Switch!MaybeStopPulse
    <3>5. Alters(o, a, {"relay", "pulse"})
      BY <1>22, <3>1 DEF Formed
    <3> HIDE DEF a
    <3>6. /\ DOMAIN a = MachineFields /\ DOMAIN o = MachineFields /\ a.given = o.given
          /\ a.run = o.run /\ a.view = o.view /\ Alters(m, a, {"relay", "pulse", "view"})
      BY <3>1, <3>5 DEF Alters, MachineFields, Formed
    <3>7. Tallied(a) /\ Calm(a)
      BY <1>21, <3>3, <3>6
    <3>8. ~Calm(m)
      BY <2>3 DEF Calm
    <3> QED
      BY <2>3, <3>4, <3>6, <3>7, <3>8
  <2>4. CASE Calm(m) /\ Switch!RetryStop(m) = m
    BY <1>35, <2>4 DEF Tallied, Formed, Alters
  <2> QED
    BY <2>1, <2>3, <2>4
\* The switch
<1>36. ASSUME NEW m, Tallied(m), Calm(m), NEW forwarded \in BOOLEAN
       PROVE  LET n == Switch!StartStopEdge(m, forwarded)
              IN  /\ Tallied(n) /\ Calm(n) /\ (Uncut(m) => Uncut(n))
                  /\ Alters(m, n, {"edges", "skip", "run", "given", "view"})
                  /\ \/ n.given = <<>>
                     \/ forwarded /\ n.skip = TRUE /\ n.edges = m.edges \cup {"off", "user"}
  <2> DEFINE given == IF forwarded THEN <<"press">> ELSE <<>>
             s == [m EXCEPT !.edges = m.edges \cup {"off", "user"}, !.skip = TRUE,
                            !.run = FALSE, !.given = given]
             o == [m EXCEPT !.edges = m.edges \cup {"on", "start"}]
             noted == Switch!NoteStart(o)
             n == [noted EXCEPT !.run = TRUE]
             stop == Switch!NoteStop(s)
             F == {"edges", "skip", "run", "given", "view"}
  <2>1. \/ Switch!StartStopEdge(m, forwarded) = stop
        \/ Switch!StartStopEdge(m, forwarded) = n
    BY Zenon DEF Switch!StartStopEdge
  <2>2. given \in Toggles /\ (given # <<>> => forwarded)
    BY <1>36 DEF Toggles
  <2> HIDE DEF given
  <2>3. /\ Formed(s) /\ s.given = given /\ s.run = FALSE /\ Calm(s) /\ (Uncut(m) => Uncut(s))
        /\ s.skip = TRUE /\ s.edges = m.edges \cup {"off", "user"} /\ Alters(m, s, F)
    BY <1>36 DEF Tallied, Formed, Alters, MachineFields, Calm, Uncut, Switch!HasReed
  <2>4. Formed(o) /\ Calm(o) /\ Alters(m, o, {"edges"})
    BY <1>36 DEF Tallied, Formed, Alters, MachineFields, Calm, Switch!HasReed
  <2> HIDE DEF s, o
  <2>5. /\ Tallied(stop) /\ Calm(stop) /\ Alters(s, stop, {"view"}) /\ stop.given = given
        /\ (Uncut(m) => Uncut(stop))
    BY <1>8, <1>25, <2>2, <2>3 DEF Noted
  <2> HIDE DEF stop
  <2>6. /\ Alters(m, stop, F) /\ stop.skip = TRUE
        /\ stop.edges = m.edges \cup {"off", "user"}
    BY <2>3, <2>5 DEF Alters, MachineFields
  <2>7. /\ Noted(o, noted) /\ noted.given = <<>> /\ Calm(noted) /\ Uncut(noted)
        /\ ~Switch!HasReed(noted) => ~noted.view.stopAck
    BY <1>7, <2>4
  <2> HIDE DEF noted
  <2>8. Tallied(n) /\ Calm(n) /\ Uncut(n) /\ Alters(m, n, F) /\ n.given = <<>>
    BY <1>0, <2>4, <2>7
       DEF Noted, Tallied, Formed, Alters, MachineFields, Calm, Uncut, Switch!HasReed
  <2> HIDE DEF n
  <2> QED
    BY <2>1, <2>2, <2>5, <2>6, <2>8
<1>37. ASSUME NEW m, Tallied(m), Calm(m)
       PROVE  LET n == Switch!Revert(m)
              IN  /\ Tallied(n) /\ Calm(n) /\ (Uncut(m) => Uncut(n)) /\ n.given = <<>>
                  /\ Alters(m, n, {"edges", "skip", "run", "given", "view"})
  <2> DEFINE s == [m EXCEPT !.run = TRUE, !.edges = m.edges \ {"start"}]
             o == [m EXCEPT !.run = FALSE, !.skip = TRUE,
                            !.edges = (m.edges \ {"start"}) \cup {"off", "user"}]
             F == {"edges", "skip", "run", "given", "view"}
  <2>1. /\ Formed(s) /\ Calm(s) /\ (Uncut(m) => Uncut(s)) /\ Alters(m, s, F)
        /\ Formed(o) /\ Calm(o) /\ (Uncut(m) => Uncut(o)) /\ Alters(m, o, F)
    BY <1>37 DEF Tallied, Formed, Alters, MachineFields, Calm, Uncut, Switch!HasReed
  <2>2. \/ Switch!Revert(m) = Switch!NoteDisqualified(s, TRUE, m.pre.state)
        \/ Switch!Revert(m) = Switch!NoteDisqualified(o, FALSE, m.pre.state)
    BY Zenon DEF Switch!Revert
  <2> HIDE DEF s, o
  <2>3. ASSUME NEW b, Formed(b), Calm(b), Uncut(m) => Uncut(b), Alters(m, b, F), NEW restore
        PROVE  LET n == Switch!NoteDisqualified(b, restore, m.pre.state)
               IN  /\ Tallied(n) /\ Calm(n) /\ (Uncut(m) => Uncut(n)) /\ n.given = <<>>
                   /\ Alters(m, n, F)
    <3> DEFINE n == Switch!NoteDisqualified(b, restore, m.pre.state)
    <3>1. /\ Noted(b, n) /\ n.given = <<>> /\ Calm(n)
          /\ ~Switch!HasReed(n) => ~n.view.stopAck
      BY <1>11, <2>3
    <3> HIDE DEF n
    <3>2. Alters(m, n, F)
      BY <2>3, <3>1 DEF Noted, Alters, MachineFields
    <3> QED
      BY <1>0, <2>3, <3>1, <3>2 DEF Noted, Tallied, n
  <2> QED
    BY <2>1, <2>2, <2>3
<1> DEFINE Hand == {"rinseSent", "fromIdle", "pre", "gesture", "edges", "skip", "run",
                    "given", "view"}
           Handled(m, n, forwarded) ==
             /\ Tallied(n) /\ Calm(n) /\ (Uncut(m) => Uncut(n)) /\ Alters(m, n, Hand)
             /\ \/ n.given \in {<<>>, m.given}
                \/ forwarded /\ n.skip = TRUE /\ n.edges = m.edges \cup {"off", "user"}
<1>38. ASSUME NEW m, Tallied(m), Calm(m), NEW forwarded \in BOOLEAN, NEW long
       PROVE  /\ Handled(m, Switch!Pressed(m, forwarded), forwarded)
              /\ Handled(m, Switch!Held(m, long), forwarded)
              /\ Handled(m, Switch!Released(m, long, forwarded), forwarded)
  <2> DEFINE G == {"rinseSent", "fromIdle", "pre", "gesture"}
  \* The fields of the gesture say nothing of the group.
  <2>1. ASSUME NEW a, NEW n, Tallied(a), Calm(a), Alters(m, a, G), Uncut(m) => Uncut(a),
               n = Switch!StartStopEdge(a, forwarded)
        PROVE  Handled(m, n, forwarded)
    <3>1. /\ Tallied(n) /\ Calm(n) /\ (Uncut(a) => Uncut(n))
          /\ Alters(a, n, {"edges", "skip", "run", "given", "view"})
          /\ \/ n.given = <<>>
             \/ forwarded /\ n.skip = TRUE /\ n.edges = a.edges \cup {"off", "user"}
      BY <1>36, <2>1
    <3>2. Alters(m, n, Hand) /\ a.edges = m.edges
      BY <2>1, <3>1 DEF Alters, MachineFields
    <3> QED
      BY <2>1, <3>1, <3>2
  <2>2. ASSUME NEW a, NEW n, Handled(m, a, forwarded), Alters(a, n, G)
        PROVE  Handled(m, n, forwarded)
    <3>1. /\ DOMAIN a = MachineFields /\ DOMAIN n = MachineFields /\ n.given = a.given
          /\ n.run = a.run /\ n.view = a.view /\ n.skip = a.skip /\ n.edges = a.edges
      BY <2>2 DEF Alters, MachineFields
    <3>2. Tallied(n) /\ Calm(n) /\ (Uncut(a) => Uncut(n))
      BY <1>21, <2>2, <3>1
    <3>3. Alters(m, n, Hand)
      BY <2>2 DEF Alters, MachineFields
    <3> QED
      BY <2>2, <3>1, <3>2, <3>3
  <2>3. ASSUME NEW n, Alters(m, n, G)
        PROVE  Tallied(n) /\ Calm(n) /\ (Uncut(m) => Uncut(n)) /\ Handled(m, n, forwarded)
    <3>1. /\ DOMAIN m = MachineFields /\ DOMAIN n = MachineFields /\ n.given = m.given
          /\ n.run = m.run /\ n.view = m.view
      BY <1>38, <2>3 DEF Alters, MachineFields, Tallied, Formed
    <3>2. Tallied(n) /\ Calm(n) /\ (Uncut(m) => Uncut(n))
      BY <1>21, <1>38, <3>1
    <3>3. Alters(m, n, Hand)
      BY <2>3 DEF Alters, MachineFields
    <3> QED
      BY <3>1, <3>2, <3>3
  <2>4. Handled(m, Switch!Pressed(m, forwarded), forwarded)
    <3> DEFINE idle == ~Switch!Running(m)
               pre == [running |-> Switch!Running(m), state |-> Switch!ViewState(m)]
               p == [m EXCEPT !.rinseSent = FALSE, !.fromIdle = idle]
               pressed == Switch!Pressed(m, forwarded)
    <3> DEFINE s(r) == [p EXCEPT !.pre = r]
               edge(r) == Switch!StartStopEdge(s(r), forwarded)
    <3>1. \/ pressed = p
          \/ \E r : pressed = [edge(r) EXCEPT !.gesture = TRUE]
      BY Zenon DEF Switch!Pressed
    <3> HIDE DEF idle, pre, pressed
    <3>2. Alters(m, p, G) /\ \A r : Alters(m, s(r), G)
      BY <1>38 DEF Tallied, Formed, Alters, MachineFields
    <3> HIDE DEF p, s
    <3>3. ASSUME NEW r PROVE Handled(m, edge(r), forwarded)
      BY <2>1, <2>3, <3>2
    <3> HIDE DEF edge
    <3>4. ASSUME NEW r PROVE Handled(m, [edge(r) EXCEPT !.gesture = TRUE], forwarded)
      <4> DEFINE e == edge(r)
                 n == [e EXCEPT !.gesture = TRUE]
      <4>1. Handled(m, e, forwarded)
        BY <3>3
      <4> HIDE DEF e
      <4>2. Alters(e, n, G)
        BY <4>1 DEF Tallied, Formed, Alters, MachineFields
      <4> HIDE DEF n, Handled
      <4>3. Handled(m, n, forwarded)
        BY <2>2, <4>1, <4>2
      <4> QED
        BY <4>3 DEF n, e
    <3> HIDE DEF Handled
    <3> QED
      BY <2>3, <3>1, <3>2, <3>4 DEF pressed
  <2>5. Handled(m, Switch!Held(m, long), forwarded)
    <3> DEFINE a == [m EXCEPT !.edges = m.edges \cup {"rinse"}, !.rinseSent = TRUE,
                              !.gesture = FALSE, !.pre = Switch!NoPress]
               b == Switch!Revert(m)
               c == [b EXCEPT !.gesture = FALSE, !.pre = Switch!NoPress]
               none == Switch!NoPress
    <3>1. \/ Switch!Held(m, long) = a \/ Switch!Held(m, long) = c
          \/ Switch!Held(m, long) = m
      BY Zenon DEF Switch!Held
    <3>2. Handled(m, a, forwarded)
      <4>1. /\ DOMAIN m = MachineFields /\ Alters(m, a, Hand) /\ a.given = m.given
            /\ a.run = m.run /\ a.view = m.view
        BY <1>38 DEF Tallied, Formed, Alters, MachineFields
      <4> HIDE DEF a
      <4>2. Tallied(a) /\ Calm(a) /\ (Uncut(m) => Uncut(a))
        BY <1>21, <1>38, <4>1 DEF Alters
      <4> QED
        BY <4>1, <4>2
    <3>3. Handled(m, c, forwarded)
      <4>1. /\ Tallied(b) /\ Calm(b) /\ (Uncut(m) => Uncut(b)) /\ b.given = <<>>
            /\ Alters(m, b, {"edges", "skip", "run", "given", "view"})
        BY <1>37, <1>38
      <4> HIDE DEF b
      <4>2. Handled(m, b, forwarded)
        BY <4>1 DEF Alters, MachineFields
      <4>3. Alters(b, c, G)
        BY <4>1 DEF Tallied, Formed, Alters, MachineFields
      <4> HIDE DEF c, Handled
      <4> QED
        BY <2>2, <4>2, <4>3
    <3>4. Handled(m, m, forwarded)
      BY <1>38 DEF Tallied, Formed, Alters
    <3> HIDE DEF a, c, Handled
    <3> QED
      BY <3>1, <3>2, <3>3, <3>4
  <2>6. Handled(m, Switch!Released(m, long, forwarded), forwarded)
    <3> DEFINE r == [m EXCEPT !.gesture = FALSE, !.pre = Switch!NoPress, !.fromIdle = FALSE,
                              !.rinseSent = FALSE]
               edge == Switch!StartStopEdge(r, forwarded)
    <3>1. \/ Switch!Released(m, long, forwarded) = r
          \/ Switch!Released(m, long, forwarded) = edge
      BY Zenon DEF Switch!Released
    <3>2. Alters(m, r, G)
      BY <1>38 DEF Tallied, Formed, Alters, MachineFields
    <3> HIDE DEF r
    <3>3. Handled(m, r, forwarded) /\ Handled(m, edge, forwarded)
      BY <2>1, <2>3, <3>2
    <3> HIDE DEF edge, Handled
    <3> QED
      BY <3>1, <3>3
  <2> HIDE DEF Handled
  <2> QED
    BY <2>4, <2>5, <2>6
<1>39. ASSUME NEW m, Tallied(m), Calm(m), NEW on, NEW long, NEW over
       PROVE  LET n == Switch!UpdateInput(m, on, long, over)
              IN  /\ Tallied(n) /\ Calm(n) /\ (Uncut(m) => Uncut(n))
                  /\ Alters(m, n, Hand \cup {"phys", "relay", "pulse", "suppressed"})
                  /\ m.rinsing => (Switch!Closed(n) => n.pulse)
                  /\ \/ n.given \in {<<>>, m.given}
                     \/ /\ n.skip = TRUE /\ n.edges = m.edges \cup {"off", "user"}
                        /\ m.rinsing => Switch!Closed(m) /\ ~m.pulse
  <2> DEFINE p == [m EXCEPT !.phys = on]
             d == Switch!Drive(p, over)
             n == Switch!UpdateInput(m, on, long, over)
             fd == Switch!Forwarded(d)
             fm == Switch!Forwarded(m)
  <2>1. Alters(m, p, {"phys"})
    BY <1>39 DEF Tallied, Formed, Alters, MachineFields
  <2>2. \/ n = Switch!Pressed(d, fd) \/ n = Switch!Held(d, long)
        \/ n = Switch!Released(d, long, fm) \/ n = d
    BY Zenon DEF Switch!UpdateInput
  <2>3. fd \in BOOLEAN /\ fm \in BOOLEAN
    BY DEF Switch!Forwarded
  <2> HIDE DEF p
  <2>4. /\ Alters(p, d, {"relay", "pulse", "suppressed"})
        /\ p.rinsing => (Switch!Closed(d) => d.pulse)
    BY <1>23, <2>1 DEF Alters
  <2>5. /\ fd => Switch!Closed(d) /\ ~d.pulse
        /\ fm => Switch!Closed(m) /\ ~m.pulse
    BY DEF Switch!Forwarded
  <2> HIDE DEF d, n, fd, fm
  <2>6. /\ DOMAIN d = MachineFields /\ DOMAIN m = MachineFields /\ d.given = m.given
        /\ d.run = m.run /\ d.view = m.view /\ p.rinsing = m.rinsing /\ d.rinsing = m.rinsing
        /\ d.edges = m.edges
    BY <1>39, <2>1, <2>4 DEF Alters, MachineFields, Tallied, Formed
  <2>7. Tallied(d) /\ Calm(d) /\ (Uncut(m) => Uncut(d))
    BY <1>21, <1>39, <2>6
  <2>8. \E forwarded : /\ Handled(d, n, forwarded)
                       /\ forwarded /\ m.rinsing => Switch!Closed(m) /\ ~m.pulse
    <3>1. Handled(d, d, fd)
      BY <2>6, <2>7 DEF Alters
    <3>2. /\ Handled(d, Switch!Pressed(d, fd), fd) /\ Handled(d, Switch!Held(d, long), fd)
          /\ Handled(d, Switch!Released(d, long, fm), fm)
      BY <1>38, <2>3, <2>7
    <3>3. fd /\ m.rinsing => Switch!Closed(m) /\ ~m.pulse
      BY <2>4, <2>5, <2>6
    <3>4. fm /\ m.rinsing => Switch!Closed(m) /\ ~m.pulse
      BY <2>5
    <3> HIDE DEF Handled
    <3> QED
      BY <2>2, <3>1, <3>2, <3>3, <3>4
  <2>9. PICK forwarded : /\ Handled(d, n, forwarded)
                         /\ forwarded /\ m.rinsing => Switch!Closed(m) /\ ~m.pulse
    BY <2>8
  <2>10. Alters(m, n, Hand \cup {"phys", "relay", "pulse", "suppressed"})
    BY <2>1, <2>4, <2>9 DEF Alters, MachineFields
  <2>11. n.relay = d.relay /\ n.pulse = d.pulse
    BY <2>9 DEF Alters, MachineFields
  <2> HIDE DEF Hand
  <2> QED
    BY <2>4, <2>6, <2>7, <2>9, <2>10, <2>11 DEF n, Switch!Closed
\* The control loop: what it leaves of the machine for the state it goes to
<1> DEFINE Rested(m, state) ==
             Counted(m, state) /\ (state \in {"BREW", "RINSE"} => m.given = <<>>)
           Idle == {"REQUIRES_OFF", "READY"}
<1>40. /\ \A m, state, web : /\ Switch!To(m, state, web).machine = m
                             /\ Switch!To(m, state, web).session.state = state
       /\ \A m : Switch!AfterHold(m) \in Idle
  BY DEF Switch!To, Switch!AfterHold
<1>41. ASSUME NEW m, Tallied(m), Calm(m), ~m.rinsing, NEW state, state # "RINSE",
              state = "BREW" => m.given = <<>>
       PROVE  Rested(m, state)
  BY <1>41 DEF Counted
<1>42. ASSUME NEW m, Tallied(m), Calm(m), NEW rinse, NEW cut, NEW over,
              \/ m.given = <<>> \/ (rinse /\ m.given = <<"wall">>)
              \/ ~rinse /\ (m.skip \/ m.pulse),
              NEW state \in Idle, NEW web
       PROVE  LET p == Switch!To(Switch!Finalize(m, rinse, cut, over), state, web)
              IN  Rested(p.machine, p.session.state)
  <2> DEFINE n == Switch!Finalize(m, rinse, cut, over)
  <2>1. Tallied(n) /\ Calm(n) /\ n.rinsing = FALSE
    BY <1>29, <1>42
  <2> HIDE DEF n
  <2>2. Rested(n, state)
    BY <1>41, <2>1
  <2> HIDE DEF Rested
  <2> QED
    BY <1>40, <2>2 DEF n
<1>43. ASSUME NEW m, Formed(m), ~m.rinsing, NEW web
       PROVE  LET p == Switch!BeginBrew(m, web) IN Rested(p.machine, p.session.state)
  <2> DEFINE n == Switch!RequestStart(m, web)
  <2>1. /\ Tallied(n) /\ Calm(n) /\ n.given = <<>>
        /\ Alters(m, n, {"relay", "pulse", "run", "given", "view"})
    BY <1>30, <1>43
  <2>2. Switch!BeginBrew(m, web)
          = Switch!To(n, IF m.relay = "TRIPPED" THEN "REQUIRES_OFF" ELSE "BREW", web)
    BY Zenon DEF Switch!BeginBrew
  <2> HIDE DEF n
  <2>3. n.rinsing = m.rinsing
    BY <2>1 DEF Alters, MachineFields
  <2>4. \A state \in {"REQUIRES_OFF", "BREW"} : Rested(n, state)
    BY <1>43, <2>1, <2>3 DEF Counted
  <2> HIDE DEF Rested
  <2> QED
    BY <1>40, <2>2, <2>4
<1>44. ASSUME NEW m, Formed(m), ~m.rinsing, NEW web
       PROVE  LET p == Switch!To(Switch!BeginRinse(m), "RINSE", web)
              IN  Rested(p.machine, p.session.state)
  <2> DEFINE n == Switch!BeginRinse(m)
  <2>1. /\ Tallied(n) /\ Calm(n) /\ Uncut(n) /\ n.given = <<>>
        /\ n.rinsing = TRUE /\ n.pulse = TRUE
    BY <1>31, <1>44
  <2> HIDE DEF n
  <2>2. Rested(n, "RINSE")
    BY <2>1 DEF Counted
  <2> HIDE DEF Rested
  <2> QED
    BY <1>40, <2>2 DEF n
<1>45. ASSUME StopCounted, v3 = "control", NEW blocked, NEW ends, NEW over
       PROVE  LET p == Switch!StatePass(blocked, ends, over)
              IN  Rested(p.machine, p.session.state)
  <2> DEFINE pass == Switch!StatePass(blocked, ends, over)
             m == v1
             untripped == [m EXCEPT !.tripped = FALSE]
             f == [idle |-> FALSE]
             settled == Switch!Seen(m, f)
             stay == Switch!To(m, v2.state, v2.web)
  <2> SUFFICES Rested(pass.machine, pass.session.state)
    OBVIOUS
  <2>1. Counted(m, v2.state) /\ Tallied(m) /\ Calm(m)
    BY <1>45 DEF StopCounted, Counted
  <2>2. /\ Tallied(untripped) /\ Calm(untripped) /\ untripped.given = m.given
        /\ untripped.skip = m.skip /\ untripped.pulse = m.pulse
        /\ untripped.rinsing = m.rinsing
    BY <2>1 DEF Tallied, Formed, MachineFields, Calm, Switch!HasReed
  <2>3. Tallied(settled) /\ Calm(settled) /\ settled.given = m.given
    <3>1. DOMAIN f = {"idle"}
      OBVIOUS
    <3> HIDE DEF f
    <3>2. Sensed(m, settled) /\ Calm(settled)
      BY <1>15, <2>1, <3>1 DEF Tallied
    <3>3. Alters(m, settled, {"view"})
      BY <1>5, <2>1, <3>1 DEF Tallied
    <3> QED
      BY <1>13, <3>2, <3>3 DEF Alters, MachineFields
  \* A toggle behind a brew: the pass is one that trips, or one that is asked to stop.
  <2>4. /\ v2.state \in {"BREW", "RINSE"} =>
             \/ m.given = <<>> \/ (v2.state = "RINSE" /\ m.given = <<"wall">>)
             \/ v2.state # "RINSE" /\ (m.skip \/ m.pulse)
        /\ v2.state = "BREW" /\ m.given # <<>> /\ ~m.tripped => Switch!WantsStop
        /\ v2.state = "RINSE" /\ ~m.tripped => m.given = <<>>
    BY <1>45, <2>1 DEF StopCounted, Counted, Switch!WantsStop, Switch!WantsStart,
       Switch!WantsRinse
  <2>5. ASSUME NEW o, Tallied(o), Calm(o), v2.state \in {"BREW", "RINSE"}, NEW cut,
               NEW state \in Idle,
               \/ o.given = <<>> \/ (v2.state = "RINSE" /\ o.given = <<"wall">>)
               \/ v2.state # "RINSE" /\ (o.skip \/ o.pulse),
               pass = Switch!End(o, cut, over, state)
        PROVE  Rested(pass.machine, pass.session.state)
    <3> DEFINE rinse == v2.state = "RINSE"
    <3>1. pass = Switch!To(Switch!Finalize(o, rinse, cut, over), state, FALSE)
      BY <2>5, Zenon DEF Switch!End
    <3>2. \/ o.given = <<>> \/ (rinse /\ o.given = <<"wall">>)
          \/ ~rinse /\ (o.skip \/ o.pulse)
      BY <2>5
    <3> HIDE DEF pass, rinse, untripped, settled, Rested, m, Idle
    <3> QED
      BY <1>42, <2>5, <3>1, <3>2
  <2> DEFINE no == FALSE
  <2>6. CASE m.tripped
    <3> DEFINE end == Switch!End(untripped, no, over, "REQUIRES_OFF")
               rest == Switch!To(untripped, "REQUIRES_OFF", no)
    <3>1. CASE v2.state \in {"BREW", "RINSE"}
      <4>1. pass = end
        BY <2>6, <3>1, Zenon DEF Switch!StatePass, Switch!Active
      <4> HIDE DEF pass, untripped, settled, Rested, no
      <4>2. \/ untripped.given = <<>> \/ (v2.state = "RINSE" /\ untripped.given = <<"wall">>)
            \/ v2.state # "RINSE" /\ (untripped.skip \/ untripped.pulse)
        BY <2>2, <2>4, <3>1
      <4> HIDE DEF m
      <4> QED
        BY <2>2, <2>5, <3>1, <4>1, <4>2
    <3>2. CASE v2.state \notin {"BREW", "RINSE"}
      <4>1. pass = rest
        BY <2>6, <3>2, Zenon DEF Switch!StatePass, Switch!Active
      <4> HIDE DEF pass, untripped, settled, Rested, no
      <4>2. Rested(untripped, "REQUIRES_OFF")
        BY <1>41, <2>1, <2>2, <3>2 DEF Counted
      <4> QED
        BY <1>40, <4>1, <4>2
    <3> HIDE DEF pass, Rested
    <3> QED
      BY <3>1, <3>2
  \* What the rest of the pass may come to
  <2>7. ASSUME v2.state \in {"BREW", "RINSE"}, NEW cut, NEW state \in Idle,
               \/ pass = Switch!End(m, cut, over, state)
               \/ pass = Switch!End(settled, cut, over, state) /\ m.given = <<>>
        PROVE  Rested(pass.machine, pass.session.state)
    <3>1. CASE pass = Switch!End(m, cut, over, state)
      <4> HIDE DEF pass, settled, Rested, m, Idle
      <4> QED
        BY <2>1, <2>4, <2>5, <2>7, <3>1
    <3>2. CASE pass = Switch!End(settled, cut, over, state) /\ m.given = <<>>
      <4> HIDE DEF pass, settled, Rested, m, Idle
      <4> QED
        BY <2>3, <2>5, <2>7, <3>2
    <3> QED
      BY <2>7, <3>1, <3>2
  <2>8. ASSUME NEW state, NEW web, pass = Switch!To(m, state, web), ~m.rinsing,
               state # "RINSE", state = "BREW" => m.given = <<>>
        PROVE  Rested(pass.machine, pass.session.state)
    <3> HIDE DEF pass, Rested, m
    <3>1. Rested(m, state)
      BY <1>41, <2>1, <2>8
    <3> QED
      BY <1>40, <2>8, <3>1
  <2>9. ASSUME pass = stay, v2.state \in {"BREW", "RINSE"} => m.given = <<>>
        PROVE  Rested(pass.machine, pass.session.state)
    <3>1. Rested(m, v2.state)
      BY <2>1, <2>9
    <3> HIDE DEF pass, Rested, m
    <3> QED
      BY <1>40, <2>9, <3>1
  <2>10. ASSUME v2.state # "RINSE", NEW web,
                \/ pass = Switch!BeginBrew(m, web)
                \/ pass = Switch!To(Switch!BeginRinse(m), "RINSE", web)
         PROVE  Rested(pass.machine, pass.session.state)
    <3>1. Formed(m) /\ ~m.rinsing
      BY <2>1, <2>10 DEF Counted, Tallied
    <3> HIDE DEF pass, Rested, m
    <3> QED
      BY <1>43, <1>44, <2>10, <3>1
  <2>11. CASE ~m.tripped
    <3> DEFINE idle == ~Switch!HasReed(m) /\ m.view.idle
               held == Switch!AfterHold(m)
               brewing ==
                 CASE Switch!WantsRinse -> Switch!To(Switch!BeginRinse(m), "RINSE", v2.web)
                   [] Switch!WantsStop -> Switch!End(m, FALSE, over, "READY")
                   [] ~Switch!WantsRinse /\ ~Switch!WantsStop /\ idle ->
                        Switch!End(settled, FALSE, over, held)
                   [] ~Switch!WantsRinse /\ ~Switch!WantsStop /\ ~idle /\ ends # "none" ->
                        Switch!End(m, ends = "cut", over, held)
                   [] OTHER -> stay
               due == v2.state = "REQUIRES_OFF"
               starts == v2.state = "READY" /\ Switch!WantsStart /\ ~blocked
               rinses == v2.state = "READY" /\ Switch!WantsRinse /\ ~blocked
               ended == v2.state = "RINSE" /\ ends = "other"
               runs == v2.state = "BREW"
               moving == CASE due -> Switch!To(m, held, FALSE)
                           [] starts -> Switch!BeginBrew(m, FALSE)
                           [] rinses -> Switch!To(Switch!BeginRinse(m), "RINSE", FALSE)
                           [] ended -> Switch!End(m, FALSE, over, held)
                           [] runs -> brewing
                           [] OTHER -> stay
    <3>1. held \in Idle /\ "READY" \in Idle
      BY <1>40
    <3>2. \/ brewing = Switch!To(Switch!BeginRinse(m), "RINSE", v2.web)
          \/ \E cut, state : state \in Idle /\ brewing = Switch!End(m, cut, over, state)
          \/ /\ ~Switch!WantsStop
             /\ \/ brewing = stay
                \/ \E cut, state : /\ state \in Idle
                                   /\ brewing = Switch!End(settled, cut, over, state)
      <4>1. Switch!WantsStop => ~Switch!WantsRinse
        BY DEF Switch!WantsStop
      <4> HIDE DEF stay, idle, settled, held, Idle, m
      <4>2. CASE Switch!WantsRinse
        BY <4>1, <4>2, Zenon
      <4>3. CASE Switch!WantsStop
        <5>1. brewing = Switch!End(m, FALSE, over, "READY")
          BY <4>1, <4>3, Zenon
        <5> HIDE DEF brewing
        <5> QED
          BY <3>1, <5>1, Zenon
      <4>4. CASE ~Switch!WantsRinse /\ ~Switch!WantsStop /\ idle
        <5>1. brewing = Switch!End(settled, FALSE, over, held)
          BY <4>4, Zenon
        <5> HIDE DEF brewing
        <5> QED
          BY <3>1, <4>4, <5>1, Zenon
      <4>5. CASE ~Switch!WantsRinse /\ ~Switch!WantsStop /\ ~idle /\ ends # "none"
        <5> DEFINE cut == ends = "cut"
        <5> HIDE DEF cut
        <5>1. brewing = Switch!End(m, cut, over, held)
          BY <4>5, Zenon DEF cut
        <5> HIDE DEF brewing
        <5> QED
          BY <3>1, <5>1, Zenon
      <4>6. CASE ~Switch!WantsRinse /\ ~Switch!WantsStop /\ ~idle /\ ~(ends # "none")
        <5>1. brewing = stay
          BY <4>6, Zenon
        <5> HIDE DEF brewing
        <5> QED
          BY <4>6, <5>1, Zenon
      <4> HIDE DEF brewing
      <4> QED
        BY <4>2, <4>3, <4>4, <4>5, <4>6, Zenon
    <3>3. \/ moving = stay /\ ~runs
          \/ moving = brewing /\ runs
          \/ due /\ \E state, web : state \in Idle /\ moving = Switch!To(m, state, web)
          \/ starts /\ \E web : moving = Switch!BeginBrew(m, web)
          \/ rinses /\ \E web : moving = Switch!To(Switch!BeginRinse(m), "RINSE", web)
          \/ ended /\ \E cut, state : state \in Idle /\ moving = Switch!End(m, cut, over, state)
      <4>1. /\ due => ~starts /\ ~rinses /\ ~ended /\ ~runs
            /\ starts => ~rinses /\ ~ended /\ ~runs
            /\ rinses => ~ended /\ ~runs
            /\ ended => ~runs
        BY DEF Switch!WantsStart
      <4> HIDE DEF stay, brewing, due, starts, rinses, ended, runs, held, Idle, m
      <4>2. CASE due
        <5>1. moving = Switch!To(m, held, FALSE)
          BY <4>1, <4>2, Zenon
        <5> HIDE DEF moving
        <5> QED
          BY <3>1, <4>2, <5>1, Zenon
      <4>3. CASE starts
        <5>1. moving = Switch!BeginBrew(m, FALSE)
          BY <4>1, <4>3, Zenon
        <5> HIDE DEF moving
        <5> QED
          BY <4>3, <5>1, Zenon
      <4>4. CASE rinses
        <5>1. moving = Switch!To(Switch!BeginRinse(m), "RINSE", FALSE)
          BY <4>1, <4>4, Zenon
        <5> HIDE DEF moving
        <5> QED
          BY <4>4, <5>1, Zenon
      <4>5. CASE ended
        <5>1. moving = Switch!End(m, FALSE, over, held)
          BY <4>1, <4>5, Zenon
        <5> HIDE DEF moving
        <5> QED
          BY <3>1, <4>5, <5>1, Zenon
      <4>6. CASE runs
        <5>1. moving = brewing
          BY <4>1, <4>6, Zenon
        <5> HIDE DEF moving
        <5> QED
          BY <4>6, <5>1, Zenon
      <4>7. CASE ~due /\ ~starts /\ ~rinses /\ ~ended /\ ~runs
        <5>1. moving = stay
          BY <4>7, Zenon
        <5> HIDE DEF moving
        <5> QED
          BY <4>7, <5>1, Zenon
      <4> HIDE DEF moving
      <4> QED
        BY <4>2, <4>3, <4>4, <4>5, <4>6, <4>7, Zenon
    <3>4. \/ pass = moving
          \/ /\ v2.state \in {"BREW", "RINSE"}
             /\ \E cut, state : state \in Idle /\ pass = Switch!End(m, cut, over, state)
      <4>1. \/ pass = moving
            \/ v2.state \in {"BREW", "RINSE"} /\ pass = Switch!End(m, FALSE, over, held)
        BY <2>11, Zenon DEF Switch!StatePass, Switch!Active
      <4> HIDE DEF pass, moving, held, m, Idle
      <4> QED
        BY <3>1, <4>1, Zenon
    <3> HIDE DEF pass, moving, brewing, settled, stay, Rested, held
    <3>5. CASE pass = brewing /\ runs
      <4>1. /\ v2.state \in {"BREW", "RINSE"} /\ v2.state # "RINSE" /\ v2.state = "BREW"
            /\ ~Switch!WantsStop => m.given = <<>>
        BY <2>4, <2>11, <3>5
      <4> HIDE DEF m, Idle
      <4>2. CASE pass = Switch!To(Switch!BeginRinse(m), "RINSE", v2.web)
        BY <2>10, <4>1, <4>2
      <4>3. CASE \E cut, state : state \in Idle /\ pass = Switch!End(m, cut, over, state)
        BY <2>7, <4>1, <4>3
      <4>4. CASE ~Switch!WantsStop /\ pass = stay
        BY <2>9, <4>1, <4>4
      <4>5. CASE /\ ~Switch!WantsStop
                 /\ \E cut, state : /\ state \in Idle
                                    /\ pass = Switch!End(settled, cut, over, state)
        BY <2>7, <4>1, <4>5
      <4> QED
        BY <3>2, <3>5, <4>2, <4>3, <4>4, <4>5
    <3>6. CASE pass = stay /\ ~runs
      BY <2>4, <2>9, <2>11, <3>6
    <3>7. CASE due /\ \E state, web : state \in Idle /\ pass = Switch!To(m, state, web)
      <4>1. ~m.rinsing
        BY <2>1, <3>7 DEF Counted
      <4>2. \A state \in Idle : state # "RINSE" /\ state # "BREW"
        OBVIOUS
      <4> HIDE DEF m, Idle
      <4> QED
        BY <2>8, <3>7, <4>1, <4>2
    <3>8. CASE starts /\ \E web : pass = Switch!BeginBrew(m, web)
      BY <2>10, <3>8
    <3>9. CASE rinses /\ \E web : pass = Switch!To(Switch!BeginRinse(m), "RINSE", web)
      BY <2>10, <3>9
    <3>10. CASE /\ v2.state \in {"BREW", "RINSE"}
                /\ \E cut, state : state \in Idle /\ pass = Switch!End(m, cut, over, state)
      <4> HIDE DEF m, Idle
      <4> QED
        BY <2>7, <3>10
    <3>11. ended \/ runs => v2.state \in {"BREW", "RINSE"}
      OBVIOUS
    <3> HIDE DEF m, Idle, due, starts, rinses, ended, runs
    <3> QED
      BY <3>3, <3>4, <3>5, <3>6, <3>7, <3>8, <3>9, <3>10, <3>11, Zenon
  <2> HIDE DEF pass, Rested
  <2> QED
    BY <2>6, <2>11
<1>46. ASSUME NEW m, NEW state, Rested(m, state)
       PROVE  Rested(Switch!Outcome(m, state \in {"BREW", "RINSE"}), state)
  <2> DEFINE active == state \in {"BREW", "RINSE"}
             a == [m EXCEPT !.run = FALSE, !.gesture = FALSE]
             n == Switch!NoteStartCanceled(a)
  <2>1. CASE Switch!Outcome(m, active) = m
    BY <1>46, <2>1
  <2>2. CASE Switch!Outcome(m, active) = n /\ ~active
    <3>1. Formed(a) /\ Alters(m, a, {"run", "gesture"}) /\ a.run = FALSE
      BY <1>46 DEF Counted, Tallied, Formed, Alters, MachineFields, Switch!HasReed
    <3> HIDE DEF a
    <3>2. /\ Noted(a, n) /\ n.run = FALSE /\ n.given = <<>> /\ Calm(n)
          /\ ~Switch!HasReed(n) => ~n.view.stopAck
      BY <1>10, <3>1
    <3> HIDE DEF n
    <3>3. Tallied(n) /\ n.rinsing = m.rinsing
      BY <1>0, <3>1, <3>2 DEF Noted, Tallied, Alters, MachineFields
    <3>4. Rested(n, state)
      BY <1>41, <1>46, <2>2, <3>2, <3>3 DEF Counted
    <3> HIDE DEF Rested
    <3> QED
      BY <2>2, <3>4
  <2>3. \/ Switch!Outcome(m, active) = m
        \/ Switch!Outcome(m, active) = n /\ ~active
    BY Zenon DEF Switch!Outcome
  <2> HIDE DEF active, n, Rested
  <2> QED
    BY <2>1, <2>2, <2>3 DEF active
<1>47. ASSUME NEW m, NEW s, Rested(m, s.state), NEW command, NEW over
       PROVE  LET p == Switch!Obey(m, s, command, over)
              IN  Rested(p.machine, p.session.state)
  <2> DEFINE obeyed == Switch!Obey(m, s, command, over)
             active == s.state \in {"BREW", "RINSE"}
             a == [m EXCEPT !.skip = FALSE]
             asked == Switch!Reason(a)
             off == Switch!SettleOff(m)
             rinse == s.state = "RINSE"
             no == FALSE
             Ended(x) == Switch!To(Switch!Finalize(x, rinse, no, over),
                                   Switch!AfterHold(x), no)
             forced == [orphan |-> FALSE, cut |-> FALSE, armed |-> FALSE, retry |-> FALSE,
                        idle |-> FALSE]
             on == Switch!Seen(Switch!Confirmed(m), forced)
  <2> SUFFICES Rested(obeyed.machine, obeyed.session.state)
    OBVIOUS
  <2>1. /\ Tallied(m) /\ Calm(m) /\ Formed(m) /\ (active => m.given = <<>>)
        /\ ~active => ~m.rinsing
        /\ s.state # "RINSE" => ~m.rinsing
    BY <1>47 DEF Counted, Tallied
  <2>2. /\ Tallied(asked) /\ Calm(asked) /\ asked.given = <<>> /\ asked.rinsing = m.rinsing
    BY <1>0, <2>1 DEF Tallied, Formed, MachineFields, Calm, Switch!HasReed, Switch!Reason
  <2>3. Tallied(off) /\ Calm(off) /\ off.given = m.given /\ off.rinsing = m.rinsing
    <3>1. Noted(m, off) /\ off.given = m.given
      BY <1>6, <2>1
    <3>2. Tallied(off) /\ Calm(off)
      BY <1>13, <1>16, <2>1
    <3> HIDE DEF off
    <3> QED
      BY <3>1, <3>2 DEF Noted, Alters, MachineFields
  <2>4. ASSUME NEW x, Tallied(x), Calm(x), active => x.given = <<>>, active, obeyed = Ended(x)
        PROVE  Rested(obeyed.machine, obeyed.session.state)
    <3>1. x.given = <<>> /\ Switch!AfterHold(x) \in Idle
      BY <1>40, <2>4
    <3> HIDE DEF obeyed, active, rinse, no, Rested, Idle
    <3> QED
      BY <1>42, <2>4, <3>1
  <2>5. ASSUME NEW n, Tallied(n), Calm(n), n.rinsing = m.rinsing, ~active, NEW web,
               obeyed = Switch!To(n, s.state, web)
        PROVE  Rested(obeyed.machine, obeyed.session.state)
    <3>1. Rested(n, s.state)
      BY <1>41, <2>1, <2>5
    <3> HIDE DEF obeyed, Rested
    <3> QED
      BY <1>40, <2>5, <3>1
  <2>6. CASE obeyed = Switch!To(Switch!RequestStop(asked, over), s.state, no) /\ ~active
    <3> DEFINE n == Switch!RequestStop(asked, over)
    <3> HIDE DEF asked
    <3>1. /\ Tallied(n) /\ Calm(n)
          /\ Alters(asked, n, {"relay", "pulse", "suppressed", "skip", "run", "given", "view"})
      BY <1>27, <2>2
    <3> HIDE DEF n, no, active, obeyed, Rested
    <3>2. n.rinsing = m.rinsing
      BY <2>2, <3>1 DEF Alters, MachineFields
    <3>3. obeyed = Switch!To(n, s.state, no)
      BY <2>6 DEF n
    <3> QED
      BY <2>5, <2>6, <3>1, <3>2, <3>3
  <2>7. CASE obeyed = Switch!To(on, s.state, s.web)
    <3> DEFINE c == Switch!Confirmed(m)
               n == Switch!Seen(c, forced)
    <3>1. /\ Noted(m, c) /\ c.run = TRUE /\ c.given = <<>>
          /\ ~Switch!HasReed(c) => ~c.view.stopAck
      BY <1>12, <2>1
    <3> HIDE DEF c
    <3>2. /\ DOMAIN forced = {"orphan", "cut", "armed", "retry", "idle"}
          /\ forced.cut = FALSE /\ forced.retry = FALSE
      OBVIOUS
    <3> HIDE DEF forced
    <3>3. /\ Formed(n) /\ SameBuild(c, n) /\ Alters(c, n, {"view"})
          /\ \A k \in DOMAIN c.view : n.view[k] = IF k \in DOMAIN forced THEN forced[k]
                                                  ELSE c.view[k]
      BY <1>5, <3>1, <3>2 DEF Noted
    <3> HIDE DEF n
    <3>4. Tallied(n) /\ Calm(n) /\ Uncut(n) /\ n.given = <<>>
      BY <1>0, <3>1, <3>2, <3>3
         DEF Noted, Tallied, Formed, SameBuild, Alters, MachineFields, Calm, Uncut,
             Switch!HasReed
    <3>5. n.rinsing = m.rinsing /\ n.relay = m.relay /\ n.pulse = m.pulse
      BY <3>1, <3>3 DEF Noted, Alters, MachineFields
    <3>6. Rested(n, s.state)
      BY <1>47, <3>4, <3>5 DEF Counted, Switch!Closed
    <3>7. obeyed = Switch!To(n, s.state, s.web)
      BY <2>7, Zenon DEF n, c
    <3> HIDE DEF obeyed, Rested
    <3> QED
      BY <1>40, <3>6, <3>7
  <2>8. CASE obeyed = Switch!To(m, s.state, s.web)
    <3> HIDE DEF obeyed, Rested
    <3> QED
      BY <1>40, <1>47, <2>8
  <2>9. CASE /\ s.state = "READY"
             /\ \/ \E web : obeyed = Switch!BeginBrew(m, web)
                \/ \E web : obeyed = Switch!To(Switch!BeginRinse(m), "RINSE", web)
    <3> HIDE DEF obeyed, Rested
    <3> QED
      BY <1>43, <1>44, <2>1, <2>9
  <2>10. \/ obeyed = Ended(asked) /\ active
         \/ obeyed = Switch!To(Switch!RequestStop(asked, over), s.state, no) /\ ~active
         \/ /\ s.state = "READY"
            /\ \/ \E web : obeyed = Switch!BeginBrew(m, web)
               \/ \E web : obeyed = Switch!To(Switch!BeginRinse(m), "RINSE", web)
         \/ obeyed = Ended(off) /\ active
         \/ obeyed = Switch!To(off, s.state, no) /\ ~active
         \/ obeyed = Switch!To(on, s.state, s.web)
         \/ obeyed = Switch!To(m, s.state, s.web)
    BY Zenon DEF Switch!Obey
  <2> HIDE DEF obeyed, Ended, asked, off, on, active, no, Rested
  <2> QED
    BY <2>1, <2>2, <2>3, <2>4, <2>5, <2>6, <2>7, <2>8, <2>9, <2>10
\* The steps of a pass
<1>48. ASSUME StopCounted, NEW on, NEW long, NEW allowed, NEW reed, NEW over,
              Switch!Input(on, long, allowed, reed, over)
       PROVE  StopCounted'
  <2> DEFINE a == [v1 EXCEPT !.allowed = allowed]
             f == [reed |-> reed, sawOff |-> a.view.sawOff \/ ~reed]
             b == Switch!SampleReed(a, reed)
             c == Switch!UpdateInput(b, on, long, over)
  <2>1. /\ Counted(v1, v2.state) /\ v1.edges = {}
        /\ v2.state \in {"BREW", "RINSE"} => v1.given = <<>>
    BY <1>48 DEF StopCounted, Switch!Input
  <2>2. v1' = c /\ v2' = v2 /\ v3' = "service"
    BY <1>48, Zenon DEF Switch!Input
  <2>3. /\ Tallied(a) /\ Calm(a) /\ (Uncut(v1) => Uncut(a))
        /\ a.edges = {} /\ a.given = v1.given /\ a.rinsing = v1.rinsing
        /\ a.relay = v1.relay /\ a.pulse = v1.pulse
    BY <2>1 DEF Counted, Tallied, Formed, MachineFields, Calm, Uncut, Switch!HasReed
  <2> HIDE DEF a
  <2>4. /\ Tallied(b) /\ Calm(b) /\ (Uncut(a) => Uncut(b)) /\ Alters(a, b, {"view"})
    <3>1. b = a \/ (b = Switch!Seen(a, f) /\ Switch!HasReed(a))
      BY Zenon DEF Switch!SampleReed
    <3>2. Alters(a, a, {"view"})
      BY <2>3 DEF Tallied, Formed, Alters
    <3>3. DOMAIN f = {"reed", "sawOff"}
      OBVIOUS
    <3> HIDE DEF f
    <3>4. CASE b = Switch!Seen(a, f) /\ Switch!HasReed(a)
      <4>1. Sensed(a, b) /\ Calm(b)
        BY <1>15, <2>3, <3>3, <3>4
      <4>2. Alters(a, b, {"view"})
        BY <1>5, <2>3, <3>3, <3>4 DEF Tallied
      <4> QED
        BY <4>1, <4>2 DEF Sensed
    <3> HIDE DEF b
    <3> QED
      BY <2>3, <3>1, <3>2, <3>4
  <2> HIDE DEF b
  <2>5. /\ b.edges = {} /\ b.given = v1.given /\ b.rinsing = v1.rinsing
        /\ b.relay = v1.relay /\ b.pulse = v1.pulse
    BY <2>3, <2>4 DEF Alters, MachineFields
  <2>6. /\ Tallied(c) /\ Calm(c) /\ (Uncut(b) => Uncut(c))
        /\ Alters(b, c, Hand \cup {"phys", "relay", "pulse", "suppressed"})
        /\ b.rinsing => (Switch!Closed(c) => c.pulse)
        /\ \/ c.given \in {<<>>, b.given}
           \/ /\ c.skip = TRUE /\ c.edges = b.edges \cup {"off", "user"}
              /\ b.rinsing => Switch!Closed(b) /\ ~b.pulse
    BY <1>39, <2>4
  <2>7. c.rinsing = b.rinsing
    BY <2>6 DEF Alters, MachineFields
  <2> HIDE DEF c, Hand
  <2>8. Counted(c, v2.state)
    <3>1. CASE v2.state = "RINSE"
      <4>1. v1.rinsing /\ v1.given = <<>> /\ Uncut(v1) /\ (Switch!Closed(v1) => v1.pulse)
        BY <2>1, <3>1 DEF Counted
      <4>2. c.given = <<>>
        BY <2>5, <2>6, <4>1 DEF Switch!Closed
      <4> QED
        BY <2>1, <2>3, <2>4, <2>5, <2>6, <2>7, <3>1, <4>1, <4>2 DEF Counted, Switch!Closed
    <3>2. CASE v2.state # "RINSE"
      BY <2>1, <2>5, <2>6, <2>7, <3>2 DEF Counted
    <3> QED
      BY <3>1, <3>2
  <2>9. v2.state = "BREW" /\ c.given # <<>> =>
          c.skip = TRUE /\ "off" \in c.edges /\ c.edges \cap {"on", "rinse"} = {}
    BY <2>1, <2>5, <2>6
  <2>10. v2.state = "RINSE" => c.given = <<>>
    BY <2>1, <2>5, <2>6 DEF Counted, Switch!Closed
  <2> QED
    BY <2>2, <2>8, <2>9, <2>10 DEF StopCounted
<1>49. ASSUME StopCounted, NEW reading, NEW wall, NEW over,
              Switch!Service(reading, wall, over)
       PROVE  StopCounted'
  <2> DEFINE a == Switch!Sense(v1, reading, Switch!Active)
             b == Switch!Drive(a, over)
             c == Switch!Wall(b, wall)
             d == Switch!RetryStop(c)
  <2>1. /\ Counted(v1, v2.state) /\ Tallied(v1) /\ Calm(v1) /\ v3 = "service"
        /\ v2.state = "RINSE" => v1.given = <<>>
    BY <1>49 DEF StopCounted, Counted, Switch!Service
  <2>2. v1' = d /\ v2' = v2 /\ v3' = "control"
    BY <1>49, Zenon DEF Switch!Service
  <2>3. Sensed(v1, a) /\ Owed(a)
    BY <1>20, <2>1
  <2> HIDE DEF a
  <2>4. /\ Alters(a, b, {"relay", "pulse", "suppressed"})
        /\ a.rinsing => (Switch!Closed(b) => b.pulse)
    BY <1>23, <2>3 DEF Sensed, Alters
  <2> HIDE DEF b
  <2>5. /\ DOMAIN a = MachineFields /\ DOMAIN b = MachineFields /\ b.given = a.given
        /\ b.run = a.run /\ b.view = a.view /\ b.rinsing = a.rinsing /\ b.edges = a.edges
        /\ b.skip = a.skip
    BY <2>3, <2>4 DEF Sensed, Alters, MachineFields
  <2>6. Tallied(b) /\ Owed(b) /\ (Uncut(a) => Uncut(b))
    BY <1>21, <2>3, <2>5 DEF Sensed
  <2>7. /\ Tallied(c) /\ Owed(c)
        /\ Alters(b, c, {"relay", "tripped", "run", "pulse", "given", "view"})
        /\ \/ c.given = b.given /\ (Uncut(b) => Uncut(c))
           \/ c.given = <<"wall">> /\ c.pulse = TRUE /\ c.tripped = TRUE /\ Calm(c)
        /\ (Switch!Closed(b) => b.pulse) => (Switch!Closed(c) => c.pulse)
    BY <1>34, <2>6
  <2> HIDE DEF c
  <2>8. Tallied(d) /\ Calm(d) /\ Alters(c, d, {"relay", "pulse", "view"}) /\ (Calm(c) => d = c)
    BY <1>35, <2>7
  <2> HIDE DEF d
  <2>9. a.rinsing = v1.rinsing /\ a.skip = v1.skip
    BY <2>3 DEF Sensed, Alters, MachineFields
  <2>10. /\ c.rinsing = v1.rinsing /\ d.rinsing = v1.rinsing /\ d.given = c.given
         /\ d.edges = a.edges /\ d.skip = v1.skip
    BY <2>5, <2>7, <2>8, <2>9 DEF Alters, MachineFields
  <2>11. Counted(d, v2.state)
    <3>1. CASE v2.state = "RINSE"
      <4>1. v1.rinsing /\ v1.given = <<>> /\ Uncut(v1)
        BY <2>1, <3>1 DEF Counted
      <4>2. b.given = <<>> /\ Uncut(b)
        BY <2>3, <2>5, <2>6, <4>1 DEF Sensed
      <4>3. \/ c.given = <<>> /\ Uncut(c) /\ Calm(c)
            \/ c.given = <<"wall">> /\ c.tripped /\ Calm(c)
        BY <2>7, <4>2 DEF Owed, Uncut, Calm
      <4>4. d = c
        BY <2>8, <4>3
      <4>5. Switch!Closed(c) => c.pulse
        BY <2>4, <2>7, <2>9, <4>1
      <4> QED
        BY <2>1, <2>7, <2>8, <2>10, <3>1, <4>1, <4>3, <4>4, <4>5 DEF Counted
    <3>2. CASE v2.state # "RINSE"
      BY <2>1, <2>8, <2>10, <3>2 DEF Counted
    <3> QED
      BY <3>1, <3>2
  <2>12. ASSUME v2.state = "BREW", d.given # <<>>
         PROVE  \/ d.skip = TRUE /\ "off" \in d.edges /\ d.edges \cap {"on", "rinse"} = {}
                \/ d.tripped /\ d.pulse
    <3>1. CASE c.given = b.given
      <4>1. v1.given # <<>>
        BY <2>3, <2>5, <2>10, <2>12, <3>1 DEF Sensed
      <4>2. v1.skip = TRUE /\ "off" \in v1.edges /\ v1.edges \cap {"on", "rinse"} = {}
        BY <1>49, <2>1, <2>12, <4>1 DEF StopCounted
      <4> QED
        BY <2>3, <2>10, <4>2 DEF Sensed
    <3>2. CASE c.given = <<"wall">> /\ c.pulse = TRUE /\ c.tripped = TRUE /\ Calm(c)
      BY <2>8, <3>2
    <3> QED
      BY <2>7, <3>1, <3>2
  <2> QED
    BY <2>2, <2>11, <2>12 DEF StopCounted
<1>50. ASSUME StopCounted, NEW blocked, NEW ends, NEW command, NEW over,
              Switch!Control(blocked, ends, command, over)
       PROVE  StopCounted'
  <2> DEFINE passed == Switch!StatePass(blocked, ends, over)
             after == Switch!Outcome(passed.machine,
                                     passed.session.state \in {"BREW", "RINSE"})
             obeyed == Switch!Obey(after, passed.session, command, over)
             m == obeyed.machine
             n == [m EXCEPT !.edges = {}, !.allowed = TRUE]
  <2>1. v3 = "control" /\ v1' = n /\ v2' = obeyed.session /\ v3' = "input"
    BY <1>50, Zenon DEF Switch!Control
  <2>2. Rested(passed.machine, passed.session.state)
    BY <1>45, <1>50, <2>1
  <2> HIDE DEF passed, Rested
  <2>3. Rested(after, passed.session.state)
    BY <1>46, <2>2
  <2> HIDE DEF after
  <2>4. Rested(m, obeyed.session.state)
    BY <1>47, <2>3
  <2> HIDE DEF obeyed
  <2>5. /\ DOMAIN m = MachineFields /\ DOMAIN n = MachineFields /\ n.given = m.given
        /\ n.run = m.run /\ n.view = m.view /\ n.rinsing = m.rinsing /\ n.relay = m.relay
        /\ n.pulse = m.pulse /\ n.edges = {}
    BY <2>4 DEF Rested, Counted, Tallied, Formed, MachineFields
  <2> HIDE DEF m, n
  <2>6. Counted(n, obeyed.session.state) /\ (obeyed.session.state \in {"BREW", "RINSE"}
                                                => n.given = <<>>)
    BY <1>21, <2>4, <2>5 DEF Rested, Counted, Switch!Closed
  <2> QED
    BY <2>1, <2>5, <2>6 DEF StopCounted
<1>51. ASSUME StopCounted, Switch!Timer PROVE StopCounted'
  <2> DEFINE n == Switch!Trip(v1)
  <2>1. v1' = n /\ v2' = v2 /\ v3' = v3
    BY <1>51 DEF Switch!Timer
  <2>2. /\ Counted(v1, v2.state) /\ DOMAIN v1 = MachineFields
    BY <1>51 DEF StopCounted, Counted, Tallied, Formed
  <2>3. /\ DOMAIN n = MachineFields /\ n.given = v1.given /\ n.run = v1.run
        /\ n.view = v1.view /\ n.rinsing = v1.rinsing /\ n.relay = "TRIPPED"
        /\ n.pulse = v1.pulse /\ n.skip = v1.skip /\ n.edges = v1.edges /\ n.tripped = TRUE
    BY <2>2 DEF Switch!Trip, MachineFields
  <2> HIDE DEF n
  <2>4. Counted(n, v2.state)
    BY <1>21, <2>2, <2>3 DEF Counted, Switch!Closed
  <2> QED
    BY <1>51, <2>1, <2>3, <2>4 DEF StopCounted
<1>52. ASSUME StopCounted, [Switch!MomentaryNext]_Switch!momentaryVars PROVE StopCounted'
  <2>1. CASE UNCHANGED Switch!momentaryVars
    BY <1>52, <2>1
       DEF Switch!momentaryVars, StopCounted, Counted, Tallied, Formed, Calm, Uncut,
           Switch!Closed, Switch!HasReed
  <2> QED
    BY <1>48, <1>49, <1>50, <1>51, <1>52, <2>1, Zenon DEF Switch!MomentaryNext
<1>53. Switch!MomentaryInit => StopCounted
  <2> SUFFICES ASSUME Switch!MomentaryInit PROVE StopCounted
    OBVIOUS
  <2> DEFINE Views == {Switch!ReedView(on) : on \in BOOLEAN} \cup {Switch!WeightView}
  <2>1. PICK view \in Views :
           v1 = [relay |-> "OPEN", tripped |-> FALSE, phys |-> FALSE, gesture |-> FALSE,
                 pre |-> Switch!NoPress, fromIdle |-> FALSE, rinseSent |-> FALSE,
                 edges |-> {}, skip |-> FALSE, run |-> FALSE, pulse |-> FALSE,
                 allowed |-> TRUE, suppressed |-> FALSE, rinsing |-> FALSE,
                 given |-> <<>>, view |-> view]
    BY Zenon DEF Switch!MomentaryInit
  <2>2. /\ "kind" \in DOMAIN view
        /\ \/ view.kind = "reed"
           \/ /\ {"state", "stopAck", "retry", "cut"} \subseteq DOMAIN view
              /\ view.stopAck = FALSE /\ view.retry = FALSE
    BY DEF Switch!ReedView, Switch!WeightView
  <2>3. /\ DOMAIN v1 = MachineFields /\ v1.given = <<>> /\ v1.run = FALSE
        /\ v1.rinsing = FALSE /\ v1.view = view /\ v1.edges = {}
    BY <2>1 DEF MachineFields
  <2>4. v2.state = "REQUIRES_OFF"
    BY DEF Switch!MomentaryInit
  <2> HIDE DEF Views
  <2> QED
    BY <1>0, <2>2, <2>3, <2>4
       DEF StopCounted, Counted, Tallied, Formed, Calm, Switch!HasReed
<1>54. StopCounted => Switch!StopsOnce
  <2>1. ASSUME NEW g \in Toggles PROVE Len(g) <= 1 \/ g = <<"wall", "rinse">>
    <3>1. Len(<<>>) = 0
      OBVIOUS
    <3>2. \A why : Len(<<why>>) = 1
      OBVIOUS
    <3>3. g = <<>> \/ (\E why : g = <<why>>) \/ g = <<"wall", "rinse">>
      BY <2>1 DEF Toggles
    <3>4. CASE g = <<>>
      BY <3>1, <3>4
    <3>5. CASE \E why : g = <<why>>
      BY <3>2, <3>5
    <3> QED
      BY <3>3, <3>4, <3>5
  <2> QED
    BY <2>1 DEF StopCounted, Counted, Tallied, Switch!StopsOnce
<1> DEFINE Kept == subject = "switch" => StopCounted
<1>55. Init => Kept
  BY <1>1, <1>53
<1>56. Kept /\ [Next]_vars => Kept'
  BY <1>2, <1>3, <1>4, <1>52
<1>57. Kept => StopsOnce
  BY <1>54 DEF StopsOnce
<1> QED
  BY <1>55, <1>56, <1>57, PTL DEF Spec

\* What becomes of the client when it is told to end or is polled.
LEMMA ClientMoves ==
  ASSUME NEW b, ShapedBle(b)
  PROVE  /\ ShapedBle(Worker!Off(b)) /\ Worker!Off(b).phase = "Idle"
         /\ Worker!Off(b).logged = b.logged
         /\ ShapedBle(Worker!Ended(b)) /\ Worker!Ended(b).phase = "Idle"
         /\ ~Worker!Ended(b).logged
         /\ \A c \in Worker!Polled(b) :
               /\ ShapedBle(c) /\ c.logged = b.logged
               /\ \/ c = b
                  \/ c.phase = "Idle"
                  \/ /\ b.phase = "Scanning" /\ c.phase = "Connecting"
                     /\ c.filter = b.filter
                     /\ b.filter # Worker!Nobody => c.peer = b.filter
                  \/ /\ b.phase = "Connecting" /\ c.phase = "Up"
                     /\ c.filter = b.filter /\ c.peer = b.peer
                  \/ /\ b.phase = "Connecting" /\ c.phase = "Scanning"
                     /\ c.filter = b.filter
<1>1. /\ ShapedBle(Worker!Off(b)) /\ Worker!Off(b).phase = "Idle"
      /\ Worker!Off(b).logged = b.logged
      /\ ShapedBle(Worker!Ended(b)) /\ Worker!Ended(b).phase = "Idle"
      /\ ~Worker!Ended(b).logged
  <2> DEFINE o == [b EXCEPT !.phase = "Idle"]
             p == [o EXCEPT !.filter = Worker!Nobody]
             q == [p EXCEPT !.peer = Worker!Nobody]
             no == FALSE
             r == [q EXCEPT !.logged = no]
  <2>1. ShapedBle(o) /\ o.phase = "Idle" /\ o.logged = b.logged
    BY DEF ShapedBle
  <2> HIDE DEF o
  <2>2. ShapedBle(p) /\ p.phase = "Idle" /\ p.logged = b.logged
    BY <2>1 DEF ShapedBle
  <2> HIDE DEF p
  <2>3. ShapedBle(q) /\ q.phase = "Idle" /\ q.logged = b.logged
    BY <2>2 DEF ShapedBle
  <2> HIDE DEF q
  <2>4. ShapedBle(r) /\ r.phase = "Idle" /\ ~r.logged
    <3> HIDE DEF no
    <3>1. r = [phase |-> q.phase, filter |-> q.filter, peer |-> q.peer, logged |-> no]
      BY <2>3 DEF ShapedBle
    <3>2. no = FALSE
      BY DEF no
    <3> HIDE DEF r
    <3> QED
      BY <2>3, <3>1, <3>2 DEF ShapedBle
  <2>5. Worker!Off(b) = q
    BY Zenon DEF Worker!Off, o, p, q
  <2>6. Worker!Ended(b) = r
    BY <2>5, Zenon DEF Worker!Ended, no, r
  <2> HIDE DEF r
  <2> QED
    BY <2>3, <2>4, <2>5, <2>6
<1>2. ASSUME NEW c \in Worker!Polled(b)
      PROVE  /\ ShapedBle(c) /\ c.logged = b.logged
             /\ \/ c = b
                \/ c.phase = "Idle"
                \/ /\ b.phase = "Scanning" /\ c.phase = "Connecting"
                   /\ c.filter = b.filter
                   /\ b.filter # Worker!Nobody => c.peer = b.filter
                \/ /\ b.phase = "Connecting" /\ c.phase = "Up"
                   /\ c.filter = b.filter /\ c.peer = b.peer
                \/ /\ b.phase = "Connecting" /\ c.phase = "Scanning"
                   /\ c.filter = b.filter
  <2>1. CASE b.phase = "Idle"
    BY <1>2, <2>1 DEF Worker!Polled
  <2>2. CASE b.phase = "Scanning"
    <3>1. c \in {b, Worker!Off(b)}
            \/ \E p \in IF b.filter = Worker!Nobody THEN Worker!Near ELSE {b.filter} :
                  c = [b EXCEPT !.phase = "Connecting", !.peer = p]
      BY <1>2, <2>2 DEF Worker!Polled
    <3>2. CASE c \in {b, Worker!Off(b)}
      BY <1>1, <1>2, <2>2, <3>2
    <3>3. ASSUME NEW p \in IF b.filter = Worker!Nobody THEN Worker!Near ELSE {b.filter},
                 c = [b EXCEPT !.phase = "Connecting", !.peer = p]
          PROVE  /\ ShapedBle(c) /\ c.logged = b.logged /\ c.phase = "Connecting"
                 /\ c.filter = b.filter
                 /\ b.filter # Worker!Nobody => c.peer = b.filter
      <4> DEFINE o == [b EXCEPT !.phase = "Connecting"]
      <4>1. ShapedBle(o) /\ o.phase = "Connecting" /\ o.logged = b.logged /\ o.filter = b.filter
        BY <1>2 DEF ShapedBle
      <4>2. c = [o EXCEPT !.peer = p]
        BY <3>3, Zenon DEF o
      <4> HIDE DEF o
      <4> QED
        BY <3>3, <4>1, <4>2 DEF ShapedBle
    <3> QED
      BY <2>2, <3>1, <3>2, <3>3
  <2>3. CASE b.phase = "Connecting"
    <3>1. c \in {b, Worker!Off(b), [b EXCEPT !.phase = "Up"],
                 [b EXCEPT !.phase = "Scanning", !.peer = Worker!Nobody]}
      BY <1>2, <2>3 DEF Worker!Polled
    <3>2. CASE c \in {b, Worker!Off(b)}
      BY <1>1, <1>2, <2>3, <3>2
    <3>3. CASE c = [b EXCEPT !.phase = "Up"]
      BY <1>2, <2>3, <3>3 DEF ShapedBle
    <3>4. CASE c = [b EXCEPT !.phase = "Scanning", !.peer = Worker!Nobody]
      <4> DEFINE o == [b EXCEPT !.phase = "Scanning"]
      <4>1. ShapedBle(o) /\ o.phase = "Scanning" /\ o.logged = b.logged /\ o.filter = b.filter
        BY <1>2 DEF ShapedBle
      <4>2. c = [o EXCEPT !.peer = Worker!Nobody]
        BY <3>4, Zenon DEF o
      <4> HIDE DEF o
      <4> QED
        BY <2>3, <4>1, <4>2 DEF ShapedBle
    <3> QED
      BY <3>1, <3>2, <3>3, <3>4
  <2>4. CASE b.phase = "Up"
    BY <1>1, <1>2, <2>4 DEF Worker!Polled
  <2> QED
    BY <1>2, <2>1, <2>2, <2>3, <2>4 DEF ShapedBle
<1> QED
  BY <1>1, <1>2

\* The worker implements the link that the brew cycle counts on: every connection has a
\* generation of its own, commands are taken in order, each is answered at most once and
\* none succeeds on a scale that is not linked (setScaleLinkState,
\* serviceScaleWorkerDiscovery, executeScaleCommand); and a scale that is up is shown.
THEOREM PromiseHolds == Spec => KeepsPromise /\ [](subject = "worker" => LinkShown)
<1>1. Init /\ subject = "worker" => Worker!WorkerInit
  BY SubjectStays
<1>2. [Next]_vars /\ subject = "worker" => [Worker!WorkerNext]_Worker!workerVars
  BY SubjectStays
<1>3. [Next]_vars /\ subject = "worker" => (subject = "worker")'
  BY SubjectStays
<1>4. [Next]_vars /\ ~(subject = "worker") => ~(subject = "worker")'
  BY SubjectStays
<1> USE DEF Worker!Up
<1>5. ASSUME NEW b, ShapedBle(b)
      PROVE  /\ ShapedBle(Worker!Off(b)) /\ Worker!Off(b).phase = "Idle"
             /\ ShapedBle(Worker!Ended(b)) /\ Worker!Ended(b).phase = "Idle"
  BY <1>5, ClientMoves
<1>6. ASSUME NEW b, ShapedBle(b), NEW c \in Worker!Polled(b)
      PROVE  /\ ShapedBle(c) /\ c.logged = b.logged
             /\ Worker!Up(c) => b.phase \in {"Connecting", "Up"}
             /\ Worker!Up(b) => c = b \/ ~Worker!Up(c)
             /\ c = b \/ ~Worker!Up(b) \/ c.phase = "Idle"
  <2>1. \A d \in Worker!Polled(b) :
               /\ ShapedBle(d) /\ d.logged = b.logged
               /\ \/ d = b
                  \/ d.phase = "Idle"
                  \/ /\ b.phase = "Scanning" /\ d.phase = "Connecting"
                     /\ d.filter = b.filter
                     /\ b.filter # Worker!Nobody => d.peer = b.filter
                  \/ /\ b.phase = "Connecting" /\ d.phase = "Up"
                     /\ d.filter = b.filter /\ d.peer = b.peer
                  \/ /\ b.phase = "Connecting" /\ d.phase = "Scanning"
                     /\ d.filter = b.filter
    <3> HIDE DEF Worker!Up
    <3> QED
      BY <1>6, ClientMoves
  <2> QED
    BY <1>6, <2>1
<1>7. ASSUME NEW f
       PROVE  ShapedBle(Worker!Scanned(f)) /\ ~Worker!Up(Worker!Scanned(f))
  <2> DEFINE b == Worker!Scanned(f)
             no == FALSE
  <2>1. b = [phase |-> "Scanning", filter |-> f, peer |-> Worker!Nobody, logged |-> no]
    BY DEF Worker!Scanned
  <2> HIDE DEF b, no
  <2>2. b.phase = "Scanning" /\ b.logged = no
        /\ b = [phase |-> b.phase, filter |-> b.filter, peer |-> b.peer, logged |-> b.logged]
    BY <2>1
  <2>3. no \in BOOLEAN
    BY DEF no
  <2> QED
    BY <2>2, <2>3 DEF ShapedBle, b
\* A link newly shown is a connection, one no longer shown is a loss.
<1>8. ASSUME LinkShown, NEW up \in BOOLEAN, v2' = Worker!Mark(v2, up)
      PROVE  /\ v2' = [connected |-> up, generation |-> v2'.generation,
                       edge |-> v2'.edge, chime |-> v2'.chime, stalled |-> v2'.stalled]
             /\ v2'.connected = up /\ v2'.stalled = v2.stalled
             /\ v2'.generation = IF up /\ ~v2.connected THEN v2.generation + 1
                                 ELSE v2.generation
  BY <1>8 DEF LinkShown, Worker!Mark
<1>9. ASSUME LinkShown, NEW up \in BOOLEAN, v2' = Worker!Mark(v2, up), UNCHANGED <<v5, v7>>
      PROVE  Worker!PromisedStep
  BY <1>8, <1>9 DEF LinkShown, Worker!PromisedStep, Worker!Promised!LinkNext,
     Worker!Promised!Connect, Worker!Promised!Disconnect, Worker!Promised!linkVars
<1>10. ASSUME LinkShown, [Worker!WorkerNext]_Worker!workerVars
      PROVE  LinkShown' /\ Worker!PromisedStep
  <2>1. /\ v2 = [connected |-> v2.connected, generation |-> v2.generation,
                 edge |-> v2.edge, chime |-> v2.chime, stalled |-> v2.stalled]
        /\ v2.connected \in BOOLEAN
        /\ ShapedBle(v1)
        /\ Worker!Up(v1) /\ ~v1.logged => v2.connected
        /\ v4.at \in {"linkReset", "adopt", "serve"} => Worker!Up(v1)
        /\ v4.at \in {"findReset", "find"} /\ Worker!Up(v1) => v1.logged
    BY <1>10 DEF LinkShown
  <2>2. UNCHANGED <<v2, v5, v7>> => Worker!PromisedStep
    BY DEF Worker!PromisedStep, Worker!Promised!linkVars
  \* The link is marked, or left alone, and the scale's state fits it.
  <2>3. ASSUME NEW up \in BOOLEAN, v2' = Worker!Mark(v2, up), UNCHANGED <<v5, v7>>,
               ShapedBle(v1'), Worker!Up(v1') => v1'.logged \/ up,
               v4'.at \in {"top", "work"}
        PROVE  LinkShown' /\ Worker!PromisedStep
    BY <1>8, <1>9, <1>10, <2>3 DEF LinkShown
  <2>4. ASSUME UNCHANGED <<v2, v5, v7>>, ShapedBle(v1'),
               Worker!Up(v1') /\ ~v1'.logged => v2.connected,
               v4'.at \in {"linkReset", "adopt", "serve"} => Worker!Up(v1'),
               v4'.at \in {"findReset", "find"} /\ Worker!Up(v1') => v1'.logged
        PROVE  LinkShown' /\ Worker!PromisedStep
    BY <2>1, <2>2, <2>4 DEF LinkShown
  <2>5. ASSUME NEW next, Worker!GoOn(next) \/ Worker!Resetting(next) PROVE v4'.at = next
    BY <2>5 DEF Worker!GoOn, Worker!Resetting
  <2>6. CASE Worker!Top
    <3>1. PICK b \in Worker!Polled(v1) :
             /\ Worker!Up(b) => (Worker!Up(v1) \/ v1.logged)
             /\ v1' = b
             /\ IF Worker!Up(b)
                THEN /\ Worker!Resetting("linkReset")
                     /\ UNCHANGED v2
                ELSE /\ v2' = Worker!Mark(v2, FALSE)
                     /\ Worker!GoOn("work")
      BY <2>6, Zenon DEF Worker!Top
    <3>2. UNCHANGED <<v5, v7>>
      BY <2>6 DEF Worker!Top
    <3>3. ShapedBle(b) /\ b.logged = v1.logged /\ (Worker!Up(v1) => b = v1 \/ ~Worker!Up(b))
      BY <1>6, <2>1, <3>1
    <3>4. CASE Worker!Up(b)
      BY <2>1, <2>4, <2>5, <3>1, <3>2, <3>3, <3>4
    <3>5. CASE ~Worker!Up(b)
      BY <2>3, <2>5, <3>1, <3>2, <3>3, <3>5
    <3> QED
      BY <3>4, <3>5
  <2>7. CASE Worker!LinkReset
    <3>1. UNCHANGED <<v5, v7>> /\ v4.at = "linkReset"
      BY <2>7 DEF Worker!LinkReset
    <3>2. CASE v1' = Worker!Ended(v1) /\ v2' = Worker!Mark(v2, FALSE) /\ Worker!GoOn("work")
      BY <1>5, <2>1, <2>3, <2>5, <3>1, <3>2
    <3>3. CASE Worker!GoOn("adopt") /\ UNCHANGED <<v1, v2>>
      BY <2>1, <2>4, <2>5, <3>1, <3>3
    <3> QED
      BY <2>7, <3>2, <3>3, Zenon DEF Worker!LinkReset
  <2>8. CASE Worker!Adopt
    BY <2>1, <2>4, <2>5, <2>8 DEF Worker!Adopt
  <2>9. CASE Worker!Serve
    <3>1. UNCHANGED <<v5, v7>> /\ v4.at = "serve"
      BY <2>9 DEF Worker!Serve
    <3>2. ASSUME NEW b \in Worker!Polled(v1) \ {v1},
                 v1' = b, v2' = Worker!Mark(v2, FALSE), Worker!GoOn("work")
          PROVE  LinkShown' /\ Worker!PromisedStep
      <4>1. ShapedBle(b) /\ ~Worker!Up(b)
        BY <1>6, <2>1, <3>1, <3>2
      <4> QED
        BY <2>3, <2>5, <3>1, <3>2, <4>1
    <3>3. CASE Worker!GoOn("show") /\ UNCHANGED <<v1, v2>>
      BY <2>1, <2>4, <2>5, <3>1, <3>3
    <3>4. CASE Worker!GoOn("work") /\ UNCHANGED <<v1, v2>>
      BY <2>1, <2>4, <2>5, <3>1, <3>4
    <3> QED
      BY <2>9, <3>2, <3>3, <3>4, Zenon DEF Worker!Serve
  <2>10. CASE Worker!Show
    BY <2>1, <2>3, <2>5, <2>10 DEF Worker!Show
  <2>11. CASE Worker!Command
    <3>1. /\ v4.at = "work" /\ ~Worker!Watching /\ v5 # <<>> /\ ~v2.stalled
          /\ Worker!Cardinality(v7) < MaxUnread
          /\ v5' = Tail(v5) /\ Worker!GoOn("top") /\ UNCHANGED v2
      BY <2>11 DEF Worker!Command
    <3>2. PICK ok \in BOOLEAN, combined \in BOOLEAN, b \in Worker!Polled(v1) :
             /\ ok => Worker!Up(v1)
             /\ combined => ok /\ Head(v5).type = "START"
             /\ Worker!Up(v1) \/ b = v1
             /\ v1' = b
             /\ v7' = v7 \cup {[type |-> Head(v5).type, cycle |-> Head(v5).cycle,
                                ok |-> ok, combined |-> combined]}
      BY <2>11, Zenon DEF Worker!Command, Worker!NextCommand
    <3>3. ShapedBle(b) /\ (Worker!Up(b) => Worker!Up(v1) /\ b = v1)
      BY <1>6, <2>1, <3>2
    <3>4. ~v1.logged
      BY <3>1 DEF Worker!Watching
    <3>5. ok => v2.connected
      BY <2>1, <3>2, <3>4
    <3>8. Worker!Cardinality(v7) = Worker!Promised!Cardinality(v7)
      BY Zenon DEF Worker!Cardinality, Worker!Promised!Cardinality
    <3>6. Worker!Promised!Execute
      BY <3>1, <3>2, <3>5, <3>8, Zenon DEF Worker!Promised!Execute, Worker!Promised!Answer
    <3>7. Worker!PromisedStep
      BY <3>6 DEF Worker!PromisedStep, Worker!Promised!LinkNext
    <3> QED
      BY <2>1, <2>5, <3>1, <3>2, <3>3, <3>4, <3>7 DEF LinkShown
  <2>12. CASE Worker!Beep
    <3>1. PICK b \in Worker!Polled(v1) : (Worker!Up(v1) \/ b = v1) /\ v1' = b
      BY <2>12, Zenon DEF Worker!Beep
    <3>2. UNCHANGED <<v2, v5, v7>> /\ Worker!GoOn("top")
      BY <2>12 DEF Worker!Beep
    <3>3. ShapedBle(b) /\ (Worker!Up(b) => b = v1)
      BY <1>6, <2>1, <3>1
    <3> QED
      BY <2>1, <2>4, <2>5, <3>1, <3>2, <3>3
  <2>13. CASE Worker!Search
    <3>1. UNCHANGED <<v5, v7>> /\ Worker!Searching
      BY <2>13 DEF Worker!Search
    <3>2. CASE v1' = Worker!Off(v1) /\ v2' = Worker!Mark(v2, FALSE) /\ Worker!GoOn("top")
      BY <1>5, <2>1, <2>3, <2>5, <3>1, <3>2
    <3>3. CASE Worker!Resetting("findReset") /\ UNCHANGED <<v1, v2>>
      <4>1. Worker!Up(v1) => v1.logged
        BY <3>1 DEF Worker!Searching, Worker!Watching
      <4> QED
        BY <2>1, <2>4, <2>5, <3>1, <3>3, <4>1
    <3> QED
      BY <2>13, <3>2, <3>3, Zenon DEF Worker!Search
  <2>14. CASE Worker!Rest
    BY <2>1, <2>4, <2>5, <2>14 DEF Worker!Rest
  <2>15. CASE Worker!FindReset
    <3> DEFINE b == IF Worker!MustEnd(v4.reasons, v1) THEN Worker!Ended(v1) ELSE v1
               l == IF b.phase \in {"Idle", "Scanning"} THEN Worker!Mark(v2, FALSE) ELSE v2
    <3>1. IF v3.paused
          THEN /\ v1' = (IF b.phase \in {"Scanning", "Up"} THEN Worker!Off(b) ELSE b)
               /\ v2' = (IF b.phase = "Up" THEN Worker!Mark(l, FALSE) ELSE l)
               /\ Worker!GoOn("top")
          ELSE v1' = b /\ v2' = l /\ Worker!GoOn("find")
      BY <2>15, Zenon DEF Worker!FindReset, b, l
    <3>2. UNCHANGED <<v5, v7>> /\ v4.at = "findReset"
      BY <2>15 DEF Worker!FindReset
    <3>3. ShapedBle(b) /\ (b = v1 \/ b.phase = "Idle")
      BY <1>5, <2>1
    <3>4. l = IF b.phase \in {"Idle", "Scanning"} THEN Worker!Mark(v2, FALSE) ELSE v2
      OBVIOUS
    <3> HIDE DEF b, l
    <3>5. v4'.at \in {"top", "find"}
      BY <2>5, <3>1
    <3>6. CASE v2' = v2
      <4>1. Worker!Up(v1') => b = v1 /\ v1' = v1
        BY <3>1, <3>3, <1>5
      <4>2. ShapedBle(v1')
        BY <3>1, <3>3, <1>5
      <4> QED
        BY <2>1, <2>4, <3>2, <3>5, <3>6, <4>1, <4>2
    <3>7. CASE v2' = Worker!Mark(v2, FALSE)
      <4>1. ShapedBle(v1')
        BY <3>1, <3>3, <1>5
      <4>2. v2' # v2 => ~Worker!Up(v1')
        BY <1>5, <3>1, <3>3, <3>4
      <4> QED
        BY <1>8, <1>9, <1>10, <2>1, <3>2, <3>5, <3>6, <3>7, <4>1, <4>2 DEF LinkShown
    <3> QED
      BY <3>1, <3>4, <3>6, <3>7, Zenon
  <2>16. CASE Worker!Find
    <3>1. UNCHANGED <<v5, v7>> /\ v4.at = "find" /\ Worker!GoOn("top")
      BY <2>16 DEF Worker!Find
    <3>2. CASE Worker!Watching
      <4>1. Worker!Watched
        BY <2>16, <3>2 DEF Worker!Find
      <4>2. PICK b \in Worker!Polled(v1) :
               /\ v1' = [b EXCEPT !.logged = b.phase = "Connecting"]
               /\ v2' = IF Worker!Up(b) THEN Worker!Mark(v2, TRUE) ELSE v2
        BY <4>1, Zenon DEF Worker!Watched
      <4>3. ShapedBle(b)
        BY <1>6, <2>1
      <4> DEFINE connecting == b.phase = "Connecting"
      <4>4. connecting \in BOOLEAN /\ v1' = [b EXCEPT !.logged = connecting]
        BY <4>2, Zenon
      <4> HIDE DEF connecting
      <4>5. ShapedBle(v1') /\ v1'.phase = b.phase
        BY <4>3, <4>4 DEF ShapedBle
      <4>6. CASE Worker!Up(b)
        BY <2>3, <2>5, <3>1, <4>2, <4>5, <4>6
      <4>7. CASE ~Worker!Up(b)
        BY <2>4, <2>5, <3>1, <4>2, <4>5, <4>7
      <4> QED
        BY <4>6, <4>7
    <3>3. CASE ~Worker!Watching /\ v1.phase = "Scanning"
      <4>1. Worker!Scanning
        BY <2>16, <3>3, Zenon DEF Worker!Find
      <4>2. /\ v1' \in Worker!Polled(v1) \/ \E f : v1' = Worker!Scanned(f)
            /\ UNCHANGED v2
        BY <4>1 DEF Worker!Scanning
      <4>3. ShapedBle(v1') /\ ~Worker!Up(v1')
        BY <1>6, <1>7, <2>1, <3>3, <4>2
      <4> QED
        BY <2>4, <2>5, <3>1, <4>2, <4>3
    <3>4. CASE ~Worker!Watching /\ v1.phase = "Idle"
      <4>1. v1' \in {v1, Worker!Scanned(Worker!Filter)} /\ UNCHANGED v2
        BY <2>16, <3>4, Zenon DEF Worker!Find
      <4>2. ShapedBle(v1') /\ ~Worker!Up(v1')
        BY <1>7, <2>1, <3>4, <4>1
      <4> QED
        BY <2>4, <2>5, <3>1, <4>1, <4>2
    <3> QED
      BY <2>1, <3>1, <3>2, <3>3, <3>4 DEF ShapedBle, Worker!Watching
  <2>17. CASE Worker!Stalling
    <3>1. v2' = [v2 EXCEPT !.stalled = ~v2.stalled] /\ UNCHANGED <<v1, v4, v5, v7>>
      BY <2>17, Zenon DEF Worker!Stalling
    <3> DEFINE now == ~v2.stalled
    <3>2. v2' = [v2 EXCEPT !.stalled = now]
      BY <3>1
    <3> HIDE DEF now
    <3>3. /\ v2' = [connected |-> v2.connected, generation |-> v2.generation,
                    edge |-> v2.edge, chime |-> v2.chime, stalled |-> now]
      BY <2>1, <3>2
    <3>4. /\ v2'.stalled = now /\ v2'.connected = v2.connected
          /\ v2'.generation = v2.generation
          /\ v2' = [connected |-> v2'.connected, generation |-> v2'.generation,
                    edge |-> v2'.edge, chime |-> v2'.chime, stalled |-> v2'.stalled]
      BY <3>3
    <3>5. Worker!Promised!Stall
      BY <3>1, <3>4, Zenon DEF Worker!Promised!Stall, now
    <3>6. Worker!PromisedStep
      BY <3>5 DEF Worker!PromisedStep, Worker!Promised!LinkNext
    <3> QED
      BY <2>1, <3>1, <3>4, <3>6 DEF LinkShown
  \* What the control task does that the link does not show
  <2>18. ASSUME UNCHANGED <<v1, v2, v4, v5, v7>>
         PROVE  LinkShown' /\ Worker!PromisedStep
    BY <2>1, <2>4, <2>18
  <2>19. CASE Worker!Select \/ Worker!Forget \/ Worker!ChangeMode
    BY <2>18, <2>19 DEF Worker!Select, Worker!Forget, Worker!ChangeMode, Worker!Choose,
       Worker!PublishMode
  <2>20. CASE Worker!RequestReset \/ Worker!PauseOver \/ Worker!AskBeep
    BY <2>18, <2>20 DEF Worker!RequestReset, Worker!PauseOver, Worker!AskBeep
  <2>21. CASE Worker!Dispatch \/ Worker!SaveFails \/ Worker!Copy \/ Worker!Decide
    BY <2>18, <2>21 DEF Worker!Dispatch, Worker!SaveFails, Worker!Copy, Worker!Decide
  \* A move of the control task
  <2>22. ASSUME Worker!Promised!ControlMove, UNCHANGED <<v1, v2, v4>>
         PROVE  LinkShown' /\ Worker!PromisedStep
    BY <2>1, <2>22 DEF LinkShown, Worker!PromisedStep, Worker!Promised!LinkNext
  <2>23. CASE Worker!Enqueue
    <3>1. /\ Len(v5) < CommandLength /\ UNCHANGED <<v1, v2, v4, v7>>
      BY <2>23 DEF Worker!Enqueue
    <3>2. PICK c \in [type : {"START", "STOP"}, cycle : WorkerCycles] :
             v5' \in {Append(v5, c), <<c>> \o v5}
      BY <2>23 DEF Worker!Enqueue
    <3>3. c \in Worker!Promised!Requests
      BY <3>2 DEF Worker!Promised!Requests
    <3>4. \E toFront \in BOOLEAN : v5' = Worker!Promised!Queued(v5, c, toFront)
      <4>1. v5' = Worker!Promised!Queued(v5, c, FALSE)
            \/ v5' = Worker!Promised!Queued(v5, c, TRUE)
        BY <3>2 DEF Worker!Promised!Queued
      <4> QED
        BY <4>1, Zenon
    <3>5. Worker!Promised!ControlMove
      BY <3>1, <3>3, <3>4 DEF Worker!Promised!ControlMove, Worker!Promised!HasRoom
    <3> QED
      BY <2>22, <3>1, <3>5
  <2>24. CASE Worker!TakeEvent
    <3>1. UNCHANGED <<v1, v2, v4, v5>>
      BY <2>24 DEF Worker!TakeEvent
    <3>2. v7' = v7 \/ \E a : v7' = v7 \ {a}
      BY <2>24 DEF Worker!TakeEvent, Worker!Read
    <3>3. CASE v7' = v7
      BY <2>18, <3>1, <3>3
    <3>4. ASSUME NEW a, v7' = v7 \ {a}, v7' # v7
          PROVE  LinkShown' /\ Worker!PromisedStep
      <4>1. a \in v7
        BY <3>4
      <4>2. Worker!Promised!ControlMove
        BY <3>1, <3>4, <4>1 DEF Worker!Promised!ControlMove, Worker!Promised!ReadAnswer
      <4> QED
        BY <2>22, <3>1, <4>2
    <3> QED
      BY <3>2, <3>3, <3>4
  <2>25. CASE UNCHANGED Worker!workerVars
    BY <2>18, <2>25 DEF Worker!workerVars
  <2> QED
    BY <1>10, <2>6, <2>7, <2>8, <2>9, <2>10, <2>11, <2>12, <2>13, <2>14, <2>15, <2>16,
       <2>17, <2>19, <2>20, <2>21, <2>23, <2>24, <2>25, Zenon
       DEF Worker!WorkerNext, Worker!WorkerStep, Worker!ControlStep
<1>11. Worker!WorkerInit => LinkShown /\ Worker!Promised!InitLink
  BY DEF Worker!WorkerInit, LinkShown, ShapedBle, Worker!Promised!InitLink
<1> DEFINE Kept == subject = "worker" => LinkShown
           Start == subject = "worker" => Worker!Promised!InitLink
           Step == subject = "worker" => Worker!PromisedStep
<1>12. Init => Kept /\ Start
  BY <1>1, <1>11
<1>13. Kept /\ [Next]_vars => Kept'
  BY <1>2, <1>3, <1>4, <1>10
<1>14. Kept /\ [Next]_vars => [Step]_vars
  BY <1>2, <1>10
<1> QED
  BY <1>12, <1>13, <1>14, PTL DEF Spec, KeepsPromise

\* Once the worker has looked at the last choice it holds: paused, nothing is searched or
\* connected, and with ONLY no other scale than the preferred one stays up
\* (applyScalePreferenceReset, takeScalePreferenceResetReasons, startScaleDiscoveryScan).
THEOREM ChoiceHolds == Spec => []ChoiceHeld
<1>1. Init /\ subject = "worker" => Worker!WorkerInit
  BY SubjectStays
<1>2. [Next]_vars /\ subject = "worker" => [Worker!WorkerNext]_Worker!workerVars
  BY SubjectStays
<1>3. [Next]_vars /\ subject = "worker" => (subject = "worker")'
  BY SubjectStays
<1>4. [Next]_vars /\ ~(subject = "worker") => ~(subject = "worker")'
  BY SubjectStays
<1> USE DEF Worker!Up
\* How the choice may change
<1>5. ASSUME NEW c, ShapedChoice(c), NEW peer
      PROVE  LET n == Worker!Note(c, peer) IN
             /\ ShapedChoice(n) /\ n.mode = c.mode /\ n.paused = c.paused
             /\ n.reasons = c.reasons
             /\ n.mac = c.mac \/ n.mac = peer
             /\ c.mac = Worker!Nobody /\ c.mode # "FIRST" /\ ~c.paused => n.mac = peer
             /\ c.mac # Worker!Nobody => n.mac = c.mac
  <2> DEFINE yes == TRUE
             mac == IF c.mode # "FIRST" /\ ~c.paused /\ c.mac = Worker!Nobody
                    THEN peer ELSE c.mac
             o == [c EXCEPT !.dirty = yes]
             n == [o EXCEPT !.mac = mac]
  <2>1. mac \in {c.mac, peer}
        /\ (c.mac = Worker!Nobody /\ c.mode # "FIRST" /\ ~c.paused => mac = peer)
        /\ (c.mac # Worker!Nobody => mac = c.mac)
    OBVIOUS
  <2>2. Worker!Note(c, peer) = [[c EXCEPT !.dirty = TRUE] EXCEPT !.mac = mac]
    BY <1>5, Zenon DEF Worker!Note, ShapedChoice
  <2>3. Worker!Note(c, peer) = n
    BY <2>2, Zenon
  <2> HIDE DEF yes, mac
  <2>4. o = [mac |-> c.mac, mode |-> c.mode, paused |-> c.paused, dirty |-> yes,
             reasons |-> c.reasons, made |-> c.made]
    BY <1>5 DEF ShapedChoice
  <2> HIDE DEF o
  <2>5. n = [mac |-> mac, mode |-> c.mode, paused |-> c.paused, dirty |-> yes,
             reasons |-> c.reasons, made |-> c.made]
    BY <2>4
  <2> HIDE DEF n
  <2>6. /\ ShapedChoice(n) /\ n.mode = c.mode /\ n.paused = c.paused
        /\ n.reasons = c.reasons /\ n.mac = mac
    BY <2>5 DEF ShapedChoice
  <2> QED
    BY <2>1, <2>3, <2>6
<1>6. ASSUME NEW c, ShapedChoice(c), NEW reason
      PROVE  ShapedChoice(Worker!Asked(c, reason)) /\ Worker!Asked(c, reason).reasons # {}
  <2> DEFINE o == [c EXCEPT !.reasons = c.reasons \cup {reason}]
             n == [o EXCEPT !.made = c.made + 1]
  <2>1. o.made = c.made /\ ShapedChoice(o) /\ o.reasons # {}
    BY <1>6 DEF ShapedChoice
  <2>2. Worker!Asked(c, reason) = n
    BY <1>6, Zenon DEF Worker!Asked, ShapedChoice
  <2> HIDE DEF o
  <2>3. ShapedChoice(n) /\ n.reasons # {}
    BY <2>1 DEF ShapedChoice
  <2> QED
    BY <2>2, <2>3
\* A client that fits the choice goes on doing so when it is polled.
<1>7. ASSUME NEW b, ShapedBle(b), NEW c, Fits(b, c), NEW p \in Worker!Polled(b)
      PROVE  Fits(p, c)
  <2>1. \/ p = b
        \/ p.phase = "Idle"
        \/ /\ b.phase = "Scanning" /\ p.phase = "Connecting"
           /\ p.filter = b.filter
           /\ b.filter # Worker!Nobody => p.peer = b.filter
        \/ /\ b.phase = "Connecting" /\ p.phase = "Up"
           /\ p.filter = b.filter /\ p.peer = b.peer
        \/ /\ b.phase = "Connecting" /\ p.phase = "Scanning"
           /\ p.filter = b.filter
    BY <1>7, ClientMoves
  <2> QED
    BY <1>7, <2>1 DEF Fits
<1>8. ASSUME NEW b, NEW c, NEW d, d.paused = c.paused, d.mode = c.mode, d.mac = c.mac
      PROVE  Fits(b, c) => Fits(b, d)
  BY <1>8 DEF Fits
<1>9. ASSUME NEW b, ShapedBle(b), Worker!Up(b), NEW reasons, reasons # {},
             ~Worker!MustEnd(reasons, b)
      PROVE  Fits(b, v3)
  BY <1>9 DEF Worker!MustEnd, Fits
<1>10. ASSUME ChoiceKept, LinkShown, [Worker!WorkerNext]_Worker!workerVars
       PROVE  ChoiceKept'
  <2>1. /\ ShapedChoice(v3)
        /\ v4.at = "find" /\ v3.paused => v3.reasons # {}
        /\ (/\ v3.reasons = {} /\ v10 = Worker!NoMode
            /\ v4.at \in {"linkReset", "findReset"} => v4.reasons = {}) => Fits(v1, v3)
    BY <1>10 DEF ChoiceKept
  <2>2. /\ ShapedBle(v1)
        /\ v4.at \in {"linkReset", "adopt", "serve"} => Worker!Up(v1)
        /\ v4.at \in {"findReset", "find"} /\ Worker!Up(v1) => v1.logged
    BY <1>10 DEF LinkShown
  <2>3. ASSUME NEW next, Worker!GoOn(next) \/ Worker!Resetting(next) PROVE v4'.at = next
    BY <2>3 DEF Worker!GoOn, Worker!Resetting
  \* The worker goes on without having been given another choice.
  <2>4. ASSUME v1' \in Worker!Polled(v1) \cup {v1} \/ v1'.phase = "Idle",
               UNCHANGED <<v3, v10>>,
               v4'.at \in {"top", "work", "adopt", "serve", "show"},
               v4.at \notin {"linkReset", "findReset"}
        PROVE  ChoiceKept'
    <3>1. Fits(v1, v3) => Fits(v1', v3)
      <4>1. v1'.phase = "Idle" => Fits(v1', v3)
        BY DEF Fits
      <4> QED
        BY <1>7, <2>2, <2>4, <4>1
    <3> QED
      BY <2>1, <2>4, <3>1 DEF ChoiceKept, Fits
  <2>5. CASE Worker!Top
    <3>1. PICK b \in Worker!Polled(v1) :
             /\ v1' = b
             /\ IF Worker!Up(b)
                THEN Worker!Taken /\ Worker!Resetting("linkReset")
                ELSE UNCHANGED v3 /\ Worker!GoOn("work")
      BY <2>5, Zenon DEF Worker!Top
    <3>2. v4.at = "top" /\ UNCHANGED v10
      BY <2>5 DEF Worker!Top
    <3>3. CASE ~Worker!Up(b)
      BY <2>3, <2>4, <3>1, <3>2, <3>3
    <3>4. CASE Worker!Up(b)
      <4>1. /\ v3' = [v3 EXCEPT !.reasons = {}]
            /\ v4' = [at |-> "linkReset", reasons |-> v3.reasons]
        BY <3>1, <3>4 DEF Worker!Taken, Worker!Resetting
      <4>2. /\ ShapedChoice(v3') /\ v3'.paused = v3.paused
            /\ v3'.mode = v3.mode /\ v3'.mac = v3.mac
        BY <2>1, <4>1 DEF ShapedChoice
      <4>3. v4'.at = "linkReset" /\ v4'.reasons = v3.reasons
        BY <4>1
      <4>4. v3.reasons = {} /\ v10 = Worker!NoMode => Fits(v1', v3')
        BY <1>7, <1>8, <2>1, <2>2, <3>1, <3>2, <4>2
      <4> QED
        BY <3>2, <4>2, <4>3, <4>4 DEF ChoiceKept
    <3> QED
      BY <3>3, <3>4
  <2>6. CASE Worker!LinkReset
    <3>1. v4.at = "linkReset" /\ UNCHANGED <<v3, v10>>
      BY <2>6 DEF Worker!LinkReset
    <3>2. CASE v1' = Worker!Ended(v1) /\ Worker!GoOn("work")
      <4>1. v1'.phase = "Idle"
        BY <2>2, <3>2, ClientMoves
      <4> QED
        BY <2>1, <2>3, <3>1, <3>2, <4>1 DEF ChoiceKept, Fits
    <3>3. CASE ~Worker!MustEnd(v4.reasons, v1) /\ Worker!GoOn("adopt") /\ UNCHANGED v1
      <4>1. v4.reasons # {} => Fits(v1, v3)
        BY <1>9, <2>2, <3>1, <3>3
      <4>2. v4'.at = "adopt"
        BY <2>3, <3>3
      <4> QED
        BY <2>1, <3>1, <3>3, <4>1, <4>2 DEF ChoiceKept, Fits
    <3> QED
      BY <2>6, <3>2, <3>3, Zenon DEF Worker!LinkReset
  <2>7. CASE Worker!Adopt
    <3>1. /\ v4.at = "adopt" /\ UNCHANGED <<v1, v10>> /\ v4'.at = "serve"
          /\ v3' = v3 \/ v3' = Worker!Note(v3, v1.peer)
      BY <2>3, <2>7 DEF Worker!Adopt
    <3>2. CASE v3' = v3
      BY <2>4, <3>1, <3>2
    <3>3. CASE v3' = Worker!Note(v3, v1.peer)
      <4>1. /\ ShapedChoice(v3') /\ v3'.mode = v3.mode /\ v3'.paused = v3.paused
            /\ v3'.reasons = v3.reasons
            /\ v3'.mac = v3.mac \/ v3'.mac = v1.peer
        BY <1>5, <2>1, <3>3
      <4>2. Fits(v1, v3) => Fits(v1, v3')
        BY <2>2, <3>1, <4>1 DEF Fits
      <4> QED
        BY <2>1, <3>1, <4>1, <4>2 DEF ChoiceKept, Fits
    <3> QED
      BY <3>1, <3>2, <3>3
  <2>8. CASE Worker!Serve
    <3>1. /\ v4.at = "serve" /\ UNCHANGED <<v3, v10>>
          /\ v1' \in Worker!Polled(v1) \cup {v1}
          /\ Worker!GoOn("work") \/ Worker!GoOn("show")
      BY <2>8 DEF Worker!Serve
    <3> QED
      BY <2>3, <2>4, <3>1
  <2>9. CASE Worker!Show \/ Worker!Rest
    BY <2>3, <2>4, <2>9 DEF Worker!Show, Worker!Rest
  <2>10. CASE Worker!Command
    <3>1. v1' \in Worker!Polled(v1)
      BY <2>10, Zenon DEF Worker!Command
    <3>2. v4.at = "work" /\ UNCHANGED <<v3, v10>> /\ Worker!GoOn("top")
      BY <2>10 DEF Worker!Command
    <3> QED
      BY <2>3, <2>4, <3>1, <3>2
  <2>11. CASE Worker!Beep
    <3>1. v1' \in Worker!Polled(v1)
      BY <2>11, Zenon DEF Worker!Beep
    <3>2. v4.at = "work" /\ UNCHANGED <<v3, v10>> /\ Worker!GoOn("top")
      BY <2>11 DEF Worker!Beep
    <3> QED
      BY <2>3, <2>4, <3>1, <3>2
  <2>12. CASE Worker!Search
    <3>1. v4.at = "work" /\ UNCHANGED v10
      BY <2>12 DEF Worker!Search
    <3>2. CASE v1' = Worker!Off(v1) /\ UNCHANGED v3 /\ Worker!GoOn("top")
      BY <2>2, <2>3, <2>4, <3>1, <3>2, ClientMoves
    <3>3. CASE Worker!Taken /\ Worker!Resetting("findReset") /\ UNCHANGED v1
      <4>1. /\ v3' = [v3 EXCEPT !.reasons = {}]
            /\ v4' = [at |-> "findReset", reasons |-> v3.reasons]
        BY <3>3 DEF Worker!Taken, Worker!Resetting
      <4>2. /\ ShapedChoice(v3') /\ v3'.paused = v3.paused
            /\ v3'.mode = v3.mode /\ v3'.mac = v3.mac
        BY <2>1, <4>1 DEF ShapedChoice
      <4>3. v4'.at = "findReset" /\ v4'.reasons = v3.reasons
        BY <4>1
      <4>4. v3.reasons = {} /\ v10 = Worker!NoMode => Fits(v1', v3')
        BY <1>8, <2>1, <3>1, <3>3, <4>2
      <4> QED
        BY <3>1, <4>2, <4>3, <4>4 DEF ChoiceKept
    <3> QED
      BY <2>12, <3>2, <3>3, Zenon DEF Worker!Search
  <2>13. CASE Worker!FindReset
    <3> DEFINE b == IF Worker!MustEnd(v4.reasons, v1) THEN Worker!Ended(v1) ELSE v1
    <3>1. IF v3.paused
          THEN /\ v1' = (IF b.phase \in {"Scanning", "Up"} THEN Worker!Off(b) ELSE b)
               /\ Worker!GoOn("top")
          ELSE v1' = b /\ Worker!GoOn("find")
      BY <2>13, Zenon DEF Worker!FindReset, b
    <3>2. v4.at = "findReset" /\ UNCHANGED <<v3, v10>>
      BY <2>13 DEF Worker!FindReset
    <3>3. ShapedBle(b) /\ (b = v1 \/ b.phase = "Idle")
      BY <2>2, ClientMoves
    <3>4. v4.reasons # {} => Fits(b, v3)
      <4>1. CASE Worker!MustEnd(v4.reasons, v1)
        BY <2>2, <4>1, ClientMoves DEF Fits
      <4>2. CASE ~Worker!MustEnd(v4.reasons, v1) /\ Worker!Up(v1)
        BY <1>9, <2>2, <4>2
      <4>3. CASE ~Worker!MustEnd(v4.reasons, v1) /\ ~Worker!Up(v1)
        BY <4>3 DEF Fits, Worker!MustEnd
      <4> QED
        BY <4>1, <4>2, <4>3
    <3>5. v4.reasons = {} => b = v1
      BY DEF Worker!MustEnd
    <3> HIDE DEF b
    <3>6. v3.reasons = {} /\ v10 = Worker!NoMode => Fits(b, v3)
      BY <2>1, <3>2, <3>4, <3>5
    <3>7. Fits(b, v3) => Fits(v1', v3)
      BY <3>1, <3>3, ClientMoves DEF Fits
    <3>8. v4'.at = (IF v3.paused THEN "top" ELSE "find")
      BY <2>3, <3>1
    <3> QED
      BY <2>1, <3>2, <3>6, <3>7, <3>8 DEF ChoiceKept, Fits
  <2>14. CASE Worker!Find
    <3>1. v4.at = "find" /\ UNCHANGED v10 /\ v4'.at = "top"
      BY <2>3, <2>14 DEF Worker!Find
    <3>2. CASE UNCHANGED v3 /\ v1' \in Worker!Polled(v1) \cup {v1}
      BY <2>4, <3>1, <3>2
    <3>3. ASSUME UNCHANGED v3, NEW f, v1' = Worker!Scanned(f),
                 v3.mode = "ONLY" => f = v3.mac
          PROVE  ChoiceKept'
      <4>1. v1'.phase = "Scanning" /\ v1'.filter = f
        BY <3>3 DEF Worker!Scanned
      <4>2. ~v3.paused => Fits(v1', v3)
        BY <3>3, <4>1 DEF Fits
      <4> QED
        BY <2>1, <3>1, <3>3, <4>2 DEF ChoiceKept, Fits
    <3>4. v3.mode = "ONLY" => Worker!Filter = v3.mac
      BY DEF Worker!Filter
    <3>5. CASE Worker!Watching
      <4>1. Worker!Watched
        BY <2>14, <3>5 DEF Worker!Find
      <4>2. PICK b \in Worker!Polled(v1) :
               /\ v1' = [b EXCEPT !.logged = b.phase = "Connecting"]
               /\ v3' = IF Worker!Up(b) THEN Worker!Note(v3, b.peer) ELSE v3
        BY <4>1, Zenon DEF Worker!Watched
      <4>3. ShapedBle(b)
        BY <2>2, ClientMoves
      <4> DEFINE connecting == b.phase = "Connecting"
      <4>4. v1' = [b EXCEPT !.logged = connecting]
        BY <4>2, Zenon
      <4> HIDE DEF connecting
      <4>5. v1'.phase = b.phase /\ v1'.filter = b.filter /\ v1'.peer = b.peer
        BY <4>3, <4>4 DEF ShapedBle
      <4>6. Fits(v1, v3) => Fits(v1', v3)
        BY <1>7, <2>2, <4>2, <4>5 DEF Fits
      <4>7. CASE Worker!Up(b)
        <5>1. /\ ShapedChoice(v3') /\ v3'.mode = v3.mode /\ v3'.paused = v3.paused
              /\ v3'.reasons = v3.reasons
              /\ v3'.mac = v3.mac \/ v3'.mac = b.peer
          BY <1>5, <2>1, <4>2, <4>7
        <5>2. Fits(v1', v3) => Fits(v1', v3')
          BY <4>5, <4>7, <5>1 DEF Fits
        <5> QED
          BY <2>1, <3>1, <4>6, <5>1, <5>2 DEF ChoiceKept, Fits
      <4>8. CASE ~Worker!Up(b)
        BY <2>1, <3>1, <4>2, <4>6, <4>8 DEF ChoiceKept, Fits
      <4> QED
        BY <4>7, <4>8
    <3>6. CASE ~Worker!Watching /\ v1.phase = "Scanning"
      <4>1. Worker!Scanning
        BY <2>14, <3>6, Zenon DEF Worker!Find
      <4>2. /\ UNCHANGED v3
            /\ \/ v1' \in Worker!Polled(v1)
               \/ v1' = Worker!Scanned(Worker!Filter)
               \/ v3.mode = "PREFER" /\ v1' = Worker!Scanned(Worker!Nobody)
        BY <4>1 DEF Worker!Scanning
      <4> QED
        BY <3>2, <3>3, <3>4, <4>2
    <3>7. CASE ~Worker!Watching /\ v1.phase = "Idle"
      <4>1. v1' \in {v1, Worker!Scanned(Worker!Filter)} /\ UNCHANGED v3
        BY <2>14, <3>7, Zenon DEF Worker!Find
      <4> QED
        BY <3>2, <3>3, <3>4, <4>1
    <3> QED
      BY <2>2, <3>1, <3>5, <3>6, <3>7 DEF ShapedBle, Worker!Watching
  \* What neither the choice nor the worker notices
  <2>15. ASSUME UNCHANGED <<v1, v3, v4, v10>> PROVE ChoiceKept'
    BY <1>10, <2>15 DEF ChoiceKept, Fits
  <2>16. CASE \/ Worker!Stalling \/ Worker!Dispatch \/ Worker!SaveFails \/ Worker!Copy
              \/ Worker!Enqueue
    BY <2>15, <2>16 DEF Worker!Stalling, Worker!Dispatch, Worker!SaveFails, Worker!Copy,
       Worker!Enqueue
  <2>17. CASE Worker!AskBeep \/ Worker!TakeEvent \/ UNCHANGED Worker!workerVars
    BY <2>15, <2>17 DEF Worker!AskBeep, Worker!TakeEvent, Worker!workerVars
  \* The user's choices ask the worker to look again.
  <2>18. ASSUME NEW c, ShapedChoice(c), NEW reason, v3' = Worker!Asked(c, reason)
         PROVE  ChoiceKept'
    BY <1>6, <2>18 DEF ChoiceKept
  <2>19. CASE Worker!Select
    <3>1. PICK m : Worker!Choose(Worker!Asked([v3 EXCEPT !.mac = m, !.dirty = TRUE,
                                                         !.paused = FALSE], "IDENTITY"))
      BY <2>19 DEF Worker!Select
    <3> DEFINE yes == TRUE
               no == FALSE
               o == [v3 EXCEPT !.mac = m]
               p == [o EXCEPT !.dirty = yes]
               q == [p EXCEPT !.paused = no]
    <3>2. q = [v3 EXCEPT !.mac = m, !.dirty = TRUE, !.paused = FALSE]
      BY Zenon
    <3>3. v3' = Worker!Asked(q, "IDENTITY")
      BY <3>1, <3>2, Zenon DEF Worker!Choose
    <3> HIDE DEF yes, no
    <3>4. ShapedChoice(o)
      BY <2>1 DEF ShapedChoice
    <3> HIDE DEF o
    <3>5. ShapedChoice(p)
      BY <3>4 DEF ShapedChoice
    <3> HIDE DEF p
    <3>6. ShapedChoice(q)
      BY <3>5 DEF ShapedChoice
    <3> HIDE DEF q
    <3> QED
      BY <2>18, <3>3, <3>6
  <2>20. CASE Worker!Forget
    <3> DEFINE yes == TRUE
               o == [v3 EXCEPT !.mac = Worker!Nobody]
               p == [o EXCEPT !.dirty = yes]
               q == [p EXCEPT !.paused = yes]
    <3>1. Worker!Choose(Worker!Asked([v3 EXCEPT !.mac = Worker!Nobody, !.dirty = TRUE,
                                                !.paused = TRUE], "IDENTITY"))
      BY <2>20 DEF Worker!Forget
    <3>2. q = [v3 EXCEPT !.mac = Worker!Nobody, !.dirty = TRUE, !.paused = TRUE]
      BY Zenon
    <3>3. v3' = Worker!Asked(q, "IDENTITY")
      BY <3>1, <3>2, Zenon DEF Worker!Choose
    <3> HIDE DEF yes
    <3>4. ShapedChoice(o)
      BY <2>1 DEF ShapedChoice
    <3> HIDE DEF o
    <3>5. ShapedChoice(p)
      BY <3>4 DEF ShapedChoice
    <3> HIDE DEF p
    <3>6. ShapedChoice(q)
      BY <3>5 DEF ShapedChoice
    <3> HIDE DEF q
    <3> QED
      BY <2>18, <3>3, <3>6
  <2>21. CASE Worker!RequestReset
    BY <2>1, <2>18, <2>21 DEF Worker!RequestReset
  <2>22. CASE Worker!ChangeMode
    <3>1. PICK m \in Worker!Modes : v3' = [v3 EXCEPT !.mode = m] /\ v10' = m /\ UNCHANGED v4
      BY <2>22 DEF Worker!ChangeMode, Worker!PublishMode, Worker!Choose
    <3>2. v10' # Worker!NoMode
      BY <3>1 DEF Worker!Modes, Worker!NoMode
    <3>3. ShapedChoice(v3') /\ v3'.paused = v3.paused /\ v3'.reasons = v3.reasons
      BY <2>1, <3>1 DEF ShapedChoice
    <3> QED
      BY <2>1, <3>1, <3>2, <3>3 DEF ChoiceKept
  <2>23. CASE Worker!PauseOver
    <3> DEFINE no == FALSE
    <3>1. v3' = [v3 EXCEPT !.paused = no] /\ UNCHANGED <<v1, v4, v10>>
      BY <2>23 DEF Worker!PauseOver
    <3>2. ~no
      OBVIOUS
    <3> HIDE DEF no
    <3>3. /\ ShapedChoice(v3') /\ v3'.mode = v3.mode /\ v3'.paused = no
          /\ v3'.mac = v3.mac /\ v3'.reasons = v3.reasons
      BY <2>1, <3>1 DEF ShapedChoice
    <3>4. Fits(v1, v3) => Fits(v1, v3')
      BY <3>2, <3>3 DEF Fits
    <3> QED
      BY <2>1, <3>1, <3>2, <3>3, <3>4 DEF ChoiceKept, Fits
  <2>24. CASE Worker!Decide
    <3>1. PICK dirty : v3' = [v3 EXCEPT !.dirty = dirty]
      BY <2>24, Zenon DEF Worker!Decide
    <3>2. UNCHANGED <<v1, v4, v10>>
      BY <2>24 DEF Worker!Decide
    <3>3. /\ ShapedChoice(v3') /\ v3'.mode = v3.mode /\ v3'.paused = v3.paused
          /\ v3'.mac = v3.mac /\ v3'.reasons = v3.reasons
      BY <2>1, <3>1 DEF ShapedChoice
    <3>4. Fits(v1, v3) => Fits(v1, v3')
      BY <1>8, <3>3
    <3> QED
      BY <2>1, <3>2, <3>3, <3>4 DEF ChoiceKept, Fits
  <2> QED
    BY <1>10, <2>5, <2>6, <2>7, <2>8, <2>9, <2>10, <2>11, <2>12, <2>13, <2>14, <2>16,
       <2>17, <2>19, <2>20, <2>21, <2>22, <2>23, <2>24, Zenon
       DEF Worker!WorkerNext, Worker!WorkerStep, Worker!ControlStep
<1>11. Worker!WorkerInit => ChoiceKept
  BY DEF Worker!WorkerInit, ChoiceKept, ShapedChoice, Fits
<1>12. ChoiceKept => Worker!ChoiceHeld
  BY DEF ChoiceKept, Fits, Worker!ChoiceHeld
<1> DEFINE Kept == subject = "worker" => ChoiceKept
           Shown == subject = "worker" => LinkShown
<1>13. Spec => []Shown
  BY PromiseHolds, PTL
<1>14. Init => Kept
  BY <1>1, <1>11
<1>15. Kept /\ Shown /\ [Next]_vars => Kept'
  BY <1>2, <1>3, <1>4, <1>10
<1>16. Kept => ChoiceHeld
  BY <1>12 DEF ChoiceHeld
<1> QED
  BY <1>13, <1>14, <1>15, <1>16, PTL DEF Spec

\* Whatever fails or is cut short, a history that is loaded is the one saved last or one
\* whose save was attempted since (save, load and the slots of ShotStopperShotLog.h,
\* ShotStopperShotCurve.h and ShotStopperLastShot.h).
THEOREM LastSaveHolds == Spec => []LoadFindsLastSave
<1>1. Init /\ subject = "records" => Records!HistoryInit
  BY SubjectStays
<1>2. [Next]_vars /\ subject = "records" => [Records!HistoryNext]_Records!historyVars
  BY SubjectStays
<1>3. [Next]_vars /\ subject = "records" => (subject = "records")'
  BY SubjectStays
<1>4. [Next]_vars /\ ~(subject = "records") => ~(subject = "records")'
  BY SubjectStays
<1>5. Records!HistorySpec => []Records!LoadFindsLastSave
  BY Records!LastSaveFound
<1> QED
  BY <1>1, <1>2, <1>3, <1>4, <1>5, PTL
     DEF Spec, Records!HistorySpec, LoadFindsLastSave

\* The client of the scale library never waits for something nobody will announce: when
\* its scan, its connection or its link is over, the report is in progress, queued or
\* marked as lost, and a scan that chose its candidate still has it (pushCriticalEvent,
\* callbackMatches, eventMatches, finishLink and service of EspressoScaleBLENimble.cpp).
THEOREM EndHolds == Spec => []EndIsAnnounced
<1>1. Init /\ subject = "client" => Client!Init
  BY SubjectStays
<1>2. [Next]_vars /\ subject = "client" => [Client!Next]_Client!clientVars
  BY SubjectStays
<1>3. [Next]_vars /\ subject = "client" => (subject = "client")'
  BY SubjectStays
<1>4. [Next]_vars /\ ~(subject = "client") => ~(subject = "client")'
  BY SubjectStays
\* What every path of the worker is made of
<1>5. /\ Client!None = 0 /\ Client!NoCall = [type |-> "none"]
      /\ Client!Searching = {"Scanning", "Backoff"}
      /\ Joined = {"DiscoveringServices", "DiscoveringCharacteristics",
                   "DiscoveringDescriptors", "Subscribing", "Initializing", "Ready"}
  BY DEF Client!None, Client!NoCall, Client!Searching, Joined, Client!Procedures,
         Client!Discovering
<1>6. ASSUME NEW w, NEW k, Based(w, k), w.c.state = "Idle"
      PROVE  Informed(w, k)
  <2> USE DEF Based, Formal, Posted, Calling, OnAir
  <2>1. w.c.link = 0 /\ w.c.handle = 0 /\ w.c.state \notin Client!Searching
    BY <1>5, <1>6 DEF Staged
  <2>2. \A i \in DOMAIN w.m.critical : w.m.critical[i].op # 0
    BY <1>6
  <2>3. ~Carries(k, w.c) /\ \A i \in DOMAIN w.m.critical : ~Carries(w.m.critical[i], w.c)
    BY <1>6, <2>1, <2>2 DEF Carries, Opens, Closes
  <2>4. \A l \in w.r.links : l.op # 0
    BY <1>6
  <2>5. Ordered(w, k)
    <3>1. 1 \in 1 .. 2
      OBVIOUS
    <3> QED
      BY <2>1, <2>2, <2>3, <2>4, <3>1
         DEF Ordered, Stamps, OneHandle, Untaken, Learns, Carries
  <2> QED
    BY <1>6, <2>1, <2>3, <2>5
       DEF Informed, Searched, Announced, LinkTold, Opened, Carries
<1>7. ASSUME NEW w, NEW k, Formal(w, k), w.c.live \/ (w.c.link = 0 /\ w.c.handle = 0)
      PROVE  LET n == Client!FinishLink(w)
             IN  /\ Informed(n, k) /\ n.c.state = "Idle"
                 /\ n.c.sync = w.c.sync /\ n.r.sync = w.r.sync /\ n.r.ready = w.r.ready
  <2> DEFINE n == Client!FinishLink(w)
             no == FALSE
             c == [w.c EXCEPT !.live = no, !.state = "Idle", !.generation = @ + 1,
                              !.scan = 0, !.link = 0, !.gatt = 0, !.handle = 0,
                              !.commanding = no, !.rejected = 0, !.waited = Client!NoPeer]
             scan == IF w.c.state \in Client!Searching THEN 0 ELSE w.r.scanning
             r == [w.r EXCEPT !.scanning = scan, !.gatt = 0]
             idle == [w EXCEPT !.c.state = "Idle"]
  <2>1. CASE ~w.c.live
    <3>1. n = idle
      BY <2>1, Zenon DEF Client!FinishLink
    <3>2. /\ DOMAIN idle = {"c", "m", "r"} /\ DOMAIN idle.c = ClientFields
          /\ idle.m = w.m /\ idle.r = w.r /\ idle.c.state = "Idle"
          /\ \A f \in ClientFields \ {"state"} : idle.c[f] = w.c[f]
      BY <1>7 DEF Formal, Fields, ClientFields
    <3> HIDE DEF idle
    <3>3. Formal(idle, k)
      BY <1>7, <3>2 DEF Formal, Fields, Numbered, ClientFields
    <3>4. /\ idle.c.live = w.c.live /\ idle.c.link = w.c.link
          /\ idle.c.handle = w.c.handle /\ idle.c.sync = w.c.sync
      BY <3>2 DEF ClientFields
    <3>5. Based(idle, k)
      BY <1>5, <1>7, <2>1, <3>2, <3>3, <3>4 DEF Based, Staged
    <3> QED
      BY <1>6, <3>1, <3>2, <3>4, <3>5
  <2>2. CASE w.c.live
    <3> DEFINE done == [c |-> c, m |-> Client!NoMail, r |-> r]
    <3>1. n = done
      BY <1>5, <2>2, Zenon DEF Client!FinishLink
    <3>2. /\ DOMAIN c = ClientFields /\ c.live = no /\ c.state = "Idle"
          /\ c.generation = w.c.generation + 1 /\ c.last = w.c.last
          /\ c.scan = 0 /\ c.link = 0 /\ c.handle = 0 /\ c.sync = w.c.sync
      BY <1>7 DEF Formal, Fields, ClientFields
    <3>3. /\ DOMAIN r = RadioFields /\ r.ready = w.r.ready /\ r.sync = w.r.sync
          /\ r.scanning \in {0, w.r.scanning} /\ r.connecting = w.r.connecting
          /\ r.links = w.r.links
      BY <1>7 DEF Formal, Fields, RadioFields
    <3>4. DOMAIN Client!NoMail = MailFields /\ Posted(Client!NoMail, w.c.last)
      <4>1. << >> \in Seq(Reports) /\ DOMAIN << >> = {}
        OBVIOUS
      <4> QED
        BY <4>1 DEF Client!NoMail, MailFields, Posted
    <3>5. done.c = c /\ done.m = Client!NoMail /\ done.r = r /\ DOMAIN done = {"c", "m", "r"}
      OBVIOUS
    <3>6. c.last \in Nat
      BY <1>7, <3>2 DEF Formal, Numbered
    <3> HIDE DEF c, r, done
    <3>7. Fields(done) /\ Numbered(done)
      BY <1>7, <3>2, <3>3, <3>4, <3>5, <3>6 DEF Formal, Fields, Numbered
    <3>8. OnAir(done.r, done.c.last)
      BY <1>7, <3>2, <3>3, <3>5, <3>6 DEF Formal, OnAir
    <3>9. Formal(done, k)
      BY <1>7, <3>2, <3>4, <3>5, <3>7, <3>8 DEF Formal
    <3>10. Staged(done)
      BY <1>5, <3>2, <3>5 DEF Staged
    <3> QED
      BY <1>6, <3>1, <3>2, <3>3, <3>5, <3>9, <3>10 DEF Based
  <2> QED
    BY <2>1, <2>2
<1>8. ASSUME NEW w, NEW k, NEW v, NEW j, Like(w, k, v, j),
             Formal(w, k), Ordered(w, k), LinkTold(w, k)
      PROVE  Formal(v, j) /\ Ordered(v, j) /\ LinkTold(v, j)
  <2>1. /\ Fields(v) /\ v.c.last \in Nat /\ w.c.last \in Nat /\ w.c.last <= v.c.last
        /\ v.c.generation = w.c.generation /\ v.c.scan = w.c.scan /\ v.c.link = w.c.link
        /\ v.c.handle = w.c.handle /\ v.c.sync = w.c.sync
        /\ v.m.critical = w.m.critical
        /\ "critical" \in w.m.flags => "critical" \in v.m.flags
        /\ v.m.candidate \in {w.m.candidate, Client!NoCall}
        /\ v.r.ready = w.r.ready /\ v.r.sync = w.r.sync /\ v.r.scanning = w.r.scanning
        /\ v.r.connecting = w.r.connecting /\ v.r.links = w.r.links
    BY <1>8 DEF Like, Formal, Numbered
  <2>2. \A n : n \in 1 .. w.c.last => n \in 1 .. v.c.last
    BY <2>1
  <2>3. \A n : n \in 0 .. w.c.last => n \in 0 .. v.c.last
    BY <2>1
  <2>4. Numbered(v)
    BY <1>8, <2>1, <2>3 DEF Formal, Numbered
  <2>5. Posted(v.m, v.c.last)
    BY <1>8, <2>1, <2>2 DEF Formal, Posted
  <2>6. OnAir(v.r, v.c.last)
    <3>1. OnAir(w.r, w.c.last)
      BY <1>8 DEF Formal
    <3>2. v.r.scanning \in 0 .. v.c.last
      BY <2>1, <2>3, <3>1 DEF OnAir
    <3> QED
      BY <2>1, <2>2, <3>1, <3>2, Zenon DEF OnAir
  <2>7. Calling(j, v.c.last)
    <3>1. Calling(k, w.c.last)
      BY <1>8 DEF Formal
    <3>2. Calling(k, v.c.last)
      BY <2>2, <3>1, Zenon DEF Calling
    <3> QED
      BY <1>8, <3>2, Zenon DEF Like
  <2>8. Formal(v, j)
    BY <2>1, <2>4, <2>5, <2>6, <2>7 DEF Formal
  <2>9. /\ Carries(j, v.c) = Carries(k, w.c) /\ Closes(j, v.c) = Closes(k, w.c)
        /\ Opens(j, v.c) = Opens(k, w.c)
        /\ \A e : /\ Carries(e, v.c) = Carries(e, w.c) /\ Closes(e, v.c) = Closes(e, w.c)
                  /\ Opens(e, v.c) = Opens(e, w.c)
    BY <1>8, <2>1 DEF Like, Carries, Closes, Opens
  <2>10. \A n : Met(w, n) => Met(v, n)
    BY <2>1, <2>9, Zenon DEF Met
  <2>11. Ordered(v, j)
    <3>1. Stamps(v)
      BY <1>8, <2>1, Zenon DEF Ordered, Stamps
    <3>2. OneHandle(v, j)
      <4>1. Carries(j, v.c) => j = k
        BY <1>8 DEF Like, Carries, Closes, Opens
      <4> QED
        <5>1. PICK h \in 1 .. 2 :
                /\ \A l \in w.r.links : l.op = w.c.link => l.handle = h
                /\ \A i \in DOMAIN w.m.critical :
                     Carries(w.m.critical[i], w.c) => w.m.critical[i].handle = h
                /\ Carries(k, w.c) => k.handle = h
                /\ w.c.handle \in {0, h}
          BY <1>8, Zenon DEF Ordered, OneHandle
        <5>2. Carries(j, v.c) => j.handle = h
          BY <2>9, <4>1, <5>1
        <5>3. /\ \A l \in v.r.links : l.op = v.c.link => l.handle = h
              /\ v.c.handle \in {0, h}
          BY <2>1, <5>1
        <5>4. \A i \in DOMAIN v.m.critical :
                Carries(v.m.critical[i], v.c) => v.m.critical[i].handle = h
          BY <2>1, <2>9, <5>1
        <5> QED
          BY <5>2, <5>3, <5>4, Zenon DEF OneHandle
    <3>3. Untaken(v, j)
      BY <1>8, <2>1, <2>9, Zenon DEF Ordered, Untaken
    <3>4. Learns(v, j)
      BY <1>8, <2>1, <2>9, <2>10, Zenon DEF Ordered, Learns
    <3> QED
      BY <3>1, <3>2, <3>3, <3>4 DEF Ordered
  <2>12. Tells(w, k, "Disconnected", w.c.link) => Tells(v, j, "Disconnected", v.c.link)
    <3>1. k.type = "Disconnected" => j = k
      BY <1>8 DEF Like
    <3> QED
      BY <2>1, <3>1, Zenon DEF Tells
  <2>13. LinkTold(v, j)
    <3>1. Pending(v) = Pending(w)
      BY <2>1 DEF Pending
    <3>2. Opened(v, j) = Opened(w, k)
      BY <2>1, <2>9, Zenon DEF Opened
    <3>3. (\E l \in w.r.links : l.op = w.c.link) => \E l \in v.r.links : l.op = v.c.link
      BY <2>1
    <3> QED
      BY <1>8, <2>12, <3>1, <3>2, <3>3 DEF LinkTold
  <2> QED
    BY <2>8, <2>11, <2>13
<1>9. ASSUME NEW w, NEW k, NEW v, NEW j, Like(w, k, v, j),
             Formal(w, k), Ordered(w, k), LinkTold(w, k),
             w.c.live, w.c.link # 0, w.c.handle # 0, v.c.state \in Joined
      PROVE  Informed(v, j)
  <2>1. Formal(v, j) /\ Ordered(v, j) /\ LinkTold(v, j)
    BY <1>8, <1>9
  <2>2. v.c.live = w.c.live /\ v.c.link = w.c.link /\ v.c.handle = w.c.handle
    BY <1>9 DEF Like
  <2>3. v.c.state \notin {"Idle", "Connecting"} \cup Client!Searching
    BY <1>5, <1>9
  <2>4. Staged(v)
    BY <1>9, <2>2, <2>3 DEF Staged
  <2> QED
    BY <2>1, <2>3, <2>4 DEF Informed, Based, Searched, Announced
<1>10. ASSUME NEW w, NEW k, NEW v, NEW j, Like(w, k, v, j), StillSearching(w, v),
              Informed(w, k)
       PROVE  Informed(v, j)
  <2>1. Formal(v, j) /\ Ordered(v, j) /\ LinkTold(v, j)
    BY <1>8, <1>10 DEF Informed, Based
  <2>2. /\ v.c.live = w.c.live /\ v.c.link = w.c.link /\ v.c.handle = w.c.handle
        /\ v.c.generation = w.c.generation /\ v.c.scan = w.c.scan
        /\ v.c.queued = w.c.queued /\ v.c.sync = w.c.sync
        /\ v.m.critical = w.m.critical
        /\ "critical" \in w.m.flags => "critical" \in v.m.flags
        /\ v.r.ready = w.r.ready /\ v.r.sync = w.r.sync /\ v.r.scanning = w.r.scanning
        /\ v.r.connecting = w.r.connecting
    BY <1>10 DEF Like
  <2>3. /\ v.c.state = w.c.state \/ (v.c.state = "Scanning" /\ w.c.state = "Backoff")
        /\ v.m.candidate = w.m.candidate \/ v.c.state \notin Client!Searching
        /\ \/ v.c.waited = w.c.waited \/ v.m.candidate = Client!NoCall
           \/ v.c.state # "Backoff"
    BY <1>10 DEF StillSearching
  <2>4. Staged(w) /\ Searched(w) /\ Announced(w, k)
    BY <1>10 DEF Informed, Based
  <2>5. Staged(v)
    BY <1>5, <2>2, <2>3, <2>4 DEF Staged
  <2>6. Searched(v)
    <3>1. CASE v.c.state = w.c.state
      BY <2>2, <2>3, <2>4, <3>1 DEF Searched
    <3>2. CASE v.c.state = "Scanning" /\ w.c.state = "Backoff"
      BY <1>5, <2>2, <2>3, <2>4, <3>2 DEF Searched
    <3> QED
      BY <2>3, <3>1, <3>2
  <2>7. \A type, op : type \in {"ScanComplete", "Connected"} =>
          (Tells(w, k, type, op) => Tells(v, j, type, op))
    <3>1. k.type \in {"ScanComplete", "Connected"} => j = k
      BY <1>10 DEF Like
    <3> QED
      BY <2>2, <3>1, Zenon DEF Tells
  <2>8. Announced(v, j)
    BY <1>5, <2>2, <2>3, <2>4, <2>7 DEF Announced, Pending
  <2> QED
    BY <2>1, <2>5, <2>6, <2>8 DEF Informed, Based
<1>11. ASSUME NEW w, NEW k, Based(w, k)
       PROVE  LET n == Client!FinishLink(w)
              IN  /\ Informed(n, k) /\ n.c.state = "Idle"
                  /\ n.c.sync = w.c.sync /\ n.r.sync = w.r.sync /\ n.r.ready = w.r.ready
  <2>1. w.c.live \/ (w.c.link = 0 /\ w.c.handle = 0)
    BY <1>5, <1>11 DEF Based, Staged
  <2> QED
    BY <1>7, <1>11, <2>1 DEF Based
<1>12. ASSUME NEW w, NEW k, Based(w, k), w.c.state = "Idle",
              NEW v, Fields(v), v.c.sync \in Int, v.c.sync <= v.r.sync,
              \A f \in {"state", "live", "generation", "last", "scan", "link", "handle"} :
                v.c[f] = w.c[f],
              v.m.critical = w.m.critical, v.m.candidate = w.m.candidate, v.r = w.r
       PROVE  Informed(v, k) /\ v.c.state = "Idle"
  <2>1. /\ v.c.state = "Idle" /\ v.c.live = w.c.live /\ v.c.generation = w.c.generation
        /\ v.c.last = w.c.last /\ v.c.scan = w.c.scan /\ v.c.link = w.c.link
        /\ v.c.handle = w.c.handle
    BY <1>12
  <2>2. Numbered(v)
    BY <1>12, <2>1 DEF Based, Formal, Numbered
  <2>3. Posted(v.m, v.c.last)
    BY <1>12, <2>1 DEF Based, Formal, Posted
  <2>4. Formal(v, k)
    BY <1>12, <2>1, <2>2, <2>3 DEF Based, Formal
  <2>5. Staged(v)
    BY <1>12, <2>1 DEF Based, Staged
  <2> QED
    BY <1>6, <2>1, <2>4, <2>5 DEF Based
\* A search that begins has an operation that nothing yet is about.
<1>13. ASSUME NEW w, NEW k, Based(w, k), w.c.state = "Idle",
              NEW state \in Client!Searching, NEW ok \in BOOLEAN
       PROVE  LET n == Client!Scan(w, state, ok)
              IN  /\ Informed(n, k)
                  /\ ok => n.c.state = state /\ n.m.candidate = Client!NoCall
  <2> DEFINE yes == TRUE
             no == FALSE
             c0 == [w.c EXCEPT !.generation = @ + 1, !.live = yes,
                               !.peer = Client!NoPeer, !.queued = no,
                               !.sync = w.r.sync]
             c == Client!Begin(c0, "scan")
             begun == [w EXCEPT !.c = c, !.m.candidate = Client!NoCall]
             v == [begun EXCEPT !.c.state = state, !.r.scanning = c.scan]
             n == Client!Scan(w, state, ok)
  <2> SUFFICES /\ Informed(n, k)
               /\ ok => n.c.state = state /\ n.m.candidate = Client!NoCall
    OBVIOUS
  <2>1. n = IF ok THEN v ELSE Client!FinishLink(begun)
    BY Zenon DEF Client!Scan
  <2>2. /\ Formal(w, k) /\ Fields(w) /\ Numbered(w) /\ Posted(w.m, w.c.last)
        /\ OnAir(w.r, w.c.last) /\ Calling(k, w.c.last) /\ w.c.last \in Nat
    BY <1>13 DEF Based, Formal, Numbered
  <2>3. w.c.link = 0 /\ w.c.handle = 0
    BY <1>5, <1>13 DEF Based, Staged
  <2>4. /\ DOMAIN c = ClientFields /\ c.last = w.c.last + 1 /\ c.scan = w.c.last + 1
        /\ c.generation = w.c.generation + 1 /\ c.live = yes /\ c.queued = no
        /\ c.sync = w.r.sync /\ c.state = "Idle" /\ c.link = 0 /\ c.handle = 0
    BY <1>13, <2>2, <2>3 DEF Fields, ClientFields, Client!Begin
  <2>5. /\ DOMAIN begun = {"c", "m", "r"} /\ begun.c = c /\ begun.r = w.r
        /\ DOMAIN begun.m = MailFields /\ begun.m.critical = w.m.critical
        /\ begun.m.candidate = Client!NoCall
    BY <2>2 DEF Fields, MailFields
  <2>6. /\ DOMAIN v = {"c", "m", "r"} /\ v.c = [c EXCEPT !.state = state]
        /\ v.m = begun.m /\ v.r = [w.r EXCEPT !.scanning = c.scan]
    BY <2>5
  <2> HIDE DEF c, c0, begun, v, n
  <2>7. /\ DOMAIN v.c = ClientFields /\ v.c.last = w.c.last + 1 /\ v.c.scan = w.c.last + 1
        /\ v.c.generation = w.c.generation + 1 /\ v.c.live = yes /\ v.c.queued = no
        /\ v.c.sync = w.r.sync /\ v.c.state = state /\ v.c.link = 0 /\ v.c.handle = 0
        /\ DOMAIN v.r = RadioFields /\ v.r.scanning = v.c.scan /\ v.r.links = w.r.links
        /\ v.r.connecting = w.r.connecting /\ v.r.sync = w.r.sync
    BY <2>2, <2>4, <2>6 DEF Fields, ClientFields, RadioFields
  <2>8. \A x : x \in 1 .. w.c.last => x \in 1 .. w.c.last + 1
    BY <2>2
  <2>9. \A x : x \in 0 .. w.c.last => x \in 0 .. w.c.last + 1
    BY <2>2
  <2>10. Posted(begun.m, w.c.last + 1) /\ Calling(k, w.c.last + 1)
    <3>1. Posted(begun.m, w.c.last + 1)
      BY <2>2, <2>5, <2>8 DEF Posted
    <3> QED
      BY <2>2, <2>8, <3>1, Zenon DEF Calling
  <2>11. w.c.last + 1 \in 0 .. w.c.last + 1 /\ w.c.last + 1 \in Nat
    BY <2>2
  <2>12. Formal(begun, k)
    <3>1. Numbered(begun)
      BY <2>2, <2>4, <2>5, <2>11 DEF Numbered
    <3>2. OnAir(begun.r, w.c.last + 1)
      BY <2>2, <2>5, <2>8, <2>9, Zenon DEF OnAir
    <3> QED
      BY <2>2, <2>4, <2>5, <2>10, <3>1, <3>2 DEF Formal, Fields
  <2>13. CASE ~ok
    <3>1. n = Client!FinishLink(begun) /\ begun.c.live
      BY <2>1, <2>4, <2>5, <2>13
    <3> QED
      BY <1>7, <2>12, <2>13, <3>1
  <2>14. CASE ok
    <3>1. Numbered(v) /\ Fields(v)
      BY <2>2, <2>5, <2>6, <2>7, <2>11 DEF Numbered, Fields
    <3>2. OnAir(v.r, w.c.last + 1)
      BY <2>2, <2>7, <2>8, <2>11, Zenon DEF OnAir
    <3>3. Formal(v, k)
      BY <2>6, <2>7, <2>10, <3>1, <3>2 DEF Formal
    <3>4. Staged(v)
      BY <1>5, <1>13, <2>7 DEF Staged
    <3>5. Searched(v)
      <4>1. \A i \in DOMAIN v.m.critical : v.m.critical[i].op # v.c.scan
        BY <2>2, <2>5, <2>6, <2>7 DEF Posted
      <4> QED
        BY <2>2, <2>5, <2>6, <2>7, <4>1 DEF Searched
    <3>6. /\ \A i \in DOMAIN v.m.critical : v.m.critical[i].op # 0
          /\ k.type \in {"Connected", "Disconnected"} => k.op # 0
          /\ \A l \in v.r.links : l.op # 0
      BY <2>2, <2>5, <2>6, <2>7 DEF Posted, Calling, OnAir
    <3>7. ~Carries(k, v.c) /\ \A i \in DOMAIN v.m.critical : ~Carries(v.m.critical[i], v.c)
      BY <2>7, <3>6 DEF Carries, Opens, Closes
    <3>8. Ordered(v, k)
      <4>1. 1 \in 1 .. 2
        OBVIOUS
      <4> QED
        BY <2>7, <3>6, <3>7, <4>1
           DEF Ordered, Stamps, OneHandle, Untaken, Learns, Carries
    <3>9. Announced(v, k) /\ LinkTold(v, k)
      BY <1>5, <1>13, <2>7, <3>7 DEF Announced, LinkTold, Opened, Carries
    <3>10. Informed(v, k)
      BY <3>3, <3>4, <3>5, <3>8, <3>9 DEF Informed, Based
    <3> QED
      BY <2>1, <2>5, <2>6, <2>7, <2>14, <3>10
  <2> QED
    BY <2>13, <2>14
<1>14. ASSUME NEW w, NEW k, Based(w, k), NEW ok \in BOOLEAN
       PROVE  Informed(Client!Retry(w, ok), k)
  <2> DEFINE f == Client!FinishLink(w)
             s == Client!Scan(f, "Backoff", ok)
             v == [s EXCEPT !.c.waited = w.c.peer]
  <2>1. Client!Retry(w, ok) = IF ok THEN v ELSE s
    BY Zenon DEF Client!Retry
  <2>2. Informed(f, k) /\ f.c.state = "Idle"
    BY <1>11, <1>14
  <2>3. "Backoff" \in Client!Searching
    BY <1>5
  <2>4. Informed(s, k) /\ (ok => s.c.state = "Backoff" /\ s.m.candidate = Client!NoCall)
    <3> HIDE DEF f
    <3>1. Based(f, k)
      BY <2>2 DEF Informed
    <3> QED
      BY <1>13, <2>2, <2>3, <3>1
  <2> HIDE DEF f, s
  <2>5. CASE ok
    <3>1. Fields(s) /\ Numbered(s)
      BY <2>4 DEF Informed, Based, Formal
    <3>2. /\ DOMAIN v = {"c", "m", "r"} /\ v.m = s.m /\ v.r = s.r
          /\ DOMAIN v.c = ClientFields
          /\ \A g \in ClientFields \ {"waited"} : v.c[g] = s.c[g]
      BY <3>1 DEF Fields, ClientFields
    <3> HIDE DEF v
    <3>3. Like(s, k, v, k)
      BY <3>1, <3>2 DEF Like, Fields, Numbered, ClientFields
    <3>4. StillSearching(s, v)
      BY <2>4, <2>5, <3>2 DEF StillSearching, ClientFields
    <3> QED
      BY <1>10, <2>1, <2>4, <2>5, <3>3, <3>4
  <2> QED
    BY <2>1, <2>4, <2>5
<1>15. ASSUME NEW w, NEW k, Based(w, k), NEW e, NEW ok \in BOOLEAN
       PROVE  Informed(Client!Failed(w, e, ok), k)
  BY <1>11, <1>14, <1>15 DEF Client!Failed
\* So has a connection that begins.
<1>16. ASSUME NEW w, NEW k, Based(w, k), w.c.state \in Client!Searching,
              NEW ok \in BOOLEAN
       PROVE  Informed(Client!Connect(w, ok), k)
  <2> DEFINE c0 == [w.c EXCEPT !.state = "Connecting"]
             c == Client!Begin(c0, "link")
             begun == [w EXCEPT !.c = c]
             taken == [type |-> "connect", op |-> c.link]
             v == [begun EXCEPT !.r.connecting = taken]
             n == Client!Connect(w, ok)
  <2> SUFFICES Informed(n, k)
    OBVIOUS
  <2>1. n = IF ok THEN v ELSE Client!FinishLink(begun)
    BY Zenon DEF Client!Connect
  <2>2. /\ Formal(w, k) /\ Fields(w) /\ Numbered(w) /\ Posted(w.m, w.c.last)
        /\ OnAir(w.r, w.c.last) /\ Calling(k, w.c.last) /\ w.c.last \in Nat
    BY <1>16 DEF Based, Formal, Numbered
  <2>3. w.c.handle = 0 /\ w.c.live
    BY <1>5, <1>16 DEF Based, Staged
  <2>4. /\ DOMAIN c = ClientFields /\ c.last = w.c.last + 1 /\ c.link = w.c.last + 1
        /\ c.generation = w.c.generation /\ c.live /\ c.scan = w.c.scan
        /\ c.sync = w.c.sync /\ c.state = "Connecting" /\ c.handle = 0
    BY <1>16, <2>2, <2>3 DEF Fields, ClientFields, Client!Begin
  <2>5. /\ DOMAIN begun = {"c", "m", "r"} /\ begun.c = c /\ begun.r = w.r
        /\ begun.m = w.m
    BY <2>2 DEF Fields
  <2>6. /\ DOMAIN v = {"c", "m", "r"} /\ v.c = c
        /\ v.m = w.m /\ v.r = [w.r EXCEPT !.connecting = taken]
    BY <2>5
  <2> HIDE DEF c, c0, begun, v, n
  <2>7. /\ taken.type = "connect" /\ taken.op = c.link /\ taken # Client!NoCall
        /\ DOMAIN v.r = RadioFields /\ v.r.scanning = w.r.scanning /\ v.r.links = w.r.links
        /\ v.r.connecting = taken /\ v.r.sync = w.r.sync
    BY <1>5, <2>2, <2>6 DEF Fields, RadioFields
  <2> HIDE DEF taken
  <2>8. \A x : x \in 1 .. w.c.last => x \in 1 .. w.c.last + 1
    BY <2>2
  <2>9. \A x : x \in 0 .. w.c.last => x \in 0 .. w.c.last + 1
    BY <2>2
  <2>10. Posted(w.m, w.c.last + 1) /\ Calling(k, w.c.last + 1)
    <3>1. Posted(w.m, w.c.last + 1)
      BY <2>2, <2>8 DEF Posted
    <3> QED
      BY <2>2, <2>8, <3>1, Zenon DEF Calling
  <2>11. /\ w.c.last + 1 \in 0 .. w.c.last + 1 /\ w.c.last + 1 \in 1 .. w.c.last + 1
         /\ w.c.last + 1 \in Nat
    BY <2>2
  <2>12. Formal(begun, k)
    <3>1. Numbered(begun)
      BY <2>2, <2>4, <2>5, <2>9, <2>11 DEF Numbered
    <3>2. OnAir(begun.r, w.c.last + 1)
      BY <2>2, <2>5, <2>8, <2>9, Zenon DEF OnAir
    <3> QED
      BY <2>2, <2>4, <2>5, <2>10, <3>1, <3>2 DEF Formal, Fields
  <2>13. CASE ~ok
    <3>1. n = Client!FinishLink(begun) /\ begun.c.live
      BY <2>1, <2>4, <2>5, <2>13
    <3> QED
      BY <1>7, <2>12, <2>13, <3>1
  <2>14. CASE ok
    <3>1. Numbered(v) /\ Fields(v)
      BY <2>2, <2>4, <2>5, <2>6, <2>7, <2>9, <2>11 DEF Numbered, Fields
    <3>2. OnAir(v.r, w.c.last + 1)
      <4>1. v.r.scanning \in 0 .. w.c.last + 1
        BY <2>2, <2>7, <2>9 DEF OnAir
      <4>2. v.r.connecting.type = "connect" /\ v.r.connecting.op \in 1 .. w.c.last + 1
        BY <2>4, <2>7, <2>11
      <4> QED
        BY <2>2, <2>7, <2>8, <4>1, <4>2, Zenon DEF OnAir
    <3>3. Formal(v, k)
      BY <2>4, <2>6, <2>10, <3>1, <3>2 DEF Formal
    <3>4. Staged(v)
      BY <1>5, <2>2, <2>4, <2>6 DEF Staged
    <3>5. Searched(v)
      BY <1>5, <2>4, <2>6 DEF Searched
    <3>6. /\ \A i \in DOMAIN v.m.critical : v.m.critical[i].op # v.c.link
          /\ k.type \in {"Connected", "Disconnected"} => k.op # v.c.link
          /\ \A l \in v.r.links : l.op # v.c.link
      BY <2>2, <2>4, <2>6, <2>7 DEF Posted, Calling, OnAir
    <3>7. ~Carries(k, v.c) /\ \A i \in DOMAIN v.m.critical : ~Carries(v.m.critical[i], v.c)
      BY <3>6 DEF Carries, Opens, Closes
    <3>8. Ordered(v, k)
      <4>1. 1 \in 1 .. 2
        OBVIOUS
      <4> QED
        BY <2>4, <2>6, <3>6, <3>7, <4>1
           DEF Ordered, Stamps, OneHandle, Untaken, Learns, Carries
    <3>9. Announced(v, k) /\ LinkTold(v, k)
      BY <1>5, <2>4, <2>6, <2>7, <3>7 DEF Announced, LinkTold, Opened, Carries
    <3>10. Informed(v, k)
      BY <3>3, <3>4, <3>5, <3>8, <3>9 DEF Informed, Based
    <3> QED
      BY <2>1, <2>14, <3>10
  <2> QED
    BY <2>13, <2>14
\* A procedure goes on with the link that the client has.
<1>17. ASSUME NEW w, NEW k, Formal(w, k), Ordered(w, k), LinkTold(w, k),
              w.c.live, w.c.link # 0, w.c.handle # 0,
              NEW state \in Joined, NEW ok \in BOOLEAN
       PROVE  Informed(Client!Procedure(w, state, ok), k)
  <2> DEFINE c0 == [w.c EXCEPT !.state = state]
             c == Client!Begin(c0, "gatt")
             begun == [w EXCEPT !.c = c]
             cooled == Client!Cooled(begun)
             v == [begun EXCEPT !.r.gatt = c.gatt]
             n == Client!Procedure(w, state, ok)
  <2> SUFFICES Informed(n, k)
    OBVIOUS
  <2>1. n = IF ok THEN v
            ELSE Client!FinishLink(IF state \in Client!Discovering THEN cooled ELSE begun)
    BY Zenon DEF Client!Procedure
  <2>2. Fields(w) /\ Numbered(w) /\ w.c.last \in Nat
    BY <1>17 DEF Formal, Numbered
  <2>3. /\ DOMAIN c = ClientFields /\ c.last = w.c.last + 1 /\ c.state = state
        /\ \A g \in {"live", "generation", "scan", "link", "handle", "queued", "sync"} :
             c[g] = w.c[g]
    BY <1>17, <2>2 DEF Fields, ClientFields, Client!Begin
  <2>4. /\ DOMAIN begun = {"c", "m", "r"} /\ begun.c = c /\ begun.r = w.r
        /\ begun.m = w.m
        /\ DOMAIN v = {"c", "m", "r"} /\ v.c = c /\ v.m = w.m
        /\ DOMAIN v.r = RadioFields
        /\ \A g \in {"ready", "sync", "scanning", "connecting", "links"} : v.r[g] = w.r[g]
    BY <2>2 DEF Fields, RadioFields
  <2> HIDE DEF c, c0, begun, v, n
  <2>5. /\ DOMAIN cooled = {"c", "m", "r"} /\ cooled.r = w.r /\ cooled.m = w.m
        /\ DOMAIN cooled.c = ClientFields /\ cooled.c.last = c.last
        /\ \A g \in {"live", "generation", "scan", "link", "handle", "queued", "sync"} :
             cooled.c[g] = c[g]
    BY <2>3, <2>4 DEF Client!Cooled, ClientFields
  <2> HIDE DEF cooled
  <2>6. Like(w, k, v, k) /\ Like(w, k, begun, k) /\ Like(w, k, cooled, k)
    BY <2>2, <2>3, <2>4, <2>5 DEF Like, Fields
  <2>7. v.c.state \in Joined
    BY <2>3, <2>4
  <2>8. Informed(v, k)
    BY <1>9, <1>17, <2>6, <2>7
  <2>9. /\ Formal(begun, k) /\ begun.c.live
        /\ Formal(cooled, k) /\ cooled.c.live
    BY <1>8, <1>17, <2>6 DEF Like
  <2>10. Informed(Client!FinishLink(begun), k) /\ Informed(Client!FinishLink(cooled), k)
    BY <1>7, <2>9
  <2> QED
    BY <2>1, <2>8, <2>10
\* The report at the head of the queue is taken.
<1>18. ASSUME NEW w, NEW k, Informed(w, k), w.m.critical # << >>, NEW ok \in BOOLEAN
       PROVE  LET e == Head(w.m.critical)
                  p == [w EXCEPT !.m.critical = Tail(@)]
              IN  Informed(IF Client!Current(e, w.c) THEN Client!LinkEvent(p, e, ok)
                           ELSE p, k)
  <2> DEFINE e == Head(w.m.critical)
             p == [w EXCEPT !.m.critical = Tail(@)]
             n == Len(w.m.critical)
             N == IF Client!Current(e, w.c) THEN Client!LinkEvent(p, e, ok) ELSE p
  <2> SUFFICES Informed(N, k)
    OBVIOUS
  <2>1. /\ Formal(w, k) /\ Staged(w) /\ Searched(w) /\ Stamps(w) /\ OneHandle(w, k)
        /\ Untaken(w, k) /\ Learns(w, k) /\ Announced(w, k) /\ LinkTold(w, k)
    BY <1>18 DEF Informed, Based, Ordered
  <2>2. /\ Fields(w) /\ Numbered(w) /\ Posted(w.m, w.c.last)
        /\ OnAir(w.r, w.c.last) /\ Calling(k, w.c.last) /\ w.c.last \in Nat
    BY <2>1 DEF Formal, Numbered
  <2>3. w.m.critical \in Seq(Reports)
    BY <2>2 DEF Posted
  <2>4. /\ DOMAIN p = {"c", "m", "r"} /\ p.c = w.c /\ p.r = w.r
        /\ DOMAIN p.m = MailFields /\ p.m.critical = Tail(w.m.critical)
        /\ p.m.candidate = w.m.candidate /\ p.m.flags = w.m.flags
    BY <2>2 DEF Fields, MailFields
  <2> HIDE DEF p, N
  <2>5. /\ n \in Nat /\ n # 0 /\ Len(p.m.critical) = n - 1
        /\ DOMAIN p.m.critical = 1 .. n - 1 /\ DOMAIN w.m.critical = 1 .. n
        /\ e = w.m.critical[1] /\ p.m.critical \in Seq(Reports)
        /\ \A i \in 1 .. n - 1 : p.m.critical[i] = w.m.critical[i + 1]
    BY <1>18, <2>3, <2>4
  <2>6. /\ e \in Reports /\ e.op \in 1 .. w.c.last /\ 1 \in DOMAIN w.m.critical
    BY <2>2, <2>5 DEF Posted
  <2> HIDE DEF e, n
  <2>7. \A i \in DOMAIN p.m.critical :
          i + 1 \in DOMAIN w.m.critical /\ p.m.critical[i] = w.m.critical[i + 1]
    <3>1. \A i \in 1 .. n - 1 : i + 1 \in 1 .. n
      BY <2>5
    <3> QED
      BY <2>5, <3>1, Zenon
  <2>8. \A i \in DOMAIN w.m.critical :
          \/ i = 1
          \/ i - 1 \in DOMAIN p.m.critical /\ w.m.critical[i] = p.m.critical[i - 1]
    <3>1. ASSUME NEW i \in 1 .. n, i # 1
          PROVE  i - 1 \in 1 .. n - 1 /\ w.m.critical[i] = p.m.critical[i - 1]
      <4>1. i - 1 \in 1 .. n - 1 /\ (i - 1) + 1 = i
        BY <2>5, <3>1
      <4> QED
        BY <2>5, <4>1
    <3> QED
      BY <2>5, <3>1
  <2>9. Based(p, k)
    <3>1. Posted(p.m, w.c.last)
      <4>1. \A i \in DOMAIN p.m.critical : p.m.critical[i].op \in 1 .. w.c.last
        BY <2>2, <2>7 DEF Posted
      <4> QED
        BY <2>2, <2>4, <2>5, <4>1 DEF Posted
    <3>2. Fields(p) /\ Numbered(p) /\ Staged(p)
      BY <2>1, <2>2, <2>4 DEF Fields, Numbered, Staged
    <3> QED
      BY <2>2, <2>4, <3>1, <3>2 DEF Based, Formal
  <2>10. Searched(p) /\ Stamps(p)
    <3>1. Searched(p)
      BY <2>1, <2>4, <2>7 DEF Searched
    <3>2. Stamps(p)
      BY <2>1, <2>4, <2>7 DEF Stamps
    <3> QED
      BY <3>1, <3>2
  <2>11. OneHandle(p, k)
    <3>1. PICK h \in 1 .. 2 :
            /\ \A l \in w.r.links : l.op = w.c.link => l.handle = h
            /\ \A i \in DOMAIN w.m.critical :
                 Carries(w.m.critical[i], w.c) => w.m.critical[i].handle = h
            /\ Carries(k, w.c) => k.handle = h
            /\ w.c.handle \in {0, h}
      BY <2>1, Zenon DEF OneHandle
    <3>2. \A i \in DOMAIN p.m.critical :
            Carries(p.m.critical[i], w.c) => p.m.critical[i].handle = h
      BY <2>7, <3>1
    <3> QED
      BY <2>4, <3>1, <3>2, Zenon DEF OneHandle
  <2>12. Untaken(p, k)
    BY <2>1, <2>4, <2>7, Zenon DEF Untaken
  <2>13. \A type, op :
           Tells(w, k, type, op) /\ ~(e.type = type /\ e.op = op) => Tells(p, k, type, op)
    BY <2>4, <2>5, <2>8, Zenon DEF Tells
  <2>14. Opened(p, k) => Opened(w, k)
    BY <2>4, <2>7, Zenon DEF Opened
  \* Nothing is lost with a report that the client needs no more
  <2> DEFINE spent ==
               \/ "critical" \in w.m.flags
               \/ /\ w.c.state \in Client!Searching =>
                       ~(e.type = "ScanComplete" /\ e.op = w.c.scan)
                  /\ w.c.state = "Connecting" =>
                       ~(e.type = "Connected" /\ e.op = w.c.link)
                  /\ Opens(e, w.c) => w.c.handle # 0
                  /\ ~Closes(e, w.c)
  <2>15. ASSUME spent
         PROVE  Informed(p, k)
    <3>1. ASSUME NEW x \in Nat, Met(w, x + 1)
          PROVE  Met(p, x)
      <4>1. CASE w.c.handle # 0 \/ "critical" \in w.m.flags
        BY <2>4, <4>1 DEF Met
      <4>2. CASE ~(w.c.handle # 0 \/ "critical" \in w.m.flags)
        <5>1. PICK i \in DOMAIN w.m.critical : i < x + 1 /\ Opens(w.m.critical[i], w.c)
          BY <3>1, <4>2 DEF Met
        <5>2. i # 1
          BY <2>5, <2>15, <4>2, <5>1
        <5>3. /\ i - 1 \in DOMAIN p.m.critical /\ i - 1 < x
              /\ Opens(p.m.critical[i - 1], p.c)
          BY <2>4, <2>5, <2>8, <3>1, <5>1, <5>2
        <5> QED
          BY <5>3 DEF Met
      <4> QED
        BY <4>1, <4>2
    <3>2. Learns(p, k)
      <4>1. \A i \in DOMAIN p.m.critical : Closes(p.m.critical[i], p.c) => Met(p, i)
        <5>1. \A i \in DOMAIN p.m.critical : i \in Nat
          BY <2>5
        <5> QED
          BY <2>1, <2>4, <2>7, <3>1, <5>1 DEF Learns
      <4>2. Met(w, n + 1) => Met(p, n)
        BY <2>5, <3>1
      <4>3. Len(p.m.critical) + 1 = n
        BY <2>5
      <4> QED
        BY <2>1, <2>4, <4>1, <4>2, <4>3 DEF Learns, n
    <3>3. ASSUME NEW type, NEW op, Tells(w, k, type, op),
                 "critical" \in w.m.flags \/ ~(e.type = type /\ e.op = op)
          PROVE  Tells(p, k, type, op)
      <4>1. CASE "critical" \in w.m.flags
        BY <2>4, <4>1 DEF Tells
      <4> QED
        BY <2>13, <3>3, <4>1
    <3>4. Announced(p, k)
      <4>1. w.c.state \in Client!Searching /\ Tells(w, k, "ScanComplete", w.c.scan) =>
              Tells(p, k, "ScanComplete", w.c.scan)
        BY <2>15, <3>3
      <4>2. w.c.state = "Connecting" /\ Tells(w, k, "Connected", w.c.link) =>
              Tells(p, k, "Connected", w.c.link)
        BY <2>15, <3>3
      <4> QED
        BY <2>1, <2>4, <4>1, <4>2 DEF Announced, Pending
    <3>5. LinkTold(p, k)
      <4>1. Tells(w, k, "Disconnected", w.c.link) => Tells(p, k, "Disconnected", w.c.link)
        BY <2>15, <3>3 DEF Closes
      <4> QED
        BY <2>1, <2>4, <2>14, <4>1 DEF LinkTold, Pending
    <3> QED
      BY <2>9, <2>10, <2>11, <2>12, <3>2, <3>4, <3>5 DEF Informed, Ordered
  <2> HIDE DEF spent
  <2>16. e.type \in {"ScanComplete", "Connected", "Disconnected"}
    BY <2>6 DEF Reports
  <2>17. Client!Current(e, w.c) <=>
           /\ e.generation = w.c.generation
           /\ e.op = IF e.type = "ScanComplete" THEN w.c.scan ELSE w.c.link
    BY <2>16 DEF Client!Current
  <2>18. CASE ~Client!Current(e, w.c)
    <3>1. w.c.state \in Client!Searching => ~(e.type = "ScanComplete" /\ e.op = w.c.scan)
      BY <2>1, <2>5, <2>6, <2>17, <2>18 DEF Searched
    <3>2. e.type # "ScanComplete" => e.op # w.c.link
      BY <2>1, <2>5, <2>6, <2>17, <2>18 DEF Stamps
    <3>3. spent
      BY <3>1, <3>2 DEF spent, Opens, Closes
    <3> QED
      BY <2>15, <2>18, <3>3 DEF N
  <2>19. CASE Client!Current(e, w.c)
    <3> DEFINE scanned == e.type = "ScanComplete" /\ w.c.state \in Client!Searching
               connected == e.type = "Connected" /\ w.c.state = "Connecting"
               disconnected == e.type = "Disconnected" /\ e.handle = w.c.handle
    <3>1. N = Client!LinkEvent(p, e, ok)
      BY <2>19 DEF N
    <3>2. CASE scanned
      <4>1. N = Client!FinishLink(p)
        BY <2>4, <2>16, <3>1, <3>2 DEF Client!LinkEvent
      <4> QED
        BY <1>11, <2>9, <4>1
    <3>3. CASE disconnected
      <4>1. N = Client!Failed(p, e, ok)
        BY <2>4, <2>16, <3>1, <3>3 DEF Client!LinkEvent
      <4> QED
        BY <1>15, <2>9, <4>1
    <3>4. CASE connected /\ e.status # "ok"
      <4>1. N = Client!Failed(p, e, ok)
        BY <2>4, <2>16, <3>1, <3>4 DEF Client!LinkEvent
      <4> QED
        BY <1>15, <2>9, <4>1
    <3>5. CASE connected /\ e.status = "ok"
      <4> DEFINE v == [p EXCEPT !.c.handle = e.handle]
      <4>1. N = Client!Procedure(v, "DiscoveringServices", ok)
        BY <2>4, <2>16, <3>1, <3>5 DEF Client!LinkEvent
      <4>2. Opens(e, w.c)
        BY <2>17, <2>19, <3>5 DEF Opens
      <4>3. /\ DOMAIN v = {"c", "m", "r"} /\ v.m = p.m /\ v.r = w.r
            /\ DOMAIN v.c = ClientFields /\ v.c.handle = e.handle
            /\ \A f \in ClientFields \ {"handle"} : v.c[f] = w.c[f]
        BY <2>2, <2>4 DEF Fields, ClientFields
      <4> HIDE DEF v
      <4>4. /\ v.c.link = w.c.link /\ v.c.last = w.c.last /\ v.c.live = w.c.live
            /\ v.c.generation = w.c.generation /\ v.c.scan = w.c.scan
            /\ v.c.sync = w.c.sync /\ v.c.state = "Connecting"
        BY <3>5, <4>3 DEF ClientFields
      <4>5. PICK h \in 1 .. 2 :
              /\ \A l \in w.r.links : l.op = w.c.link => l.handle = h
              /\ \A i \in DOMAIN w.m.critical :
                   Carries(w.m.critical[i], w.c) => w.m.critical[i].handle = h
              /\ Carries(k, w.c) => k.handle = h
              /\ w.c.handle \in {0, h}
        BY <2>1, Zenon DEF OneHandle
      <4>6. e.handle = h
        BY <2>5, <2>6, <4>2, <4>5 DEF Carries
      <4>7. \A x : /\ Carries(x, v.c) = Carries(x, w.c) /\ Closes(x, v.c) = Closes(x, w.c)
                   /\ Opens(x, v.c) = Opens(x, w.c)
        BY <4>4 DEF Carries, Closes, Opens
      <4>8. Formal(v, k)
        <5>1. Fields(v) /\ Numbered(v)
          BY <2>2, <2>4, <4>3, <4>4, <4>6 DEF Fields, Numbered
        <5>2. Posted(p.m, w.c.last)
          BY <2>4, <2>9 DEF Based, Formal
        <5> QED
          BY <2>2, <2>4, <4>3, <4>4, <5>1, <5>2 DEF Formal
      <4>9. Stamps(v)
        <5>1. /\ v.m.critical = p.m.critical /\ v.c.link = p.c.link
              /\ v.c.generation = p.c.generation
          BY <2>4, <4>3, <4>4
        <5> QED
          BY <2>10, <5>1, Zenon DEF Stamps
      <4>10. OneHandle(v, k)
        <5>1. \A i \in DOMAIN v.m.critical :
                Carries(v.m.critical[i], w.c) => v.m.critical[i].handle = h
          BY <2>7, <4>3, <4>5
        <5>2. v.c.handle \in {0, h}
          BY <4>3, <4>6
        <5> QED
          BY <4>3, <4>4, <4>5, <4>7, <5>1, <5>2, Zenon DEF OneHandle
      <4>11. Untaken(v, k)
        BY <2>1, <2>5, <2>6, <4>2, <4>3, <4>4 DEF Untaken, Carries
      <4>12. Learns(v, k)
        BY <4>3, <4>6 DEF Learns, Met
      <4>13. LinkTold(v, k)
        <5>1. Opened(w, k)
          BY <2>5, <2>6, <4>2 DEF Opened
        <5>2. Tells(w, k, "Disconnected", w.c.link) => Tells(v, k, "Disconnected", v.c.link)
          <6>1. e.type # "Disconnected"
            BY <3>5
          <6>2. Tells(w, k, "Disconnected", w.c.link) => Tells(p, k, "Disconnected", w.c.link)
            BY <2>13, <6>1
          <6> QED
            BY <4>3, <4>4, <6>2 DEF Tells
        <5> QED
          BY <2>1, <4>3, <4>4, <5>1, <5>2 DEF LinkTold, Pending
      <4>14. v.c.live /\ v.c.link # 0 /\ v.c.handle # 0
        BY <1>5, <2>1, <3>5, <4>3, <4>4, <4>6 DEF Staged
      <4>15. "DiscoveringServices" \in Joined
        BY <1>5
      <4> QED
        BY <1>17, <4>1, <4>8, <4>9, <4>10, <4>11, <4>12, <4>13, <4>14, <4>15 DEF Ordered
    <3>6. CASE ~scanned /\ ~connected /\ ~disconnected
      <4>1. N = p
        BY <2>4, <2>16, <3>1, <3>6 DEF Client!LinkEvent
      <4>2. CASE e.type = "ScanComplete"
        <5>1. spent
          BY <3>6, <4>2 DEF spent, Opens, Closes
        <5> QED
          BY <2>15, <4>1, <5>1
      <4>3. CASE e.type = "Connected"
        <5>1. e.op = w.c.link /\ w.c.link # 0 /\ w.c.state # "Connecting"
          BY <2>6, <2>17, <2>19, <3>6, <4>3
        <5>2. w.c.handle # 0
          BY <2>1, <5>1 DEF Staged
        <5>3. spent
          BY <4>3, <5>1, <5>2 DEF spent, Opens, Closes
        <5> QED
          BY <2>15, <4>1, <5>3
      <4>4. CASE e.type = "Disconnected"
        <5>1. Closes(e, w.c) /\ e.handle # w.c.handle
          BY <2>17, <2>19, <3>6, <4>4 DEF Closes
        <5>2. Met(w, 1)
          BY <2>1, <2>5, <2>6, <5>1 DEF Learns
        <5>3. w.c.handle # 0 => e.handle = w.c.handle
          <6>1. PICK h \in 1 .. 2 :
                  /\ \A i \in DOMAIN w.m.critical :
                       Carries(w.m.critical[i], w.c) => w.m.critical[i].handle = h
                  /\ w.c.handle \in {0, h}
            BY <2>1, Zenon DEF OneHandle
          <6>2. e.handle = h
            BY <2>5, <2>6, <5>1, <6>1 DEF Carries
          <6> QED
            BY <6>1, <6>2
        <5>4. "critical" \in w.m.flags
          BY <2>5, <5>1, <5>2, <5>3 DEF Met
        <5>5. spent
          BY <5>4 DEF spent
        <5> QED
          BY <2>15, <4>1, <5>5
      <4> QED
        BY <2>16, <4>2, <4>3, <4>4
    <3> QED
      BY <3>2, <3>3, <3>4, <3>5, <3>6
  <2> QED
    BY <2>18, <2>19
\* What the reports are not about is changed freely.
<1>19. ASSUME NEW w, NEW k, Informed(w, k), NEW v, Fields(v),
              \A f \in ClientFields \ {"gatt", "peer", "filter", "cooling", "commanding",
                                       "rejected"} : v.c[f] = w.c[f],
              v.m.critical = w.m.critical, v.m.candidate = w.m.candidate,
              v.m.flags = w.m.flags, v.r = w.r
       PROVE  Informed(v, k)
  <2>1. Numbered(w)
    BY <1>19 DEF Informed, Based, Formal
  <2>2. \A f \in {"state", "live", "generation", "last", "scan", "link", "handle",
                  "waited", "queued", "sync"} : v.c[f] = w.c[f]
    BY <1>19 DEF ClientFields
  <2>3. Like(w, k, v, k)
    BY <1>19, <2>1, <2>2 DEF Like, Numbered
  <2>4. StillSearching(w, v)
    BY <1>19, <2>2 DEF StillSearching
  <2> QED
    BY <1>10, <1>19, <2>3, <2>4
\* The candidate is taken: a search goes on only if there was none.
<1>20. ASSUME NEW w, NEW k, Informed(w, k), NEW ok \in BOOLEAN
       PROVE  LET e == w.m.candidate
                  p == [w EXCEPT !.m.candidate = Client!NoCall]
              IN  Informed(IF e # Client!NoCall /\ Client!Current(e, w.c)
                           THEN Client!TakeCandidate(p, e, ok) ELSE p, k)
  <2> DEFINE e == w.m.candidate
             p == [w EXCEPT !.m.candidate = Client!NoCall]
             N == IF e # Client!NoCall /\ Client!Current(e, w.c)
                  THEN Client!TakeCandidate(p, e, ok) ELSE p
  <2> SUFFICES Informed(N, k)
    OBVIOUS
  <2>1. /\ Formal(w, k) /\ Staged(w) /\ Searched(w) /\ Fields(w) /\ Numbered(w)
        /\ Posted(w.m, w.c.last)
    BY <1>20 DEF Informed, Based, Formal
  <2>2. /\ DOMAIN p = {"c", "m", "r"} /\ p.c = w.c /\ p.r = w.r
        /\ DOMAIN p.m = MailFields /\ p.m.critical = w.m.critical
        /\ p.m.candidate = Client!NoCall /\ p.m.flags = w.m.flags
    BY <2>1 DEF Fields, MailFields
  <2> HIDE DEF p
  <2>3. Fields(p)
    BY <2>1, <2>2 DEF Fields
  <2>4. CASE w.c.state \in Client!Searching /\ e # Client!NoCall
    <3> DEFINE v == [p EXCEPT !.c.peer = e.peer, !.c.waited = Client!NoPeer,
                              !.r.scanning = Client!None]
    <3>1. e.type = "Candidate" /\ Client!Current(e, w.c)
      BY <2>1, <2>4 DEF Posted, Searched, Client!Current
    <3>2. w.c.state = "Scanning" \/ (w.c.state = "Backoff" /\ w.c.waited = e.peer)
      BY <1>5, <2>1, <2>4 DEF Searched
    <3>3. Client!TakeCandidate(p, e, ok) = Client!Connect(v, ok)
      BY <2>2, <3>2, Zenon DEF Client!TakeCandidate
    <3>4. N = Client!Connect(v, ok)
      BY <2>4, <3>1, <3>3
    <3>5. /\ DOMAIN v = {"c", "m", "r"} /\ v.m = p.m /\ DOMAIN v.c = ClientFields
          /\ v.c.state = w.c.state /\ v.c.live = w.c.live /\ v.c.last = w.c.last
          /\ v.c.generation = w.c.generation /\ v.c.scan = w.c.scan
          /\ v.c.link = w.c.link /\ v.c.handle = w.c.handle /\ v.c.sync = w.c.sync
          /\ DOMAIN v.r = RadioFields /\ v.r.scanning = 0 /\ v.r.links = w.r.links
          /\ v.r.connecting = w.r.connecting /\ v.r.sync = w.r.sync
      BY <1>5, <2>1, <2>2 DEF Fields, ClientFields, RadioFields
    <3> HIDE DEF v
    <3>6. Formal(v, k)
      <4>1. Fields(v) /\ Numbered(v)
        BY <2>1, <2>2, <2>3, <3>5 DEF Fields, Numbered
      <4>2. Posted(p.m, w.c.last)
        BY <2>1, <2>2 DEF Posted
      <4>3. OnAir(w.r, w.c.last) /\ Calling(k, w.c.last) /\ 0 \in 0 .. w.c.last
        BY <2>1 DEF Formal, Numbered
      <4>4. OnAir(v.r, w.c.last)
        BY <3>5, <4>3, Zenon DEF OnAir
      <4> QED
        BY <3>5, <4>1, <4>2, <4>3, <4>4 DEF Formal
    <3>7. Based(v, k)
      BY <2>1, <3>5, <3>6 DEF Based, Staged
    <3>8. v.c.state \in Client!Searching
      BY <2>4, <3>5
    <3> QED
      BY <1>16, <3>4, <3>7, <3>8
  <2>5. CASE ~(w.c.state \in Client!Searching /\ e # Client!NoCall)
    <3>1. N = p
      <4>1. CASE w.c.state \in Client!Searching
        BY <2>5, <4>1
      <4>2. CASE w.c.state \notin Client!Searching
        <5>1. w.c.state # "Scanning" /\ w.c.state # "Backoff"
          BY <1>5, <4>2
        <5>2. Client!TakeCandidate(p, e, ok) = p
          BY <2>2, <5>1, Zenon DEF Client!TakeCandidate
        <5> QED
          BY <5>2
      <4> QED
        BY <4>1, <4>2
    <3>2. Like(w, k, p, k)
      BY <2>1, <2>2, <2>3 DEF Like, Numbered
    <3>3. StillSearching(w, p)
      BY <2>2, <2>5 DEF StillSearching
    <3>4. Informed(p, k)
      BY <1>10, <1>20, <3>2, <3>3
    <3> QED
      BY <3>1, <3>4
  <2> QED
    BY <2>4, <2>5
\* The end of a procedure is taken.
<1>21. ASSUME NEW w, NEW k, Informed(w, k), NEW e, NEW ok \in BOOLEAN, NEW more \in BOOLEAN
       PROVE  Informed(Client!ProcedureEvent(w, e, ok, more), k)
  <2> DEFINE next == Client!Following(w.c.state, more)
             cooled == Client!Cooled(w)
             ready == Client!BecomeReady(w)
             N == Client!ProcedureEvent(w, e, ok, more)
  <2> SUFFICES Informed(N, k)
    OBVIOUS
  <2>1. /\ Formal(w, k) /\ Staged(w) /\ Fields(w) /\ Numbered(w)
        /\ Ordered(w, k) /\ LinkTold(w, k)
    BY <1>21 DEF Informed, Based, Formal
  <2>2. CASE w.c.state \notin Client!Procedures
    <3>1. N = w
      BY <2>2 DEF Client!ProcedureEvent
    <3> QED
      BY <1>21, <3>1
  <2>3. CASE w.c.state \in Client!Procedures
    <3>1. N = IF e.status # "ok" THEN Client!FinishLink(cooled)
              ELSE IF next = "Ready" THEN ready
              ELSE Client!Procedure(w, next, ok)
      BY <2>3 DEF Client!ProcedureEvent
    <3>2. w.c.state \in Joined
      BY <2>3 DEF Joined
    <3>3. next \in Joined /\ "Ready" \in Joined
      BY <1>5, <3>2 DEF Client!Following
    <3>4. w.c.live /\ w.c.link # 0 /\ w.c.handle # 0
      BY <1>5, <2>1, <3>2 DEF Staged
    <3>5. Informed(Client!Procedure(w, next, ok), k)
      <4> HIDE DEF next
      <4> QED
        BY <1>17, <2>1, <3>3, <3>4
    <3>6. /\ DOMAIN cooled = {"c", "m", "r"} /\ cooled.r = w.r /\ cooled.m = w.m
          /\ DOMAIN cooled.c = ClientFields
          /\ \A f \in ClientFields \ {"gatt", "peer", "filter", "cooling", "commanding",
                                      "rejected"} : cooled.c[f] = w.c[f]
      BY <2>1 DEF Client!Cooled, Fields, ClientFields
    <3>7. /\ DOMAIN ready = {"c", "m", "r"} /\ ready.r = w.r /\ ready.m = w.m
          /\ DOMAIN ready.c = ClientFields /\ ready.c.state = "Ready"
          /\ ready.c.last = w.c.last
          /\ \A f \in {"live", "generation", "scan", "link", "handle", "queued", "sync"} :
               ready.c[f] = w.c[f]
      BY <2>1 DEF Client!BecomeReady, Fields, ClientFields
    <3> HIDE DEF cooled, ready, next
    <3>8. Informed(cooled, k)
      <4>1. Fields(cooled)
        BY <2>1, <3>6 DEF Fields
      <4> QED
        BY <1>19, <1>21, <3>6, <4>1
    <3>9. Informed(Client!FinishLink(cooled), k)
      <4>1. Based(cooled, k)
        BY <3>8 DEF Informed
      <4> QED
        BY <1>11, <4>1
    <3>10. Informed(ready, k)
      <4>1. Like(w, k, ready, k)
        BY <2>1, <3>7 DEF Like, Fields, Numbered
      <4>2. ready.c.state \in Joined
        BY <3>3, <3>7
      <4> QED
        BY <1>9, <2>1, <3>4, <4>1, <4>2
    <3> QED
      BY <3>1, <3>5, <3>9, <3>10
  <2> QED
    BY <2>2, <2>3
\* What the worker does besides
<1>22. ASSUME NEW w, NEW k, Informed(w, k)
       PROVE  LET f == Client!FinishLink(w)
              IN  /\ Informed(f, k)
                  /\ Informed([f EXCEPT !.c.sync = w.r.sync], k)
                  /\ Informed([f EXCEPT !.m.flags = {}], k)
  <2> DEFINE f == Client!FinishLink(w)
             synced == [f EXCEPT !.c.sync = w.r.sync]
             heard == [f EXCEPT !.m.flags = {}]
  <2> SUFFICES Informed(f, k) /\ Informed(synced, k) /\ Informed(heard, k)
    OBVIOUS
  <2>1. /\ Informed(f, k) /\ f.c.state = "Idle" /\ f.r.sync = w.r.sync
    BY <1>11, <1>22 DEF Informed
  <2> HIDE DEF f
  <2>2. Based(f, k) /\ Fields(f) /\ Numbered(f)
    BY <2>1 DEF Informed, Based, Formal
  <2>3. Informed(synced, k)
    <3>1. /\ DOMAIN synced = {"c", "m", "r"} /\ synced.m = f.m /\ synced.r = f.r
          /\ DOMAIN synced.c = ClientFields /\ synced.c.sync = f.r.sync
          /\ \A g \in ClientFields \ {"sync"} : synced.c[g] = f.c[g]
      BY <2>1, <2>2 DEF Fields, ClientFields
    <3> HIDE DEF synced
    <3>2. Fields(synced) /\ synced.c.sync \in Int /\ synced.c.sync <= synced.r.sync
      BY <2>2, <3>1 DEF Fields, Numbered
    <3>3. \A g \in {"state", "live", "generation", "last", "scan", "link", "handle"} :
            synced.c[g] = f.c[g]
      BY <3>1 DEF ClientFields
    <3> QED
      BY <1>12, <2>1, <2>2, <3>1, <3>2, <3>3
  <2>4. Informed(heard, k)
    <3>1. /\ DOMAIN heard = {"c", "m", "r"} /\ heard.c = f.c /\ heard.r = f.r
          /\ DOMAIN heard.m = MailFields /\ heard.m.critical = f.m.critical
          /\ heard.m.candidate = f.m.candidate
      BY <2>2 DEF Fields, MailFields
    <3> HIDE DEF heard
    <3>2. Fields(heard) /\ heard.c.sync \in Int /\ heard.c.sync <= heard.r.sync
      BY <2>2, <3>1 DEF Fields, Numbered
    <3> QED
      BY <1>12, <2>1, <2>2, <3>1, <3>2
  <2> QED
    BY <2>1, <2>3, <2>4
<1>23. ASSUME NEW w, NEW k, Informed(w, k), NEW filter, NEW ok \in BOOLEAN
       PROVE  LET ended == IF w.c.state = "Idle" THEN w ELSE Client!FinishLink(w)
              IN  Informed(Client!Scan([ended EXCEPT !.c.filter = filter],
                                       "Scanning", ok), k)
  <2> DEFINE ended == IF w.c.state = "Idle" THEN w ELSE Client!FinishLink(w)
             v == [ended EXCEPT !.c.filter = filter]
  <2> SUFFICES Informed(Client!Scan(v, "Scanning", ok), k)
    OBVIOUS
  <2>1. Informed(ended, k) /\ ended.c.state = "Idle"
    BY <1>11, <1>23 DEF Informed
  <2> HIDE DEF ended
  <2>2. Fields(ended)
    BY <2>1 DEF Informed, Based, Formal
  <2>3. /\ DOMAIN v = {"c", "m", "r"} /\ v.m = ended.m /\ v.r = ended.r
        /\ DOMAIN v.c = ClientFields /\ v.c.state = "Idle"
        /\ \A g \in ClientFields \ {"filter"} : v.c[g] = ended.c[g]
    BY <2>1, <2>2 DEF Fields, ClientFields
  <2> HIDE DEF v
  <2>4. Informed(v, k)
    <3>1. Fields(v)
      BY <2>2, <2>3 DEF Fields
    <3> QED
      BY <1>19, <2>1, <2>3, <3>1
  <2>5. Based(v, k) /\ "Scanning" \in Client!Searching
    BY <1>5, <2>4 DEF Informed
  <2> QED
    BY <1>13, <2>3, <2>5
<1>24. ASSUME NEW w, NEW k, Informed(w, k), NEW b, NEW a
       PROVE  LET v == [w EXCEPT !.c.commanding = b, !.m.answer = a]
              IN  Informed(v, k) /\ v.c.state = w.c.state
  <2> DEFINE v == [w EXCEPT !.c.commanding = b, !.m.answer = a]
  <2> SUFFICES Informed(v, k) /\ v.c.state = w.c.state
    OBVIOUS
  <2>1. Fields(w)
    BY <1>24 DEF Informed, Based, Formal
  <2>2. /\ DOMAIN v = {"c", "m", "r"} /\ v.r = w.r
        /\ DOMAIN v.c = ClientFields /\ v.c.state = w.c.state
        /\ \A g \in ClientFields \ {"commanding"} : v.c[g] = w.c[g]
        /\ DOMAIN v.m = MailFields /\ v.m.critical = w.m.critical
        /\ v.m.candidate = w.m.candidate /\ v.m.flags = w.m.flags
    BY <2>1 DEF Fields, ClientFields, MailFields
  <2> HIDE DEF v
  <2>3. Fields(v)
    BY <2>1, <2>2 DEF Fields
  <2>4. Informed(v, k)
    BY <1>19, <1>24, <2>2, <2>3
  <2> QED
    BY <2>2, <2>4
<1>25. ASSUME NEW w, NEW k, Informed(w, k), w.c.state = "Ready", NEW ok \in BOOLEAN
       PROVE  Informed(Client!Procedure(w, "Ready", ok), k)
  <2>1. Formal(w, k) /\ Ordered(w, k) /\ LinkTold(w, k) /\ Staged(w)
    BY <1>25 DEF Informed, Based
  <2>2. "Ready" \in Joined
    BY <1>5
  <2>3. w.c.live /\ w.c.link # 0 /\ w.c.handle # 0
    BY <1>5, <1>25, <2>1 DEF Staged
  <2> QED
    BY <1>17, <2>1, <2>2, <2>3
<1>26. ASSUME NEW w, NEW k, Informed(w, k), w.c.state = "Backoff"
       PROVE  Informed([w EXCEPT !.c.state = "Scanning", !.c.waited = Client!NoPeer], k)
  <2> DEFINE v == [w EXCEPT !.c.state = "Scanning", !.c.waited = Client!NoPeer]
  <2> SUFFICES Informed(v, k)
    OBVIOUS
  <2>1. Fields(w) /\ Numbered(w)
    BY <1>26 DEF Informed, Based, Formal
  <2>2. /\ DOMAIN v = {"c", "m", "r"} /\ v.r = w.r /\ v.m = w.m
        /\ DOMAIN v.c = ClientFields /\ v.c.state = "Scanning"
        /\ \A g \in {"live", "generation", "last", "scan", "link", "handle", "queued",
                     "sync"} : v.c[g] = w.c[g]
    BY <2>1 DEF Fields, ClientFields
  <2> HIDE DEF v
  <2>3. Like(w, k, v, k)
    BY <2>1, <2>2 DEF Like, Fields, Numbered
  <2>4. StillSearching(w, v)
    BY <1>26, <2>2 DEF StillSearching
  <2> QED
    BY <1>10, <1>26, <2>3, <2>4
<1>27. ASSUME NEW w, NEW k, Informed(w, k)
       PROVE  LET read == [w EXCEPT !.m.rx = Tail(@)]
                  refused == [read EXCEPT !.c.rejected = @ + 1]
              IN  /\ Informed([w EXCEPT !.m.control = Tail(@)], k)
                  /\ Informed(read, k) /\ Informed(refused, k)
                  /\ Informed([read EXCEPT !.c.rejected = 0], k)
  <2> DEFINE taken == [w EXCEPT !.m.control = Tail(@)]
             read == [w EXCEPT !.m.rx = Tail(@)]
             refused == [read EXCEPT !.c.rejected = @ + 1]
             counted == [read EXCEPT !.c.rejected = 0]
  <2>1. Fields(w)
    BY <1>27 DEF Informed, Based, Formal
  <2>2. /\ DOMAIN taken = {"c", "m", "r"} /\ taken.r = w.r /\ taken.c = w.c
        /\ DOMAIN taken.m = MailFields /\ taken.m.critical = w.m.critical
        /\ taken.m.candidate = w.m.candidate /\ taken.m.flags = w.m.flags
    BY <2>1 DEF Fields, MailFields
  <2>3. /\ DOMAIN read = {"c", "m", "r"} /\ read.r = w.r /\ read.c = w.c
        /\ DOMAIN read.m = MailFields /\ read.m.critical = w.m.critical
        /\ read.m.candidate = w.m.candidate /\ read.m.flags = w.m.flags
    BY <2>1 DEF Fields, MailFields
  <2>4. /\ DOMAIN refused = {"c", "m", "r"} /\ refused.r = w.r /\ refused.m = read.m
        /\ DOMAIN refused.c = ClientFields
        /\ \A g \in ClientFields \ {"rejected"} : refused.c[g] = w.c[g]
    BY <2>1, <2>3 DEF Fields, ClientFields
  <2>5. /\ DOMAIN counted = {"c", "m", "r"} /\ counted.r = w.r /\ counted.m = read.m
        /\ DOMAIN counted.c = ClientFields
        /\ \A g \in ClientFields \ {"rejected"} : counted.c[g] = w.c[g]
    BY <2>1, <2>3 DEF Fields, ClientFields
  <2> SUFFICES Informed(taken, k) /\ Informed(read, k) /\ Informed(refused, k)
               /\ Informed(counted, k)
    OBVIOUS
  <2> HIDE DEF taken, read, refused, counted
  <2>6. Fields(taken) /\ Fields(read) /\ Fields(refused) /\ Fields(counted)
    BY <2>1, <2>2, <2>3, <2>4, <2>5 DEF Fields
  <2>7. Informed(taken, k)
    BY <1>19, <1>27, <2>2, <2>6
  <2>8. Informed(read, k)
    BY <1>19, <1>27, <2>3, <2>6
  <2>9. Informed(refused, k)
    BY <1>19, <1>27, <2>3, <2>4, <2>6
  <2>10. Informed(counted, k)
    BY <1>19, <1>27, <2>3, <2>5, <2>6
  <2> QED
    BY <2>7, <2>8, <2>9, <2>10
<1>28. ASSUME NEW w, NEW k, Informed(w, k)
       PROVE  Informed([c |-> w.c, m |-> w.m, r |-> w.r], k)
  <2> DEFINE v == [c |-> w.c, m |-> w.m, r |-> w.r]
  <2> SUFFICES Informed(v, k)
    OBVIOUS
  <2>1. Fields(w)
    BY <1>28 DEF Informed, Based, Formal
  <2>2. DOMAIN v = {"c", "m", "r"} /\ v.c = w.c /\ v.m = w.m /\ v.r = w.r
    OBVIOUS
  <2> HIDE DEF v
  <2>3. Fields(v)
    BY <2>1, <2>2 DEF Fields
  <2> QED
    BY <1>19, <1>28, <2>2, <2>3
<1> DEFINE world == [c |-> v1, m |-> v2, r |-> v4]
\* A step of the worker
<1>29. ASSUME Informed(world, v3), Client!WorkerStep
       PROVE  Informed(world', v3')
  <2> DEFINE W == Client!World
  <2>1. W = world /\ W.c = v1 /\ W.m = v2 /\ W.r = v4
    BY DEF Client!World
  <2> HIDE DEF W, world
  <2>2. Informed(W, v3)
    BY <1>29, <2>1
  <2>3. ASSUME NEW n, Informed(n, v3), Client!Becomes(n), v3' = v3
        PROVE  Informed(world', v3')
    <3>1. world' = [c |-> n.c, m |-> n.m, r |-> n.r]
      BY <2>3 DEF Client!Becomes, world
    <3> QED
      BY <1>28, <2>3, <3>1
  <2>4. Informed(Client!FinishLink(W), v3)
    BY <1>22, <2>2
  <2>5. CASE Client!Service
    <3> DEFINE f == Client!FinishLink(W)
               s == IF v1.sync \notin {Client!None, v4.sync}
                    THEN [f EXCEPT !.c.sync = v4.sync] ELSE W
               g == Client!FinishLink(s)
               heard == [g EXCEPT !.m.flags = {}]
    <3>1. v3' = v3 /\ (Client!Becomes(g) \/ Client!Becomes(heard) \/ Client!Becomes(s))
      BY <2>5 DEF Client!Service, W
    <3>2. Informed(s, v3)
      BY <1>22, <2>1, <2>2
    <3> HIDE DEF s
    <3>3. Informed(g, v3) /\ Informed(heard, v3)
      BY <1>22, <3>2
    <3> HIDE DEF g, heard
    <3> QED
      BY <2>3, <3>1, <3>2, <3>3
  <2>6. CASE Client!TakeCritical
    <3> DEFINE e == Head(v2.critical)
               p == [W EXCEPT !.m.critical = Tail(@)]
               N(ok) == IF Client!Current(e, v1) THEN Client!LinkEvent(p, e, ok) ELSE p
    <3>1. v3' = v3
      BY <2>6 DEF Client!TakeCritical, W
    <3>2. CASE v2.critical = << >>
      <4>1. Client!Becomes(W)
        BY <2>6, <3>2 DEF Client!TakeCritical, W
      <4> QED
        BY <2>2, <2>3, <3>1, <4>1
    <3>3. CASE v2.critical # << >>
      <4>1. \A ok \in BOOLEAN : Informed(N(ok), v3)
        BY <1>18, <2>1, <2>2, <3>3
      <4>2. \E ok \in BOOLEAN : Client!Becomes(N(ok))
        BY <2>6, <3>3 DEF Client!TakeCritical, W
      <4> HIDE DEF N
      <4> QED
        BY <2>3, <3>1, <4>1, <4>2
    <3> QED
      BY <3>2, <3>3
  <2>7. CASE Client!TakeMailbox
    <3> DEFINE e == v2.candidate
               p == [W EXCEPT !.m.candidate = Client!NoCall]
               N(ok) == IF e # Client!NoCall /\ Client!Current(e, v1)
                        THEN Client!TakeCandidate(p, e, ok) ELSE p
    <3>1. v3' = v3
      BY <2>7 DEF Client!TakeMailbox, W
    <3>2. \A ok \in BOOLEAN : Informed(N(ok), v3)
      BY <1>20, <2>1, <2>2
    <3>3. \E ok \in BOOLEAN : Client!Becomes(N(ok))
      BY <2>7 DEF Client!TakeMailbox, W
    <3> HIDE DEF N
    <3> QED
      BY <2>3, <3>1, <3>2, <3>3
  <2>8. CASE Client!TakeControl
    <3> DEFINE e == Head(v2.control)
               p == [W EXCEPT !.m.control = Tail(@)]
               N(ok, more) == Client!ProcedureEvent(p, e, ok, more)
    <3>1. v3' = v3
      BY <2>8, Zenon DEF Client!TakeControl
    <3>2. Informed(p, v3)
      BY <1>27, <2>2
    <3>3. \A ok, more \in BOOLEAN : Informed(N(ok, more), v3)
      <4> HIDE DEF p, e
      <4> QED
        BY <1>21, <3>2
    <3>4. \/ Client!Becomes(W) \/ Client!Becomes(p)
          \/ \E ok, more \in BOOLEAN : Client!Becomes(N(ok, more))
      BY <2>8 DEF Client!TakeControl, W
    <3> HIDE DEF N, p
    <3> QED
      BY <2>2, <2>3, <3>1, <3>2, <3>3, <3>4
  <2>9. CASE Client!Timers
    <3> DEFINE v == [W EXCEPT !.c.state = "Scanning", !.c.waited = Client!NoPeer]
               f == Client!FinishLink(W)
    <3>1. /\ v3' = v3
          /\ \/ Client!Becomes(W) \/ Client!Becomes(f)
             \/ v1.state = "Backoff" /\ Client!Becomes(v)
      BY <2>9 DEF Client!Timers, W
    <3>2. v1.state = "Backoff" => Informed(v, v3)
      BY <1>26, <2>1, <2>2
    <3> HIDE DEF v, f
    <3>3. Informed(f, v3)
      BY <2>4 DEF f
    <3> QED
      BY <2>2, <2>3, <3>1, <3>2, <3>3
  <2>10. CASE Client!Poll
    <3>1. v1' = v1 /\ v2' = v2 /\ v3' = v3 /\ v4' = v4
      BY <2>10 DEF Client!Poll, W
    <3>2. Client!Becomes(W)
      BY <2>1, <3>1 DEF Client!Becomes
    <3> QED
      BY <2>2, <2>3, <3>1, <3>2
  <2>11. CASE Client!StartScan
    <3> DEFINE ended == IF v1.state = "Idle" THEN W ELSE Client!FinishLink(W)
               N(filter, ok) == Client!Scan([ended EXCEPT !.c.filter = filter],
                                            "Scanning", ok)
    <3>1. v3' = v3
      BY <2>11 DEF Client!StartScan, W
    <3>2. \A filter : \A ok \in BOOLEAN : Informed(N(filter, ok), v3)
      BY <1>23, <2>1, <2>2
    <3>3. \/ Client!Becomes(W)
          \/ \E filter \in Peers \cup {Client!NoPeer} :
               \E ok \in BOOLEAN : Client!Becomes(N(filter, ok))
      BY <2>11 DEF Client!StartScan, W
    <3> HIDE DEF N
    <3> QED
      BY <2>2, <2>3, <3>1, <3>2, <3>3
  <2>12. CASE Client!TakeWeight
    <3> DEFINE f == Client!FinishLink(W)
               read == [W EXCEPT !.m.rx = Tail(@)]
               refused == [read EXCEPT !.c.rejected = @ + 1]
               counted == [read EXCEPT !.c.rejected = 0]
               ended == Client!FinishLink(refused)
    <3>1. /\ v3' = v3
          /\ \/ Client!Becomes(W) \/ Client!Becomes(f) \/ Client!Becomes(read)
             \/ Client!Becomes(refused) \/ Client!Becomes(counted)
             \/ Client!Becomes(ended)
      BY <2>12, Zenon DEF Client!TakeWeight, Client!ReadFrame, W
    <3>2. Informed(read, v3) /\ Informed(refused, v3) /\ Informed(counted, v3)
      BY <1>27, <2>2
    <3> HIDE DEF read, refused, counted
    <3>3. Informed(ended, v3)
      BY <1>22, <3>2
    <3> HIDE DEF f, ended
    <3>4. Informed(f, v3)
      BY <2>4 DEF f
    <3> QED
      BY <2>2, <2>3, <3>1, <3>2, <3>3, <3>4
  <2>13. CASE Client!Write
    <3> DEFINE f == Client!FinishLink(W)
               yes == TRUE
               asked == [W EXCEPT !.c.commanding = yes, !.m.answer = "none"]
               N(ok) == Client!Procedure(asked, "Ready", ok)
    <3>1. v3' = v3
      BY <2>13 DEF Client!Write, W
    <3>2. \/ Client!Becomes(W) \/ Client!Becomes(f)
          \/ v1.state = "Ready" /\ \E ok \in BOOLEAN : Client!Becomes(N(ok))
      <4>1. PICK ok \in BOOLEAN, answered \in BOOLEAN :
              CASE v1.state # "Ready" -> Client!Becomes(W) /\ Client!Leave
                [] v1.state = "Ready" /\ ~answered ->
                     Client!Becomes(IF ok THEN W ELSE f) /\ Client!Leave
                [] OTHER ->
                     /\ Client!Becomes(N(ok))
                     /\ IF ok THEN Client!GoTo("waiting") ELSE Client!Leave
        BY <2>13, Zenon DEF Client!Write, W
      <4> HIDE DEF N, f
      <4> QED
        BY <4>1
    <3> HIDE DEF yes
    <3>3. Informed(asked, v3) /\ asked.c.state = W.c.state
      <4>1. Informed(asked, v3)
        BY <1>24, <2>2
      <4>2. Fields(W)
        BY <2>2 DEF Informed, Based, Formal
      <4> QED
        BY <4>1, <4>2 DEF Fields, ClientFields
    <3> HIDE DEF asked
    <3>4. v1.state = "Ready" => \A ok \in BOOLEAN : Informed(N(ok), v3)
      BY <1>25, <2>1, <3>3
    <3> HIDE DEF f, N
    <3>5. Informed(f, v3)
      BY <2>4 DEF f
    <3> QED
      BY <2>2, <2>3, <3>1, <3>2, <3>4, <3>5
  <2>14. CASE Client!WriteDone
    <3> DEFINE no == FALSE
               w == [W EXCEPT !.c.commanding = no, !.m.answer = "none"]
               f == Client!FinishLink(w)
    <3>1. v3' = v3 /\ (Client!Becomes(w) \/ Client!Becomes(f))
      BY <2>14 DEF Client!WriteDone, W
    <3> HIDE DEF no
    <3>2. Informed(w, v3)
      BY <1>24, <2>2
    <3> HIDE DEF w
    <3>3. Informed(f, v3)
      BY <1>22, <3>2
    <3> HIDE DEF f
    <3> QED
      BY <2>3, <3>1, <3>2, <3>3
  <2>15. CASE Client!Disconnect
    <3>1. v3' = v3 /\ Client!Becomes(Client!FinishLink(W))
      BY <2>15 DEF Client!Disconnect, W
    <3> QED
      BY <2>3, <2>4, <3>1
  <2> QED
    BY <1>29, <2>5, <2>6, <2>7, <2>8, <2>9, <2>10, <2>11, <2>12, <2>13, <2>14, <2>15
       DEF Client!WorkerStep
\* What happens on the radio, and the callback j that it leads to
<1>30. ASSUME NEW w, NEW k, Informed(w, k), NEW v, NEW j, Fields(v), v.c = w.c, v.m = w.m,
              v.r.sync \in Int, w.r.sync <= v.r.sync,
              OnAir(v.r, w.c.last), Calling(j, w.c.last)
       PROVE  Formal(v, j) /\ Staged(v) /\ Searched(v) /\ Stamps(v)
  <2>1. /\ Numbered(w) /\ Posted(w.m, w.c.last) /\ Staged(w) /\ Searched(w) /\ Stamps(w)
    BY <1>30 DEF Informed, Based, Formal, Ordered
  <2>2. Formal(v, j)
    <3>1. Numbered(v)
      BY <1>30, <2>1 DEF Numbered
    <3> QED
      BY <1>30, <2>1, <3>1 DEF Formal
  <2>3. Staged(v) /\ Stamps(v)
    BY <1>30, <2>1 DEF Staged, Stamps
  <2>4. Searched(v)
    BY <1>30, <2>1 DEF Searched
  <2> QED
    BY <2>2, <2>3, <2>4
\* A callback that reports nothing of the scan or the link
<1>31. ASSUME NEW w, NEW k, Informed(w, k), NEW v, NEW j, Fields(v), v.c = w.c, v.m = w.m,
              \A f \in {"ready", "sync", "scanning", "connecting", "links"} :
                v.r[f] = w.r[f],
              k = Client!NoCall, Calling(j, w.c.last),
              j.type \notin {"ScanComplete", "Connected", "Disconnected"}
       PROVE  Informed(v, j)
  <2>1. Numbered(w) /\ k.type = "none"
    BY <1>5, <1>31 DEF Informed, Based, Formal
  <2>2. Like(w, k, v, j)
    BY <1>31, <2>1 DEF Like, Numbered
  <2>3. StillSearching(w, v)
    BY <1>31 DEF StillSearching
  <2> QED
    BY <1>10, <1>31, <2>2, <2>3
\* The scan is over.
<1>32. ASSUME NEW w, Informed(w, Client!NoCall), NEW v, NEW j, Fields(v),
              v.c = w.c, v.m = w.m, w.r.scanning # 0,
              v.r = [w.r EXCEPT !.scanning = 0],
              j \in {Client!NoCall, Client!Event("ScanComplete", w.r.scanning, "ended", 0)},
              w.r.scanning = w.c.scan =>
                j = Client!Event("ScanComplete", w.r.scanning, "ended", 0)
       PROVE  Informed(v, j)
  <2> DEFINE k == Client!NoCall
  <2>1. /\ Fields(w) /\ OnAir(w.r, w.c.last) /\ w.c.last \in Nat /\ Numbered(w)
        /\ OneHandle(w, k) /\ Untaken(w, k) /\ Learns(w, k)
        /\ Announced(w, k) /\ LinkTold(w, k)
    BY <1>32 DEF Informed, Based, Formal, Numbered, Ordered
  <2>2. /\ v.r.ready = w.r.ready /\ v.r.sync = w.r.sync /\ v.r.scanning = 0
        /\ v.r.connecting = w.r.connecting /\ v.r.links = w.r.links
    BY <1>32, <2>1 DEF Fields, RadioFields
  <2>3. /\ j.type \in {"none", "ScanComplete"}
        /\ j.type = "ScanComplete" => j.op = w.r.scanning
        /\ w.r.scanning = w.c.scan => j.type = "ScanComplete"
        /\ k.type = "none"
    BY <1>5, <1>32 DEF Client!Event
  <2>4. OnAir(v.r, w.c.last) /\ Calling(j, w.c.last)
    <3>1. 0 \in 0 .. w.c.last /\ w.r.scanning \in 1 .. w.c.last
      BY <1>32, <2>1 DEF OnAir
    <3>2. OnAir(v.r, w.c.last)
      BY <2>1, <2>2, <3>1, Zenon DEF OnAir
    <3>3. Calling(j, w.c.last)
      BY <1>5, <1>32, <3>1 DEF Calling, Client!Event
    <3> QED
      BY <3>2, <3>3
  <2> HIDE DEF k
  <2>5. Formal(v, j) /\ Staged(v) /\ Searched(v) /\ Stamps(v)
    <3>1. Informed(w, k) /\ Fields(v) /\ v.c = w.c /\ v.m = w.m
      BY <1>32 DEF k
    <3>2. v.r.sync \in Int /\ w.r.sync <= v.r.sync
      BY <2>1, <2>2 DEF Numbered
    <3> QED
      BY <1>30, <2>4, <3>1, <3>2
  <2>6. ~Carries(j, w.c) /\ ~Carries(k, w.c)
    BY <2>3 DEF Carries, Opens, Closes
  <2>7. OneHandle(v, j)
    BY <1>32, <2>1, <2>2, <2>6 DEF OneHandle
  <2>8. Untaken(v, j)
    BY <1>32, <2>1, <2>2, <2>6 DEF Untaken
  <2>9. Learns(v, j)
    <3>1. \A n : Met(w, n) = Met(v, n)
      BY <1>32 DEF Met
    <3> QED
      BY <1>32, <2>1, <2>2, <2>6, <3>1, Zenon DEF Learns, Carries
  <2>10. /\ Tells(w, k, "Connected", w.c.link) => Tells(v, j, "Connected", w.c.link)
         /\ Tells(w, k, "Disconnected", w.c.link) => Tells(v, j, "Disconnected", w.c.link)
         /\ Tells(w, k, "ScanComplete", w.c.scan) => Tells(v, j, "ScanComplete", w.c.scan)
         /\ w.r.scanning = w.c.scan => Tells(v, j, "ScanComplete", w.c.scan)
    BY <1>32, <2>3 DEF Tells
  <2>11. Announced(v, j)
    BY <1>32, <2>1, <2>2, <2>10 DEF Announced, Pending
  <2>12. LinkTold(v, j)
    BY <1>32, <2>1, <2>2, <2>6, <2>10 DEF LinkTold, Pending, Opened, Carries
  <2> QED
    BY <2>5, <2>7, <2>8, <2>9, <2>11, <2>12 DEF Informed, Based, Ordered
\* A connection is established.
<1>33. ASSUME NEW w, Informed(w, Client!NoCall), NEW v, NEW j, Fields(v),
              v.c = w.c, v.m = w.m, w.r.connecting # Client!NoCall, NEW h \in 1 .. 2,
              v.r = [w.r EXCEPT !.connecting = Client!NoCall,
                                !.links = @ \cup {[op |-> w.r.connecting.op, handle |-> h]}],
              j = IF w.r.connecting.op = w.c.link
                  THEN Client!Event("Connected", w.r.connecting.op, "ok", h)
                  ELSE Client!NoCall
       PROVE  Informed(v, j)
  <2> DEFINE k == Client!NoCall
             op == w.r.connecting.op
             new == [op |-> op, handle |-> h]
  <2>1. /\ Fields(w) /\ OnAir(w.r, w.c.last) /\ w.c.last \in Nat /\ Numbered(w)
        /\ OneHandle(w, k) /\ Untaken(w, k) /\ Learns(w, k)
        /\ Announced(w, k) /\ LinkTold(w, k)
    BY <1>33 DEF Informed, Based, Formal, Numbered, Ordered
  <2>2. /\ v.r.ready = w.r.ready /\ v.r.sync = w.r.sync /\ v.r.scanning = w.r.scanning
        /\ v.r.connecting = k /\ v.r.links = w.r.links \cup {new}
        /\ new = [op |-> new.op, handle |-> new.handle] /\ new.op = op /\ new.handle = h
    BY <1>33, <2>1 DEF Fields, RadioFields
  <2>3. /\ k.type = "none" /\ op \in 1 .. w.c.last
        /\ op = w.c.link =>
             /\ j = [type |-> "Connected", op |-> op, status |-> "ok", handle |-> h]
             /\ j.type = "Connected" /\ j.op = op /\ j.status = "ok" /\ j.handle = h
        /\ op # w.c.link => j = k
    BY <1>5, <1>33, <2>1 DEF Client!Event, OnAir
  <2> HIDE DEF k, op, new
  <2>4. OnAir(v.r, w.c.last) /\ Calling(j, w.c.last)
    <3>1. OnAir(v.r, w.c.last)
      BY <2>1, <2>2, <2>3 DEF OnAir, k
    <3>2. Calling(j, w.c.last)
      BY <2>3 DEF Calling
    <3> QED
      BY <3>1, <3>2
  <2>5. Formal(v, j) /\ Staged(v) /\ Searched(v) /\ Stamps(v)
    <3>1. Informed(w, k) /\ Fields(v) /\ v.c = w.c /\ v.m = w.m
      BY <1>33 DEF k
    <3>2. v.r.sync \in Int /\ w.r.sync <= v.r.sync
      BY <2>1, <2>2 DEF Numbered
    <3> QED
      BY <1>30, <2>4, <3>1, <3>2
  <2>6. ~Carries(k, w.c) /\ ~Closes(j, w.c) /\ (op = w.c.link <=> Opens(j, w.c))
    BY <2>3 DEF Carries, Opens, Closes
  <2>7. op = w.c.link =>
          /\ \A l \in w.r.links : l.op # w.c.link
          /\ \A i \in DOMAIN w.m.critical : ~Carries(w.m.critical[i], w.c)
          /\ w.c.handle = 0
    BY <1>33, <2>1 DEF Untaken, k, op
  <2>8. OneHandle(v, j)
    <3>1. CASE op = w.c.link
      BY <1>33, <2>2, <2>3, <2>7, <3>1 DEF OneHandle
    <3>2. CASE op # w.c.link
      BY <1>33, <2>1, <2>2, <2>3, <3>2 DEF OneHandle
    <3> QED
      BY <3>1, <3>2
  <2>9. Untaken(v, j)
    BY <2>2 DEF Untaken, k
  <2>10. Learns(v, j)
    <3>1. \A n : Met(w, n) = Met(v, n)
      BY <1>33 DEF Met
    <3> QED
      BY <1>33, <2>1, <2>2, <2>6, <3>1 DEF Learns, Carries
  <2>11. /\ Tells(w, k, "Connected", w.c.link) => Tells(v, j, "Connected", w.c.link)
         /\ Tells(w, k, "Disconnected", w.c.link) => Tells(v, j, "Disconnected", w.c.link)
         /\ Tells(w, k, "ScanComplete", w.c.scan) => Tells(v, j, "ScanComplete", w.c.scan)
         /\ op = w.c.link => Tells(v, j, "Connected", w.c.link)
    BY <1>33, <2>3 DEF Tells
  <2>12. Announced(v, j)
    BY <1>33, <2>1, <2>2, <2>11 DEF Announced, Pending, op
  <2>13. LinkTold(v, j)
    <3>1. Opened(v, j) => Opened(w, k) \/ op = w.c.link
      BY <1>33, <2>6 DEF Opened
    <3> QED
      BY <1>33, <2>1, <2>2, <2>11, <3>1 DEF LinkTold, Pending
  <2> QED
    BY <2>5, <2>8, <2>9, <2>10, <2>12, <2>13 DEF Informed, Based, Ordered
\* A connection is not established.
<1>34. ASSUME NEW w, Informed(w, Client!NoCall), NEW v, NEW j, Fields(v),
              v.c = w.c, v.m = w.m, w.r.connecting # Client!NoCall,
              NEW status \in {"failed", "unestablished"},
              v.r = [w.r EXCEPT !.connecting = Client!NoCall],
              j = IF w.r.connecting.op = w.c.link
                  THEN Client!Event("Connected", w.r.connecting.op, status, 0)
                  ELSE Client!NoCall
       PROVE  Informed(v, j)
  <2> DEFINE k == Client!NoCall
             op == w.r.connecting.op
  <2>1. /\ Fields(w) /\ OnAir(w.r, w.c.last) /\ w.c.last \in Nat /\ Numbered(w)
        /\ OneHandle(w, k) /\ Learns(w, k) /\ Announced(w, k) /\ LinkTold(w, k)
    BY <1>34 DEF Informed, Based, Formal, Numbered, Ordered
  <2>2. /\ v.r.ready = w.r.ready /\ v.r.sync = w.r.sync /\ v.r.scanning = w.r.scanning
        /\ v.r.connecting = k /\ v.r.links = w.r.links
    BY <1>34, <2>1 DEF Fields, RadioFields
  <2>3. /\ k.type = "none" /\ op \in 1 .. w.c.last
        /\ op = w.c.link =>
             /\ j = [type |-> "Connected", op |-> op, status |-> status, handle |-> 0]
             /\ j.type = "Connected" /\ j.op = op /\ j.status = status
        /\ op # w.c.link => j = k
    BY <1>5, <1>34, <2>1 DEF Client!Event, OnAir
  <2> HIDE DEF k, op
  <2>4. OnAir(v.r, w.c.last) /\ Calling(j, w.c.last)
    <3>1. OnAir(v.r, w.c.last)
      BY <2>1, <2>2 DEF OnAir, k
    <3>2. Calling(j, w.c.last)
      <4>1. CASE op = w.c.link
        <5>1. /\ j.type = "Connected" /\ j.op = op /\ j.status = status /\ j.handle = 0
              /\ j = [type |-> j.type, op |-> j.op, status |-> j.status,
                      handle |-> j.handle]
          BY <2>3, <4>1
        <5> QED
          BY <1>34, <2>3, <5>1 DEF Calling
      <4>2. CASE op # w.c.link
        BY <2>3, <4>2 DEF Calling
      <4> QED
        BY <4>1, <4>2
    <3> QED
      BY <3>1, <3>2
  <2>5. Formal(v, j) /\ Staged(v) /\ Searched(v) /\ Stamps(v)
    <3>1. Informed(w, k) /\ Fields(v) /\ v.c = w.c /\ v.m = w.m
      BY <1>34 DEF k
    <3>2. v.r.sync \in Int /\ w.r.sync <= v.r.sync
      BY <2>1, <2>2 DEF Numbered
    <3> QED
      BY <1>30, <2>4, <3>1, <3>2
  <2>6. ~Carries(k, w.c) /\ ~Carries(j, w.c)
    BY <1>34, <2>3 DEF Carries, Opens, Closes
  <2>7. OneHandle(v, j)
    BY <1>34, <2>1, <2>2, <2>6 DEF OneHandle
  <2>8. Untaken(v, j)
    BY <2>2 DEF Untaken, k
  <2>9. Learns(v, j)
    <3>1. \A n : Met(w, n) = Met(v, n)
      BY <1>34 DEF Met
    <3> QED
      BY <1>34, <2>1, <2>2, <2>6, <3>1 DEF Learns, Carries
  <2>10. /\ Tells(w, k, "Connected", w.c.link) => Tells(v, j, "Connected", w.c.link)
         /\ Tells(w, k, "Disconnected", w.c.link) => Tells(v, j, "Disconnected", w.c.link)
         /\ Tells(w, k, "ScanComplete", w.c.scan) => Tells(v, j, "ScanComplete", w.c.scan)
         /\ op = w.c.link => Tells(v, j, "Connected", w.c.link)
    BY <1>34, <2>3 DEF Tells
  <2>11. Announced(v, j)
    BY <1>34, <2>1, <2>2, <2>10 DEF Announced, Pending, op
  <2>12. LinkTold(v, j)
    <3>1. Opened(v, j) => Opened(w, k)
      BY <1>34, <2>6 DEF Opened, Carries
    <3> QED
      BY <1>34, <2>1, <2>2, <2>10, <3>1 DEF LinkTold, Pending
  <2> QED
    BY <2>5, <2>7, <2>8, <2>9, <2>11, <2>12 DEF Informed, Based, Ordered
\* A link is lost.
<1>35. ASSUME NEW w, Informed(w, Client!NoCall), NEW v, NEW j, Fields(v),
              v.c = w.c, v.m = w.m, NEW l \in w.r.links,
              NEW status \in {"lost", "unestablished"},
              v.r = [w.r EXCEPT !.links = @ \ {l}],
              j = IF l.op = w.c.link
                  THEN Client!Event("Disconnected", l.op, status, l.handle)
                  ELSE Client!NoCall
       PROVE  Informed(v, j)
  <2> DEFINE k == Client!NoCall
  <2>1. /\ Fields(w) /\ OnAir(w.r, w.c.last) /\ w.c.last \in Nat /\ Numbered(w)
        /\ OneHandle(w, k) /\ Untaken(w, k) /\ Learns(w, k)
        /\ Announced(w, k) /\ LinkTold(w, k)
    BY <1>35 DEF Informed, Based, Formal, Numbered, Ordered
  <2>2. /\ v.r.ready = w.r.ready /\ v.r.sync = w.r.sync /\ v.r.scanning = w.r.scanning
        /\ v.r.connecting = w.r.connecting /\ v.r.links = w.r.links \ {l}
    BY <1>35, <2>1 DEF Fields, RadioFields
  <2>3. /\ k.type = "none" /\ l.op \in 1 .. w.c.last /\ l.handle \in 1 .. 2
        /\ l.op = w.c.link =>
             /\ j = [type |-> "Disconnected", op |-> l.op, status |-> status,
                     handle |-> l.handle]
             /\ j.type = "Disconnected" /\ j.op = l.op /\ j.status = status
             /\ j.handle = l.handle
        /\ l.op # w.c.link => j = k
    BY <1>5, <1>35, <2>1 DEF Client!Event, OnAir
  <2> HIDE DEF k
  <2>4. OnAir(v.r, w.c.last) /\ Calling(j, w.c.last)
    <3>1. OnAir(v.r, w.c.last)
      BY <2>1, <2>2, Zenon DEF OnAir
    <3>2. Calling(j, w.c.last)
      <4>1. CASE l.op = w.c.link
        <5>1. /\ j.type = "Disconnected" /\ j.op = l.op /\ j.status = status
              /\ j.handle = l.handle
              /\ j = [type |-> j.type, op |-> j.op, status |-> j.status,
                      handle |-> j.handle]
          BY <2>3, <4>1
        <5> QED
          BY <1>35, <2>3, <5>1 DEF Calling
      <4>2. CASE l.op # w.c.link
        BY <2>3, <4>2 DEF Calling
      <4> QED
        BY <4>1, <4>2
    <3> QED
      BY <3>1, <3>2
  <2>5. Formal(v, j) /\ Staged(v) /\ Searched(v) /\ Stamps(v)
    <3>1. Informed(w, k) /\ Fields(v) /\ v.c = w.c /\ v.m = w.m
      BY <1>35 DEF k
    <3>2. v.r.sync \in Int /\ w.r.sync <= v.r.sync
      BY <2>1, <2>2 DEF Numbered
    <3> QED
      BY <1>30, <2>4, <3>1, <3>2
  <2>6. ~Carries(k, w.c) /\ ~Opens(j, w.c) /\ (l.op = w.c.link <=> Closes(j, w.c))
    BY <2>3 DEF Carries, Opens, Closes
  <2>7. OneHandle(v, j)
    <3>1. PICK h \in 1 .. 2 :
            /\ \A x \in w.r.links : x.op = w.c.link => x.handle = h
            /\ \A i \in DOMAIN w.m.critical :
                 Carries(w.m.critical[i], w.c) => w.m.critical[i].handle = h
            /\ w.c.handle \in {0, h}
      BY <2>1, Zenon DEF OneHandle
    <3>2. Carries(j, w.c) => j.handle = h
      BY <1>35, <2>3, <2>6, <3>1 DEF Carries
    <3> QED
      BY <1>35, <2>2, <3>1, <3>2 DEF OneHandle
  <2>8. Untaken(v, j)
    BY <1>35, <2>1, <2>2, <2>6 DEF Untaken, Carries
  <2>9. Learns(v, j)
    <3>1. \A n : Met(w, n) = Met(v, n)
      BY <1>35 DEF Met
    <3> QED
      BY <1>35, <2>1, <2>2, <2>6, <3>1 DEF Learns, Carries
  <2>10. /\ Tells(w, k, "Connected", w.c.link) => Tells(v, j, "Connected", w.c.link)
         /\ Tells(w, k, "Disconnected", w.c.link) => Tells(v, j, "Disconnected", w.c.link)
         /\ Tells(w, k, "ScanComplete", w.c.scan) => Tells(v, j, "ScanComplete", w.c.scan)
         /\ l.op = w.c.link => Tells(v, j, "Disconnected", w.c.link)
    BY <1>35, <2>3 DEF Tells
  <2>11. Announced(v, j)
    BY <1>35, <2>1, <2>2, <2>10 DEF Announced, Pending
  <2>12. LinkTold(v, j)
    <3>1. Opened(v, j) => Opened(w, k)
      BY <1>35, <2>6 DEF Opened
    <3> QED
      BY <1>35, <2>1, <2>2, <2>10, <3>1 DEF LinkTold, Pending
  <2> QED
    BY <2>5, <2>7, <2>8, <2>9, <2>11, <2>12 DEF Informed, Based, Ordered
\* While a reset of the host is pending, nothing has to be announced.
<1>36. ASSUME NEW w, NEW k, Informed(w, k), NEW v, Fields(v), v.c = w.c, v.m = w.m,
              Pending(v), v.r.sync \in Int, w.r.sync <= v.r.sync, OnAir(v.r, w.c.last),
              v.r.links \subseteq w.r.links,
              v.r.connecting \in {Client!NoCall, w.r.connecting}
       PROVE  Informed(v, k)
  <2>1. /\ Calling(k, w.c.last) /\ OneHandle(w, k) /\ Untaken(w, k) /\ Learns(w, k)
    BY <1>36 DEF Informed, Based, Formal, Ordered
  <2>2. Formal(v, k) /\ Staged(v) /\ Searched(v) /\ Stamps(v)
    BY <1>30, <1>36, <2>1
  <2>3. OneHandle(v, k)
    BY <1>36, <2>1 DEF OneHandle
  <2>4. Untaken(v, k)
    BY <1>36, <2>1 DEF Untaken
  <2>5. Learns(v, k)
    <3>1. \A n : Met(w, n) = Met(v, n)
      BY <1>36 DEF Met
    <3> QED
      BY <1>36, <2>1, <3>1 DEF Learns
  <2>6. Announced(v, k) /\ LinkTold(v, k)
    BY <1>36 DEF Announced, LinkTold
  <2> QED
    BY <2>2, <2>3, <2>4, <2>5, <2>6 DEF Informed, Based, Ordered
\* The callback k leaves its report: in the queue, or as the flag that one was lost.
<1>37. ASSUME NEW w, NEW k, Informed(w, k), NEW v, Fields(v), v.c = w.c, v.r = w.r,
              k.type \in {"ScanComplete", "Connected", "Disconnected"},
              NEW e, e = Marked(k, w.c.generation),
              v.m.candidate = w.m.candidate,
              \/ v.m.critical = w.m.critical /\ "critical" \in v.m.flags
              \/ v.m.critical = Append(w.m.critical, e) /\ v.m.flags = w.m.flags
       PROVE  Informed(v, Client!NoCall)
  <2> DEFINE j == Client!NoCall
             n == Len(w.m.critical)
  <2>1. /\ Numbered(w) /\ Posted(w.m, w.c.last) /\ OnAir(w.r, w.c.last) /\ w.c.last \in Nat
        /\ Calling(k, w.c.last) /\ Staged(w) /\ Searched(w) /\ Stamps(w)
        /\ OneHandle(w, k) /\ Untaken(w, k) /\ Learns(w, k)
        /\ Announced(w, k) /\ LinkTold(w, k)
    BY <1>37 DEF Informed, Based, Formal, Numbered, Ordered
  <2>2. j.type = "none" /\ Calling(j, w.c.last)
    BY <1>5 DEF Calling
  <2>3. ~Carries(j, w.c) /\ ~Closes(j, w.c) /\ ~Opens(j, w.c)
    BY <2>2 DEF Carries, Opens, Closes
  <2>4. /\ k = [type |-> k.type, op |-> k.op, status |-> k.status, handle |-> k.handle]
        /\ k.op \in 1 .. w.c.last /\ k.handle \in 0 .. 2
        /\ k.status \in {"ended", "ok", "failed", "unestablished", "lost"}
    BY <1>37, <2>1 DEF Calling
  <2>5. /\ e.type = k.type /\ e.op = k.op /\ e.status = k.status /\ e.handle = k.handle
        /\ e.generation = w.c.generation /\ e \in Reports
    <3>1. DOMAIN k = {"type", "op", "status", "handle"}
      BY <2>4
    <3>2. /\ e.type = k.type /\ e.op = k.op /\ e.status = k.status /\ e.handle = k.handle
          /\ e.generation = w.c.generation
      BY <1>37, <3>1 DEF Marked
    <3>3. e = [generation |-> e.generation, type |-> e.type, op |-> e.op,
               status |-> e.status, handle |-> e.handle]
      BY <1>37, <3>1 DEF Marked
    <3>4. e.generation \in Int /\ e.op \in Int
      BY <2>1, <2>4, <3>2 DEF Numbered
    <3> QED
      BY <1>37, <2>4, <3>2, <3>3, <3>4 DEF Reports
  <2>6. /\ Carries(e, w.c) = Carries(k, w.c) /\ Closes(e, w.c) = Closes(k, w.c)
        /\ Opens(e, w.c) = Opens(k, w.c)
    BY <2>5 DEF Carries, Opens, Closes
  <2> HIDE DEF j
  <2>7. CASE v.m.critical = w.m.critical /\ "critical" \in v.m.flags
    <3>1. Posted(v.m, w.c.last)
      BY <1>37, <2>1, <2>7 DEF Posted
    <3>2. Formal(v, j)
      <4>1. Numbered(v)
        BY <1>37, <2>1 DEF Numbered
      <4> QED
        BY <1>37, <2>1, <2>2, <3>1, <4>1 DEF Formal
    <3>3. Staged(v) /\ Searched(v) /\ Stamps(v)
      BY <1>37, <2>1, <2>7 DEF Staged, Searched, Stamps
    <3>4. OneHandle(v, j)
      BY <1>37, <2>1, <2>3, <2>7 DEF OneHandle
    <3>5. Untaken(v, j)
      BY <1>37, <2>1, <2>3, <2>7 DEF Untaken
    <3>6. Learns(v, j)
      BY <2>3, <2>7 DEF Learns, Met
    <3>7. Announced(v, j) /\ LinkTold(v, j)
      BY <2>7 DEF Announced, LinkTold, Tells
    <3> QED
      BY <3>2, <3>3, <3>4, <3>5, <3>6, <3>7 DEF Informed, Based, Ordered, j
  <2>8. CASE v.m.critical = Append(w.m.critical, e) /\ v.m.flags = w.m.flags
    <3>1. w.m.critical \in Seq(Reports)
      BY <2>1 DEF Posted
    <3>2. /\ n \in Nat /\ DOMAIN w.m.critical = 1 .. n
          /\ v.m.critical \in Seq(Reports) /\ Len(v.m.critical) = n + 1
          /\ DOMAIN v.m.critical = 1 .. n + 1 /\ v.m.critical[n + 1] = e
          /\ \A i \in 1 .. n : v.m.critical[i] = w.m.critical[i]
      BY <2>5, <2>8, <3>1
    <3> HIDE DEF n
    <3>3. /\ \A i \in DOMAIN w.m.critical :
               i \in DOMAIN v.m.critical /\ v.m.critical[i] = w.m.critical[i]
          /\ n + 1 \in DOMAIN v.m.critical
          /\ \A i \in DOMAIN v.m.critical :
               \/ i = n + 1
               \/ i \in DOMAIN w.m.critical /\ v.m.critical[i] = w.m.critical[i]
      BY <3>2
    <3>4. Posted(v.m, w.c.last)
      <4>1. \A i \in DOMAIN v.m.critical : v.m.critical[i].op \in 1 .. w.c.last
        BY <2>1, <2>4, <2>5, <3>2, <3>3 DEF Posted
      <4> QED
        BY <1>37, <2>1, <3>2, <4>1 DEF Posted
    <3>5. Formal(v, j)
      <4>1. Numbered(v)
        BY <1>37, <2>1 DEF Numbered
      <4> QED
        BY <1>37, <2>1, <2>2, <3>4, <4>1 DEF Formal
    <3>6. Staged(v) /\ Stamps(v)
      <4>1. Staged(v)
        BY <1>37, <2>1 DEF Staged
      <4>2. Stamps(v)
        BY <1>37, <2>1, <2>5, <3>2, <3>3, Zenon DEF Stamps
      <4> QED
        BY <4>1, <4>2
    <3>7. Searched(v)
      <4>1. \A i \in DOMAIN v.m.critical :
              v.m.critical[i].type = "ScanComplete" /\ v.m.critical[i].op = w.c.scan
              /\ w.c.state \in Client!Searching =>
                v.m.critical[i].generation = w.c.generation
        BY <2>1, <2>5, <3>2, <3>3 DEF Searched
      <4> QED
        BY <1>37, <2>1, <4>1 DEF Searched
    <3>8. OneHandle(v, j)
      <4>1. PICK h \in 1 .. 2 :
              /\ \A l \in w.r.links : l.op = w.c.link => l.handle = h
              /\ \A i \in DOMAIN w.m.critical :
                   Carries(w.m.critical[i], w.c) => w.m.critical[i].handle = h
              /\ Carries(k, w.c) => k.handle = h
              /\ w.c.handle \in {0, h}
        BY <2>1, Zenon DEF OneHandle
      <4>2. \A i \in DOMAIN v.m.critical :
              Carries(v.m.critical[i], w.c) => v.m.critical[i].handle = h
        BY <2>5, <2>6, <3>2, <3>3, <4>1
      <4> QED
        BY <1>37, <2>3, <4>1, <4>2 DEF OneHandle
    <3>9. Untaken(v, j)
      <4>1. ~Carries(k, w.c) /\ (\A i \in DOMAIN w.m.critical : ~Carries(w.m.critical[i], w.c))
              => \A i \in DOMAIN v.m.critical : ~Carries(v.m.critical[i], w.c)
        BY <2>6, <3>2, <3>3
      <4> QED
        BY <1>37, <2>1, <2>3, <4>1 DEF Untaken
    <3>10. ASSUME NEW x, NEW y \in Int, Met(w, x), x \in Int, x <= y
           PROVE  Met(v, y)
      <4>1. \A i \in DOMAIN w.m.critical : i \in Int
        BY <3>2
      <4> QED
        BY <1>37, <2>8, <3>3, <3>10, <4>1 DEF Met
    <3>11. Opens(k, w.c) => Met(v, n + 2)
      <4>1. n + 1 < n + 2 /\ n + 1 \in DOMAIN v.m.critical
        BY <3>2
      <4>2. Opens(k, w.c) => Opens(v.m.critical[n + 1], v.c)
        BY <1>37, <2>6, <3>2
      <4> QED
        BY <4>1, <4>2, Zenon DEF Met
    <3>12. Learns(v, j)
      <4>1. ASSUME NEW i \in DOMAIN v.m.critical, Closes(v.m.critical[i], w.c)
            PROVE  Met(v, i)
        <5>1. CASE i = n + 1
          <6>1. Closes(k, w.c)
            BY <2>6, <3>2, <4>1, <5>1
          <6>2. Met(w, n + 1)
            BY <2>1, <6>1 DEF Learns, n
          <6>3. n + 1 \in Int /\ n + 1 <= n + 1
            BY <3>2
          <6> QED
            BY <3>10, <5>1, <6>2, <6>3
        <5>2. CASE i # n + 1
          <6>1. i \in DOMAIN w.m.critical /\ v.m.critical[i] = w.m.critical[i] /\ i \in Int
            BY <3>2, <3>3, <4>1, <5>2
          <6>2. Met(w, i)
            BY <2>1, <4>1, <6>1 DEF Learns
          <6> QED
            BY <3>10, <6>1, <6>2
        <5> QED
          BY <5>1, <5>2
      <4>2. Len(v.m.critical) + 1 = n + 2
        BY <3>2
      <4>3. Met(w, n + 1) => Met(v, n + 2)
        <5>1. n + 1 \in Int /\ n + 2 \in Int /\ n + 1 <= n + 2
          BY <3>2
        <5> QED
          BY <3>10, <5>1
      <4>4. \A l \in v.r.links : l.op = w.c.link => Met(v, n + 2)
        BY <1>37, <2>1, <3>11, <4>3 DEF Learns, n
      <4> QED
        BY <1>37, <2>3, <4>1, <4>2, <4>4 DEF Learns
    <3>13. ASSUME NEW type, NEW op, Tells(w, k, type, op)
           PROVE  Tells(v, j, type, op)
      <4>1. CASE k.type = type /\ k.op = op
        BY <2>5, <3>2, <3>3, <4>1 DEF Tells
      <4>2. CASE "critical" \in w.m.flags
        BY <2>8, <4>2 DEF Tells
      <4>3. CASE \E i \in DOMAIN w.m.critical :
                   w.m.critical[i].type = type /\ w.m.critical[i].op = op
        BY <3>3, <4>3 DEF Tells
      <4> QED
        BY <3>13, <4>1, <4>2, <4>3, Zenon DEF Tells
    <3>14. Announced(v, j)
      BY <1>37, <2>1, <3>13 DEF Announced, Pending
    <3>15. LinkTold(v, j)
      <4>1. Opened(v, j) => Opened(w, k)
        BY <1>37, <2>3, <2>6, <3>2, <3>3 DEF Opened
      <4> QED
        BY <1>37, <2>1, <3>13, <4>1 DEF LinkTold, Pending
    <3> QED
      BY <3>5, <3>6, <3>7, <3>8, <3>9, <3>12, <3>14, <3>15
         DEF Informed, Based, Ordered, j
  <2> QED
    BY <1>37, <2>7, <2>8
\* The callback k chooses a candidate.
<1>38. ASSUME NEW w, NEW k, Informed(w, k), NEW v, Fields(v), v.r = w.r,
              k.type = "Candidate", k.op = w.c.scan,
              w.c.state = "Scanning" \/ (w.c.state = "Backoff" /\ w.c.waited = k.peer),
              NEW e, e = Marked(k, w.c.generation),
              v.m.candidate = e, v.m.critical = w.m.critical, v.m.flags = w.m.flags,
              \A f \in ClientFields \ {"queued", "cooling"} : v.c[f] = w.c[f]
       PROVE  Informed(v, Client!NoCall)
  <2> DEFINE j == Client!NoCall
  <2>1. /\ Numbered(w) /\ Posted(w.m, w.c.last) /\ OnAir(w.r, w.c.last) /\ w.c.last \in Nat
        /\ Calling(k, w.c.last) /\ Staged(w) /\ Searched(w) /\ Stamps(w)
        /\ OneHandle(w, k) /\ Untaken(w, k) /\ Learns(w, k)
        /\ Announced(w, k) /\ LinkTold(w, k)
    BY <1>38 DEF Informed, Based, Formal, Numbered, Ordered
  <2>2. j.type = "none" /\ Calling(j, w.c.last)
    BY <1>5 DEF Calling
  <2>3. /\ v.c.state = w.c.state /\ v.c.live = w.c.live /\ v.c.last = w.c.last
        /\ v.c.generation = w.c.generation /\ v.c.scan = w.c.scan /\ v.c.link = w.c.link
        /\ v.c.handle = w.c.handle /\ v.c.waited = w.c.waited /\ v.c.sync = w.c.sync
    BY <1>38 DEF ClientFields
  <2>4. e.type = "Candidate" /\ e.op = w.c.scan /\ e.peer = k.peer
        /\ e.generation = w.c.generation
    <3>1. k = [type |-> k.type, op |-> k.op, peer |-> k.peer]
      BY <1>38, <2>1 DEF Calling
    <3>2. DOMAIN k = {"type", "op", "peer"}
      BY <3>1
    <3> QED
      BY <1>38, <3>2 DEF Marked
  <2>5. /\ ~Carries(j, w.c) /\ ~Closes(j, w.c) /\ ~Opens(j, w.c)
        /\ ~Carries(k, w.c) /\ ~Closes(k, w.c) /\ ~Opens(k, w.c)
    BY <1>38, <2>2 DEF Carries, Opens, Closes
  <2>6. \A x : /\ Carries(x, v.c) = Carries(x, w.c) /\ Closes(x, v.c) = Closes(x, w.c)
               /\ Opens(x, v.c) = Opens(x, w.c)
    BY <2>3 DEF Carries, Closes, Opens
  <2> HIDE DEF j
  <2>7. Formal(v, j)
    <3>1. Numbered(v)
      BY <1>38, <2>1, <2>3 DEF Numbered
    <3>2. Posted(v.m, w.c.last)
      BY <1>38, <2>1, <2>4 DEF Posted
    <3> QED
      BY <1>38, <2>1, <2>2, <2>3, <3>1, <3>2 DEF Formal
  <2>8. Staged(v) /\ Stamps(v)
    BY <1>38, <2>1, <2>3 DEF Staged, Stamps
  <2>9. Searched(v)
    <3>1. e # Client!NoCall /\ v.c.scan # 0
      BY <1>5, <1>38, <2>1, <2>3, <2>4 DEF Searched
    <3>2. v.c.state = "Backoff" => e.peer = v.c.waited
      BY <1>38, <2>3, <2>4
    <3> QED
      BY <1>38, <2>1, <2>3, <2>4, <3>1, <3>2 DEF Searched
  <2>10. OneHandle(v, j)
    BY <1>38, <2>1, <2>3, <2>5, <2>6 DEF OneHandle
  <2>11. Untaken(v, j)
    BY <1>38, <2>1, <2>3, <2>5, <2>6 DEF Untaken
  <2>12. Learns(v, j)
    <3>1. \A n : Met(w, n) = Met(v, n)
      BY <1>38, <2>3, <2>6 DEF Met
    <3> QED
      BY <1>38, <2>1, <2>3, <2>5, <2>6, <3>1 DEF Learns
  <2>13. Tells(w, k, "ScanComplete", w.c.scan) => Tells(v, j, "ScanComplete", w.c.scan)
    BY <1>38 DEF Tells
  <2>14. Tells(w, k, "Disconnected", w.c.link) => Tells(v, j, "Disconnected", w.c.link)
    BY <1>38 DEF Tells
  <2>15. Announced(v, j)
    <3>1. w.c.state # "Connecting"
      BY <1>38
    <3> QED
      BY <1>38, <2>1, <2>3, <2>13, <3>1 DEF Announced, Pending
  <2>16. LinkTold(v, j)
    <3>1. Opened(v, j) => Opened(w, k)
      BY <1>38, <2>3, <2>5, <2>6 DEF Opened
    <3> QED
      BY <1>38, <2>1, <2>3, <2>14, <3>1 DEF LinkTold, Pending
  <2> QED
    BY <2>7, <2>8, <2>9, <2>10, <2>11, <2>12, <2>15, <2>16 DEF Informed, Based, Ordered, j
\* A step of the host
<1>39. ASSUME Informed(world, v3), Client!HostStep
       PROVE  Informed(world', v3')
  <2> DEFINE V == [c |-> v1', m |-> v2', r |-> v4']
             none == Client!NoCall
  <2>1. world.c = v1 /\ world.m = v2 /\ world.r = v4
    OBVIOUS
  <2>2. world' = V /\ V.c = v1' /\ V.m = v2' /\ V.r = v4' /\ DOMAIN V = {"c", "m", "r"}
    OBVIOUS
  <2> SUFFICES Informed(V, v3')
    BY <2>2
  <2> HIDE DEF world, V
  <2>3. Fields(world) /\ Numbered(world) /\ OnAir(v4, v1.last) /\ Calling(v3, v1.last)
    BY <1>39, <2>1 DEF Informed, Based, Formal
  <2>4. /\ DOMAIN v1 = ClientFields /\ DOMAIN v2 = MailFields /\ DOMAIN v4 = RadioFields
        /\ v1.last \in Nat /\ v1.scan \in 0 .. v1.last /\ v4.sync \in Int /\ v1.sync \in Int
        /\ v1.sync <= v4.sync /\ v4.scanning \in 0 .. v1.last
    BY <2>1, <2>3 DEF Fields, Numbered, OnAir
  <2>5. none.type = "none" /\ Calling(none, v1.last) /\ Client!None = 0
    BY <1>5 DEF Calling
  <2> HIDE DEF none
  <2>6. ASSUME v1' = v1, v2' = v2, DOMAIN v4' = RadioFields
        PROVE  Fields(V) /\ V.c = world.c /\ V.m = world.m
    BY <2>1, <2>2, <2>4, <2>6 DEF Fields
  \* A callback that reports nothing of the scan or the link
  <2>7. ASSUME v1' = v1, v2' = v2, v3 = none, DOMAIN v4' = RadioFields,
               \A f \in RadioFields \ {"gatt"} : v4'[f] = v4[f],
               Calling(v3', v1.last),
               v3'.type \notin {"ScanComplete", "Connected", "Disconnected"}
        PROVE  Informed(V, v3')
    <3>1. \A f \in {"ready", "sync", "scanning", "connecting", "links"} :
            V.r[f] = world.r[f]
      BY <2>1, <2>2, <2>7 DEF RadioFields
    <3> QED
      BY <1>31, <1>39, <2>1, <2>6, <2>7, <3>1 DEF none
  <2>8. CASE Client!Advertise
    <3>1. PICK p \in Peers : v3' \in {none, [type |-> "Candidate", op |-> v4.scanning,
                                             peer |-> p]}
      BY <2>8, Zenon DEF Client!Advertise, Client!Deliver, none
    <3>2. v1' = v1 /\ v2' = v2 /\ v3 = none /\ v4' = v4
      BY <2>8 DEF Client!Advertise, Client!Deliver, none
    <3>3. /\ Calling(v3', v1.last)
          /\ v3'.type \notin {"ScanComplete", "Connected", "Disconnected"}
      BY <2>5, <3>1 DEF Calling
    <3> QED
      BY <2>4, <2>7, <3>2, <3>3
  <2>9. CASE Client!Notify
    <3>1. PICK l \in v4.links : v3' \in {none, Client!Event("Notify", l.op, "ok", l.handle)}
      BY <2>9, Zenon DEF Client!Notify, Client!Deliver, none
    <3>2. v1' = v1 /\ v2' = v2 /\ v3 = none /\ v4' = v4
      BY <2>9 DEF Client!Notify, Client!Deliver, none
    <3>3. /\ Calling(v3', v1.last)
          /\ v3'.type \notin {"ScanComplete", "Connected", "Disconnected"}
      BY <2>5, <3>1 DEF Calling, Client!Event
    <3> QED
      BY <2>4, <2>7, <3>2, <3>3
  <2>10. CASE Client!ProcedureDone
    <3>1. PICK status \in {"ok", "failed"} :
            v3' \in {none, Client!Event("Done", v4.gatt, status, Client!None)}
      BY <2>10, Zenon DEF Client!ProcedureDone, Client!Deliver, none
    <3>2. /\ v1' = v1 /\ v2' = v2 /\ v3 = none
          /\ v4' = [v4 EXCEPT !.gatt = Client!None]
      BY <2>10 DEF Client!ProcedureDone, Client!Deliver, none
    <3>3. /\ Calling(v3', v1.last)
          /\ v3'.type \notin {"ScanComplete", "Connected", "Disconnected"}
      BY <2>5, <3>1 DEF Calling, Client!Event
    <3>4. DOMAIN v4' = RadioFields /\ \A f \in RadioFields \ {"gatt"} : v4'[f] = v4[f]
      BY <2>4, <3>2
    <3> QED
      BY <2>7, <3>2, <3>3, <3>4
  <2>11. CASE Client!ScanEnds
    <3> DEFINE e == Client!Event("ScanComplete", v4.scanning, "ended", 0)
    <3>1. /\ v1' = v1 /\ v2' = v2 /\ v3 = none /\ v4.scanning # 0
          /\ v4' = [v4 EXCEPT !.scanning = 0]
      BY <2>5, <2>11 DEF Client!ScanEnds, Client!Deliver, none
    <3>2. v3' = IF v4.scanning = v1.scan THEN e ELSE none
      BY <2>5, <2>11 DEF Client!ScanEnds, Client!Deliver, none, Client!Event
    <3>3. DOMAIN v4' = RadioFields
      BY <2>4, <3>1
    <3> HIDE DEF e
    <3>4. v3' \in {none, e} /\ (v4.scanning = v1.scan => v3' = e)
      BY <3>2
    <3> QED
      BY <1>32, <1>39, <2>1, <2>2, <2>6, <3>1, <3>3, <3>4 DEF none, e
  <2>12. CASE Client!ConnectionDone
    <3> DEFINE h == Client!FreeHandle(v4)
               op == v4.connecting.op
               over == [v4 EXCEPT !.connecting = Client!NoCall]
    <3>1. /\ v1' = v1 /\ v2' = v2 /\ v3 = none /\ v4.connecting # Client!NoCall
          /\ h \in 1 .. 2
      BY <2>12 DEF Client!ConnectionDone, Client!Deliver, none, Client!FreeHandle
    <3>2. PICK status \in {"ok", "failed", "unestablished"} :
            IF status = "ok"
            THEN Client!Deliver(Client!Event("Connected", op, status, h),
                                [over EXCEPT !.links = @ \cup {[op |-> op, handle |-> h]}])
            ELSE Client!Deliver(Client!Event("Connected", op, status, 0), over)
      BY <2>5, <2>12, Zenon DEF Client!ConnectionDone
    <3> HIDE DEF h
    <3>3. CASE status = "ok"
      <4>1. v4' = [v4 EXCEPT !.connecting = Client!NoCall,
                             !.links = @ \cup {[op |-> op, handle |-> h]}]
        BY <3>2, <3>3 DEF Client!Deliver
      <4>2. v3' = IF op = v1.link THEN Client!Event("Connected", op, "ok", h)
                  ELSE Client!NoCall
        BY <3>2, <3>3 DEF Client!Deliver, Client!Event
      <4>3. DOMAIN v4' = RadioFields
        BY <2>4, <4>1
      <4>4. /\ V.r = [world.r EXCEPT
                         !.connecting = Client!NoCall,
                         !.links = @ \cup {[op |-> world.r.connecting.op, handle |-> h]}]
            /\ v3' = IF world.r.connecting.op = world.c.link
                     THEN Client!Event("Connected", world.r.connecting.op, "ok", h)
                     ELSE Client!NoCall
            /\ world.r.connecting # Client!NoCall
        BY <2>1, <2>2, <3>1, <4>1, <4>2
      <4>5. Informed(world, Client!NoCall)
        BY <1>39, <3>1 DEF none
      <4> QED
        BY <1>33, <2>6, <3>1, <4>3, <4>4, <4>5
    <3>4. CASE status # "ok"
      <4>1. v4' = over
        BY <3>2, <3>4 DEF Client!Deliver
      <4>2. v3' = IF op = v1.link THEN Client!Event("Connected", op, status, 0)
                  ELSE Client!NoCall
        BY <3>2, <3>4 DEF Client!Deliver, Client!Event
      <4>3. DOMAIN v4' = RadioFields /\ status \in {"failed", "unestablished"}
        BY <2>4, <3>4, <4>1
      <4> QED
        BY <1>34, <1>39, <2>1, <2>2, <2>6, <3>1, <4>1, <4>2, <4>3 DEF none
    <3> QED
      BY <3>3, <3>4
  <2>13. CASE Client!LinkLost
    <3>1. PICK l \in v4.links, status \in {"lost", "unestablished"} :
            Client!Deliver(Client!Event("Disconnected", l.op, status, l.handle),
                           [v4 EXCEPT !.links = @ \ {l}])
      BY <2>13, Zenon DEF Client!LinkLost
    <3>2. /\ v1' = v1 /\ v2' = v2 /\ v3 = none /\ v4' = [v4 EXCEPT !.links = @ \ {l}]
      BY <3>1 DEF Client!Deliver, none
    <3>3. v3' = IF l.op = v1.link
                THEN Client!Event("Disconnected", l.op, status, l.handle)
                ELSE Client!NoCall
      BY <3>1 DEF Client!Deliver, Client!Event
    <3>4. DOMAIN v4' = RadioFields
      BY <2>4, <3>2
    <3> QED
      BY <1>35, <1>39, <2>1, <2>2, <2>6, <3>2, <3>3, <3>4 DEF none
  <2>14. CASE Client!Reset
    <3>1. /\ v1' = v1 /\ v2' = v2 /\ v3' = v3 /\ DOMAIN v4' = RadioFields
          /\ ~v4'.ready /\ v4'.sync = v4.sync /\ v4'.scanning = 0
          /\ v4'.connecting = none /\ v4'.links = {}
      BY <2>4, <2>5, <2>14 DEF Client!Reset, RadioFields, none
    <3>2. Pending(V) /\ OnAir(V.r, world.c.last)
      BY <2>1, <2>2, <2>4, <3>1 DEF Pending, OnAir, none
    <3>3. /\ V.r.sync \in Int /\ world.r.sync <= V.r.sync /\ V.r.links \subseteq world.r.links
          /\ V.r.connecting \in {Client!NoCall, world.r.connecting}
      BY <2>1, <2>2, <2>4, <3>1 DEF none
    <3> QED
      BY <1>36, <1>39, <2>6, <3>1, <3>2, <3>3
  <2>15. CASE Client!Sync
    <3>1. /\ v1' = v1 /\ v2' = v2 /\ v3' = v3 /\ DOMAIN v4' = RadioFields
          /\ v4'.sync = v4.sync + 1 /\ v4'.scanning = v4.scanning
          /\ v4'.connecting = v4.connecting /\ v4'.links = v4.links
      BY <2>4, <2>15 DEF Client!Sync, RadioFields
    <3>2. OnAir(V.r, world.c.last)
      BY <2>1, <2>2, <2>3, <3>1 DEF OnAir
    <3>3. Pending(V)
      BY <2>2, <2>4, <3>1 DEF Pending
    <3>4. /\ V.r.sync \in Int /\ world.r.sync <= V.r.sync /\ V.r.links \subseteq world.r.links
          /\ V.r.connecting \in {Client!NoCall, world.r.connecting}
      BY <2>1, <2>2, <2>4, <3>1
    <3> QED
      BY <1>36, <1>39, <2>6, <3>1, <3>2, <3>3, <3>4
  \* What a callback leaves that reports nothing of the scan or the link
  <2>16. ASSUME v1' = v1, v4' = v4, v3' = none, DOMAIN v2' = MailFields,
                v2'.critical = v2.critical, v2'.candidate = v2.candidate,
                "critical" \in v2.flags => "critical" \in v2'.flags,
                v3.type \notin {"ScanComplete", "Connected", "Disconnected"}
         PROVE  Informed(V, v3')
    <3>1. Fields(V)
      BY <2>2, <2>4, <2>16 DEF Fields
    <3>2. Like(world, v3, V, v3')
      BY <2>1, <2>2, <2>4, <2>5, <2>16, <3>1 DEF Like
    <3>3. StillSearching(world, V)
      BY <2>1, <2>2, <2>16 DEF StillSearching
    <3> QED
      BY <1>10, <1>39, <3>2, <3>3
  <2>17. CASE Client!Return
    <3>1. v4' = v4 /\ v3' = none
      BY <2>17 DEF Client!Return, none
    <3>2. CASE Client!Advertised
      <4>1. CASE v1' = v1 /\ v2' = v2
        BY <2>4, <2>16, <3>1, <3>2, <4>1 DEF Client!Advertised
      <4>2. CASE ~(v1' = v1 /\ v2' = v2)
        <5> DEFINE e == Client!Stamped(v3)
                   yes == TRUE
        <5>1. /\ v3.type = "Candidate" /\ v3.op = v1.scan /\ Client!Wanted(v3.peer)
              /\ v2' = [v2 EXCEPT !.candidate = e]
              /\ v1' = [v1 EXCEPT !.queued = yes, !.cooling = @ \ {v3.peer}]
          BY <3>2, <4>2 DEF Client!Advertised
        <5>2. e = Marked(v3, world.c.generation)
          BY <2>1 DEF Client!Stamped, Marked
        <5> HIDE DEF e, yes
        <5>3. v1.state = "Scanning" \/ (v1.state = "Backoff" /\ v1.waited = v3.peer)
          BY <5>1 DEF Client!Wanted
        <5>4. /\ DOMAIN v1' = ClientFields /\ DOMAIN v2' = MailFields
              /\ v2'.candidate = e /\ v2'.critical = v2.critical /\ v2'.flags = v2.flags
              /\ \A f \in ClientFields \ {"queued", "cooling"} : v1'[f] = v1[f]
          BY <2>4, <5>1 DEF MailFields, ClientFields
        <5>5. Fields(V) /\ V.r = world.r
          BY <2>1, <2>2, <2>4, <3>1, <5>4 DEF Fields
        <5>6. /\ v3.op = world.c.scan
              /\ \/ world.c.state = "Scanning"
                 \/ world.c.state = "Backoff" /\ world.c.waited = v3.peer
              /\ V.m.candidate = e /\ V.m.critical = world.m.critical
              /\ V.m.flags = world.m.flags
              /\ \A f \in ClientFields \ {"queued", "cooling"} : V.c[f] = world.c[f]
          BY <2>1, <2>2, <5>1, <5>3, <5>4
        <5>7. Informed(V, Client!NoCall)
          BY <1>38, <1>39, <5>1, <5>2, <5>5, <5>6
        <5> QED
          BY <3>1, <5>7 DEF none
      <4> QED
        BY <4>1, <4>2
    <3>3. CASE Client!Reported
      <4> DEFINE e == Client!Stamped(v3)
                 m == Client!Push("critical", v3, CriticalLength, "critical")
      <4>1. /\ v3.type \in {"ScanComplete", "Connected", "Disconnected"} /\ v1' = v1
            /\ v2' \in {m, [m EXCEPT !.answer = "broken"]}
        BY <3>3 DEF Client!Reported
      <4>2. e = Marked(v3, world.c.generation)
        BY <2>1 DEF Client!Stamped, Marked
      <4>3. m = IF Len(v2.critical) < CriticalLength
                THEN [v2 EXCEPT !.critical = Append(@, e)]
                ELSE [v2 EXCEPT !.flags = @ \cup {"critical"}]
        BY DEF Client!Push
      <4> HIDE DEF e
      <4>4. /\ DOMAIN m = MailFields /\ m.candidate = v2.candidate
            /\ \/ m.critical = v2.critical /\ "critical" \in m.flags
               \/ m.critical = Append(v2.critical, e) /\ m.flags = v2.flags
        <5>1. CASE Len(v2.critical) < CriticalLength
          <6>1. m = [v2 EXCEPT !.critical = Append(@, e)]
            BY <4>3, <5>1
          <6> HIDE DEF m
          <6> QED
            BY <2>4, <6>1 DEF MailFields
        <5>2. CASE ~(Len(v2.critical) < CriticalLength)
          <6>1. m = [v2 EXCEPT !.flags = @ \cup {"critical"}]
            BY <4>3, <5>2
          <6> HIDE DEF m
          <6> QED
            BY <2>4, <6>1 DEF MailFields
        <5> QED
          BY <5>1, <5>2
      <4> HIDE DEF m
      <4>5. /\ DOMAIN v2' = MailFields /\ v2'.candidate = v2.candidate
            /\ \/ v2'.critical = v2.critical /\ "critical" \in v2'.flags
               \/ v2'.critical = Append(v2.critical, e) /\ v2'.flags = v2.flags
        BY <4>1, <4>4 DEF MailFields
      <4>6. Fields(V) /\ V.r = world.r /\ V.c = world.c
        BY <2>1, <2>2, <2>4, <3>1, <4>1, <4>5 DEF Fields
      <4>7. /\ V.m.candidate = world.m.candidate
            /\ \/ V.m.critical = world.m.critical /\ "critical" \in V.m.flags
               \/ V.m.critical = Append(world.m.critical, e) /\ V.m.flags = world.m.flags
        BY <2>1, <2>2, <4>5
      <4>8. Informed(V, Client!NoCall)
        BY <1>37, <1>39, <4>1, <4>2, <4>6, <4>7
      <4> QED
        BY <3>1, <4>8 DEF none
    <3>4. CASE Client!Finished
      <4> DEFINE m == Client!Push("control", v3, CriticalLength, "control")
                 answered == [v2 EXCEPT !.answer = v3.status]
      <4>1. v3.type = "Done" /\ v1' = v1 /\ v2' \in {v2, answered, m}
        BY <3>4 DEF Client!Finished
      <4>2. /\ DOMAIN m = MailFields /\ m.candidate = v2.candidate
            /\ m.critical = v2.critical /\ v2.flags \subseteq m.flags
        BY <2>4 DEF Client!Push, MailFields
      <4>3. /\ DOMAIN answered = MailFields /\ answered.candidate = v2.candidate
            /\ answered.critical = v2.critical /\ answered.flags = v2.flags
        BY <2>4 DEF MailFields
      <4> HIDE DEF m, answered
      <4>4. /\ DOMAIN v2' = MailFields /\ v2'.candidate = v2.candidate
            /\ v2'.critical = v2.critical
            /\ "critical" \in v2.flags => "critical" \in v2'.flags
        BY <2>4, <4>1, <4>2, <4>3
      <4> QED
        BY <2>16, <3>1, <4>1, <4>4
    <3>5. CASE Client!Notified
      <4> DEFINE m == Client!Push("rx", v3, RxLength, "rx")
                 unread == [v2 EXCEPT !.flags = @ \cup {"stream"}]
      <4>1. v3.type = "Notify" /\ v1' = v1 /\ v2' \in {v2, unread, m}
        BY <3>5 DEF Client!Notified
      <4>2. /\ DOMAIN m = MailFields /\ m.candidate = v2.candidate
            /\ m.critical = v2.critical /\ v2.flags \subseteq m.flags
        BY <2>4 DEF Client!Push, MailFields
      <4>3. /\ DOMAIN unread = MailFields /\ unread.candidate = v2.candidate
            /\ unread.critical = v2.critical /\ v2.flags \subseteq unread.flags
        BY <2>4 DEF MailFields
      <4> HIDE DEF m, unread
      <4>4. /\ DOMAIN v2' = MailFields /\ v2'.candidate = v2.candidate
            /\ v2'.critical = v2.critical
            /\ "critical" \in v2.flags => "critical" \in v2'.flags
        BY <2>4, <4>1, <4>2, <4>3
      <4> QED
        BY <2>16, <3>1, <4>1, <4>4
    <3> QED
      BY <2>17, <3>2, <3>3, <3>4, <3>5 DEF Client!Return
  <2> QED
    BY <1>39, <2>8, <2>9, <2>10, <2>11, <2>12, <2>13, <2>14, <2>15, <2>17
       DEF Client!HostStep
\* The start, and what the invariant says
<1>40. ASSUME Client!Init
       PROVE  Informed(world, v3)
  <2>1. world.c = v1 /\ world.m = v2 /\ world.r = v4 /\ DOMAIN world = {"c", "m", "r"}
    OBVIOUS
  <2> HIDE DEF world
  <2>2. /\ DOMAIN v1 = ClientFields /\ v1.state = "Idle" /\ v1.live = FALSE
        /\ v1.generation = 0 /\ v1.last = 0 /\ v1.scan = 0 /\ v1.link = 0
        /\ v1.handle = 0 /\ v1.sync = 0
        /\ DOMAIN v4 = RadioFields /\ v4.sync = 1 /\ v4.scanning = 0
        /\ v4.connecting = Client!NoCall /\ v4.links = {}
    BY <1>5, <1>40 DEF Client!Init, ClientFields, RadioFields
  <2>3. v2 = Client!NoMail /\ v3 = Client!NoCall
    BY <1>40 DEF Client!Init
  <2>4. DOMAIN v2 = MailFields /\ Posted(v2, 0)
    <3>1. << >> \in Seq(Reports) /\ DOMAIN << >> = {}
      OBVIOUS
    <3> QED
      BY <2>3, <3>1 DEF Client!NoMail, MailFields, Posted
  <2>5. Fields(world) /\ Numbered(world) /\ OnAir(v4, 0) /\ Calling(v3, 0)
    BY <1>5, <2>1, <2>2, <2>3, <2>4 DEF Fields, Numbered, OnAir, Calling
  <2>6. Formal(world, v3)
    BY <2>1, <2>2, <2>4, <2>5 DEF Formal
  <2>7. Staged(world)
    BY <1>5, <2>1, <2>2 DEF Staged
  <2> QED
    BY <1>6, <2>1, <2>2, <2>6, <2>7 DEF Based
<1>41. ASSUME Informed(world, v3)
       PROVE  Client!EndIsAnnounced
  <2>1. world.c = v1 /\ world.m = v2 /\ world.r = v4
    OBVIOUS
  <2> HIDE DEF world
  <2>2. /\ Announced(world, v3) /\ LinkTold(world, v3) /\ Searched(world)
        /\ OneHandle(world, v3) /\ OnAir(v4, v1.last)
    BY <1>41, <2>1 DEF Informed, Based, Formal, Ordered
  <2>3. \A type, op : Client!Told(type, op) <=> Tells(world, v3, type, op)
    BY <2>1 DEF Client!Told, Tells
  <2>4. Client!ResetPending <=> Pending(world)
    BY <2>1 DEF Client!ResetPending, Pending
  <2>5. v1.handle # 0 =>
          \A l \in v4.links : l.op = v1.link => l = [op |-> v1.link, handle |-> v1.handle]
    <3>1. PICK h \in 1 .. 2 : /\ \A l \in v4.links : l.op = v1.link => l.handle = h
                              /\ v1.handle \in {0, h}
      BY <2>1, <2>2 DEF OneHandle
    <3>2. \A l \in v4.links : l = [op |-> l.op, handle |-> l.handle]
      BY <2>2 DEF OnAir
    <3> QED
      BY <3>1, <3>2
  <2>6. v1.handle # 0 => Opened(world, v3)
    BY <2>1 DEF Opened
  <2> QED
    BY <1>5, <2>1, <2>2, <2>3, <2>4, <2>5, <2>6
       DEF Client!EndIsAnnounced, Announced, LinkTold, Searched
<1>42. ASSUME Informed(world, v3), [Client!Next]_Client!clientVars
       PROVE  Informed(world', v3')
  <2>1. CASE UNCHANGED Client!clientVars
    <3>1. world' = world /\ v3' = v3
      BY <2>1 DEF Client!clientVars
    <3> HIDE DEF world
    <3> QED
      BY <1>42, <3>1
  <2> HIDE DEF world
  <2> QED
    BY <1>29, <1>39, <1>42, <2>1 DEF Client!Next
<1> DEFINE Kept == subject = "client" => Informed(world, v3)
<1>43. Init => Kept
  BY <1>1, <1>40
<1>44. Kept /\ [Next]_vars => Kept'
  <2> SUFFICES ASSUME Kept, [Next]_vars, subject' = "client"
               PROVE  Informed(world', v3')
    OBVIOUS
  <2>1. subject = "client"
    BY <1>4
  <2> HIDE DEF world
  <2> QED
    BY <1>2, <1>42, <2>1
<1>45. Kept => EndIsAnnounced
  <2> HIDE DEF world
  <2> QED
    BY <1>41 DEF EndIsAnnounced
<1> QED
  BY <1>43, <1>44, <1>45, PTL DEF Spec
===============================================================================
