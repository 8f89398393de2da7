----------------------------- MODULE ControlLoop -----------------------------
(***************************************************************************)
(* The control task of the paddle build (loop() in shotStopper.cpp) as a   *)
(* sequence of the steps another context can interrupt, together with      *)
(* those contexts: the GPTimer interrupt, the esp_timer task, the other    *)
(* tasks that report a watchdog fault or ask for a restart, and resets.    *)
(*                                                                         *)
(* Each value of pc names the next piece of code of the control task.  The *)
(* two relay procedures, close (setMachineCircuitClosed(true)) and open    *)
(* (setMachineCircuitClosed(false)), have several callers; `call' says     *)
(* who called, and so where the procedure returns.                         *)
(*                                                                         *)
(* The brew policy is abstract here: while a cycle runs the stopper may    *)
(* end it at any pass, for any of its reasons.                             *)
(***************************************************************************)
EXTENDS RelayDriver

CONSTANTS
    PaddlePositions,   \* the readings of the paddle: TRUE is held ON
    Prompt,            \* the timers that fire before time passes them by
    Delayed            \* an esp_timer callback may outlive its timer's stop

ASSUME PaddleAssumption == PaddlePositions \subseteq BOOLEAN
ASSUME PromptAssumption == Prompt \subseteq {"isr", "service"}
ASSUME DelayedAssumption == Delayed \in BOOLEAN

VARIABLES
    pc,              \* the next step of the control task
    call,            \* the caller of the relay procedure that is running
    limit,           \* close: the operational limit asked for
    seenState,       \* serviceRelaySafety's snapshot: relay.state
    seenClosed,      \* ... and relay.closed
    preserveTripFlags,
    armed,           \* close: every timer started so far
    sessionActive,   \* session.active
    stopperState,    \* REQUIRES_OFF, READY, or a CYCLE: brew, manual, rinse
    held,            \* activatorOn || rawActivatorOn
    suppressed,      \* machineActivatorDriveSuppressedThisHold
    watchdogFault,   \* criticalTaskWatchdogFault
    restoreFailed,   \* taskWatchdogRestoreFailed
    safeRestart      \* safeRestartRequested

localVars   == <<limit, seenState, seenClosed, preserveTripFlags, armed>>
stopperVars == <<sessionActive, stopperState>>
inputVars   == <<held, suppressed>>
faultVars   == <<watchdogFault, restoreFailed, safeRestart>>
vars == <<driverVars, pc, call, localVars, stopperVars, inputVars, faultVars>>

Steps == {"boot", "service", "reassertRead", "reassertWrite", "reassertCheck",
          "deadline", "stopTimers", "restore", "restart", "sampleInput",
          "mirrorOff", "mirrorOn", "close", "closeStop", "publish", "armIsr",
          "armService", "armFailed", "commit", "cancel", "open", "openStop",
          "policy", "rinse", "global", "globalStop", "operational", "web",
          "feed"}
Calls == {"none", "service", "restore", "restart", "mirrorOff", "mirrorOn",
          "physicalStart", "rinse", "webStart", "finalize", "finalizeTrip",
          "globalStop", "webStop", "webOpen", "feed"}
StartCalls == {"physicalStart", "webStart"}

-----------------------------------------------------------------------------
(* Procedure returns *)

Goto(step) == pc' = step

\* A close returns to the mirror, to beginCycle, which starts the cycle or
\* drops the session and asks for a release of the paddle first, or to
\* enterRinse, which finalizes a cycle whose circuit it could not close.
ReturnFromClose(succeeded) ==
    /\ call' = IF call = "rinse" /\ ~succeeded THEN "finalizeTrip" ELSE "none"
    /\ pc' = CASE call = "mirrorOn"      -> "policy"
               [] call = "physicalStart" -> "web"
               [] call = "rinse"         -> IF succeeded THEN "web" ELSE "open"
               [] OTHER                  -> "feed"
    /\ IF call \in StartCalls
       THEN /\ sessionActive' = succeeded
            /\ stopperState' = IF succeeded THEN "CYCLE" ELSE "REQUIRES_OFF"
       ELSE UNCHANGED stopperVars

\* After tripRelaySafety: the code that called it goes on.
ReturnFromTrip ==
    IF call \in {"service", "restore", "feed"}
    THEN /\ call' = "none"
         /\ pc' = CASE call = "service" -> "restore"
                    [] call = "restore" -> "restart"
                    [] call = "feed"    -> "service"
         /\ UNCHANGED stopperVars
    ELSE ReturnFromClose(FALSE)

\* finalizeCycle's tail, or whatever else asked to open.  A finalized cycle
\* waits for a release of a paddle that is still held.
ReturnFromOpen ==
    /\ pc' = CASE call = "mirrorOff"    -> "policy"
               [] call = "finalize"     -> "web"
               [] call = "finalizeTrip" -> "web"
               [] call = "globalStop"   -> IF sessionActive THEN "open" ELSE "web"
               [] OTHER                 -> "feed"
    /\ call' = IF call = "globalStop" /\ sessionActive
               THEN "finalizeTrip" ELSE "none"
    /\ sessionActive' =
          (sessionActive /\ call \notin {"finalize", "finalizeTrip", "webStop"})
    /\ stopperState' =
          CASE call = "finalizeTrip" -> "REQUIRES_OFF"
            [] call = "globalStop" /\ ~sessionActive -> "REQUIRES_OFF"
            [] call \in {"finalize", "webStop"} ->
                  IF held THEN "REQUIRES_OFF" ELSE "READY"
            [] OTHER -> stopperState

-----------------------------------------------------------------------------
(* serviceRelaySafety *)

\* A watchdog fault trips at once; otherwise the pass works on a snapshot.
Service ==
    /\ pc = "service"
    /\ call' = "service"
    /\ IF watchdogFault
       THEN /\ TripLocked(FALSE, FALSE, TRUE)
            /\ safeRestart' = TRUE
            /\ Goto("stopTimers")
            /\ UNCHANGED <<timerVars, localVars>>
       ELSE /\ seenState' = relaySafetyState
            /\ seenClosed' = circuitClosed
            /\ pc' = IF circuitClosed /\ relaySafetyState
                                             \notin {"TRIPPED", "LOCKOUT"}
                     THEN "reassertRead" ELSE "deadline"
            /\ UNCHANGED <<driverVars, safeRestart, limit, preserveTripFlags,
                           armed>>
    /\ UNCHANGED <<stopperVars, inputVars, watchdogFault, restoreFailed>>

FaultyDeadlinePassed ==
    /\ relaySafetyState = "ARMING" \/ circuitClosed
    /\ sinceClosedAt >= operationalLimitAtArm

DeadlinePassed ==
    /\ seenState = "ARMING" \/ seenClosed
    /\ sinceClosedAt >= operationalLimitAtArm

\* The deadline on the snapshot: the loop's own copy of the two limits.
Deadline ==
    /\ pc = "deadline"
    /\ IF DeadlinePassed
       THEN /\ TripLocked(operationalLimitAtArm >= HardMax,
                          operationalLimitAtArm < HardMax, FALSE)
            /\ Goto("stopTimers")
            /\ UNCHANGED <<timerVars, call>>
       ELSE /\ Goto("restore")
            /\ call' = "none"
            /\ UNCHANGED driverVars
    /\ UNCHANGED <<localVars, stopperVars, inputVars, faultVars>>

\* tripRelaySafety's second half, outside its critical section.
StopTimersAfterTrip ==
    /\ pc = "stopTimers"
    /\ StopTimers
    /\ ReturnFromTrip
    /\ UNCHANGED <<pinVars, circuitClosed, relaySafetyState, latchVars,
                   operationalLimitAtArm, armGenCurrent, sinceClosedAt,
                   contactAge, localVars, inputVars, faultVars>>

-----------------------------------------------------------------------------
(* reassertCommandedRelayClosedPin: three GPIO accesses, no lock *)

ReassertDone ==
    IF call = "service"
    THEN Goto("deadline") /\ UNCHANGED <<call, stopperVars>>
    ELSE ReturnFromClose(TRUE)

ReassertRead ==
    /\ pc = "reassertRead"
    /\ IF pinClosed THEN ReassertDone
       ELSE Goto("reassertWrite") /\ UNCHANGED <<call, stopperVars>>
    /\ UNCHANGED <<driverVars, localVars, inputVars, faultVars>>

ReassertWrite ==
    /\ pc = "reassertWrite"
    /\ pinClosed' = TRUE
    /\ Goto("reassertCheck")
    /\ UNCHANGED <<relayMarker, circuitClosed, relaySafetyState, latchVars,
                   operationalLimitAtArm, armGenCurrent, sinceClosedAt,
                   timerVars, contactAge, call, localVars, stopperVars,
                   inputVars, faultVars>>

FaultyDesyncRemains == Goto("reassertWrite") /\ UNCHANGED driverVars

\* GPIO_DESYNC: the rewrite did not stick.
DesyncRemains ==
    /\ TripLocked(TRUE, FALSE, FALSE)
    /\ Goto("stopTimers")
    /\ UNCHANGED timerVars

ReassertCheck ==
    /\ pc = "reassertCheck"
    /\ IF pinClosed
       THEN ReassertDone /\ UNCHANGED driverVars
       ELSE DesyncRemains /\ UNCHANGED <<call, stopperVars>>
    /\ UNCHANGED <<localVars, inputVars, faultVars>>

-----------------------------------------------------------------------------
(* The watchdog restore flag and the safe restart *)

\* An OTA window that could not restore the watchdog is a fault.
Restore ==
    /\ pc = "restore"
    /\ IF restoreFailed
       THEN /\ restoreFailed' = FALSE
            /\ watchdogFault' = TRUE
            /\ safeRestart' = TRUE
            /\ TripLocked(FALSE, FALSE, TRUE)
            /\ call' = "restore"
            /\ Goto("stopTimers")
            /\ UNCHANGED timerVars
       ELSE /\ Goto("restart")
            /\ UNCHANGED <<driverVars, call, faultVars>>
    /\ UNCHANGED <<localVars, stopperVars, inputVars>>

FaultyMayRestart == ~sessionActive /\ ~circuitClosed

\* A fault restarts now, a planned restart waits for the shot.
MayRestart ==
    watchdogFault \/ restoreFailed \/ (~sessionActive /\ ~circuitClosed)

Restart ==
    /\ pc = "restart"
    /\ IF safeRestart /\ MayRestart
       THEN call' = "restart" /\ Goto("open")
       ELSE Goto("sampleInput") /\ UNCHANGED call
    /\ UNCHANGED <<driverVars, localVars, stopperVars, inputVars, faultVars>>

-----------------------------------------------------------------------------
(* pushActivatorDrivePermission, machineSampleInput *)

\* A paddle held ON drives K1 unless a guard forbids it, or has forbidden it,
\* or a stop was requested, since this hold began.
SampleInput ==
    /\ pc = "sampleInput"
    /\ \E on \in PaddlePositions, guardsBlock \in BOOLEAN :
          LET allowed == sessionActive \/ ~guardsBlock
          IN  /\ held' = on
              /\ suppressed' = (on /\ (suppressed \/ ~allowed))
              /\ pc' = CASE ~on                        -> "policy"
                         [] on /\ (suppressed \/ ~allowed) -> "mirrorOff"
                         [] OTHER                      -> "mirrorOn"
    /\ UNCHANGED <<driverVars, call, localVars, stopperVars, faultVars>>

\* applyPaddleRelayDrive, a hold that may not drive K1
MirrorOff ==
    /\ pc = "mirrorOff"
    /\ IF circuitClosed
       THEN call' = "mirrorOff" /\ Goto("open")
       ELSE Goto("policy") /\ UNCHANGED call
    /\ UNCHANGED <<driverVars, localVars, stopperVars, inputVars, faultVars>>

\* applyPaddleRelayDrive, ON mirrors a close that is commanded already.  The
\* close procedure takes a snapshot of its own.
MirrorOn ==
    /\ pc = "mirrorOn"
    /\ IF circuitClosed
       THEN call' = "mirrorOn" /\ limit' = HardMax /\ Goto("close")
       ELSE Goto("policy") /\ UNCHANGED <<call, limit>>
    /\ UNCHANGED <<driverVars, seenState, seenClosed, preserveTripFlags, armed,
                   stopperVars, inputVars, faultVars>>

-----------------------------------------------------------------------------
(* setMachineCircuitClosed(true, limit) *)

\* The snapshot `before' and the refusals.
Close ==
    /\ pc = "close"
    /\ preserveTripFlags' = (relaySafetyTripped \/ operationalLimitTripped)
    /\ IF circuitClosed
       THEN /\ Goto("reassertRead")
            /\ UNCHANGED <<driverVars, call, stopperVars>>
       ELSE IF relaySafetyState = "LOCKOUT"
       THEN ReturnFromClose(FALSE) /\ UNCHANGED driverVars
       ELSE IF watchdogFault
       THEN /\ TripLocked(FALSE, FALSE, TRUE)
            /\ Goto("stopTimers")
            /\ UNCHANGED <<timerVars, call, stopperVars>>
       ELSE /\ Goto("closeStop")
            /\ UNCHANGED <<driverVars, call, stopperVars>>
    /\ UNCHANGED <<limit, seenState, seenClosed, armed, inputVars, faultVars>>

CloseStopTimers ==
    /\ pc = "closeStop"
    /\ StopTimers
    /\ Goto("publish")
    /\ UNCHANGED <<pinVars, circuitClosed, relaySafetyState, latchVars,
                   operationalLimitAtArm, armGenCurrent, sinceClosedAt,
                   contactAge, call, localVars, stopperVars, inputVars,
                   faultVars>>

Publish ==
    /\ pc = "publish"
    /\ PublishArming(limit, preserveTripFlags)
    /\ Goto("armIsr")
    /\ UNCHANGED <<call, localVars, stopperVars, inputVars, faultVars>>

ArmIsr ==
    /\ pc = "armIsr"
    /\ \/ ArmIndependentTimer(limit) /\ armed' = TRUE
       \/ UNCHANGED timerVars /\ armed' = FALSE
    /\ Goto("armService")
    /\ UNCHANGED <<pinVars, circuitClosed, relaySafetyState, latchVars,
                   operationalLimitAtArm, armGenCurrent, sinceClosedAt,
                   contactAge, call, limit, seenState, seenClosed,
                   preserveTripFlags, stopperVars, inputVars, faultVars>>

ArmService ==
    /\ pc = "armService"
    /\ \/ ArmServiceTimers(limit) /\ armed' = armed
       \/ UNCHANGED timerVars /\ armed' = FALSE
    /\ pc' = IF armed' THEN "commit" ELSE "armFailed"
    /\ UNCHANGED <<pinVars, circuitClosed, relaySafetyState, latchVars,
                   operationalLimitAtArm, armGenCurrent, sinceClosedAt,
                   contactAge, call, limit, seenState, seenClosed,
                   preserveTripFlags, stopperVars, inputVars, faultVars>>

ArmFailed ==
    /\ pc = "armFailed"
    /\ TripLocked(FALSE, FALSE, TRUE)
    /\ Goto("stopTimers")
    /\ UNCHANGED <<timerVars, call, localVars, stopperVars, inputVars,
                   faultVars>>

\* A deadline that came between publish and here has cancelled the close.
Commit ==
    /\ pc = "commit"
    /\ IF MayCommit
       THEN CommitClose /\ ReturnFromClose(TRUE)
       ELSE /\ Goto("cancel")
            /\ UNCHANGED <<driverVars, call, stopperVars>>
    /\ UNCHANGED <<localVars, inputVars, faultVars>>

Cancel ==
    /\ pc = "cancel"
    /\ StopTimers
    /\ ReturnFromClose(FALSE)
    /\ UNCHANGED <<pinVars, circuitClosed, relaySafetyState, latchVars,
                   operationalLimitAtArm, armGenCurrent, sinceClosedAt,
                   contactAge, localVars, inputVars, faultVars>>

-----------------------------------------------------------------------------
(* setMachineCircuitClosed(false) *)

\* machineRequestStop also bars the present hold from driving K1 again.
Open ==
    /\ pc = "open"
    /\ OpenCircuit
    /\ suppressed' = (suppressed \/ (call # "mirrorOff" /\ held))
    /\ Goto("openStop")
    /\ UNCHANGED <<call, localVars, stopperVars, held, faultVars>>

\* The restart is the one caller that does not come back: see Reboot.
OpenStopTimers ==
    /\ pc = "openStop"
    /\ call # "restart"
    /\ StopTimers
    /\ ReturnFromOpen
    /\ UNCHANGED <<pinVars, circuitClosed, relaySafetyState, latchVars,
                   operationalLimitAtArm, armGenCurrent, sinceClosedAt,
                   contactAge, localVars, inputVars, faultVars>>

-----------------------------------------------------------------------------
(* stateMachineTask *)

HardLimitSeen ==
    relaySafetyTripped \/ (circuitClosed /\ sinceClosedAt >= HardMax)

FaultyOperationalLimitSeen ==
    /\ circuitClosed
    /\ operationalLimitAtArm < HardMax
    /\ sinceClosedAt >= operationalLimitAtArm

OperationalLimitSeen ==
    \/ operationalLimitTripped
    \/ /\ circuitClosed
       /\ operationalLimitAtArm < HardMax
       /\ sinceClosedAt >= operationalLimitAtArm

\* The pass starts with the trips of its snapshot; without one the stopper
\* waits for a release, starts a cycle, turns it into a rinse or ends it for a
\* reason of the brew policy, or does nothing.
Policy ==
    /\ pc = "policy"
    /\ \/ HardLimitSeen /\ Goto("global") /\ UNCHANGED <<call, limit, stopperVars>>
       \/ /\ ~HardLimitSeen /\ OperationalLimitSeen
          /\ Goto("operational")
          /\ UNCHANGED <<call, limit, stopperVars>>
       \/ /\ ~HardLimitSeen /\ ~OperationalLimitSeen
          /\ \/ /\ stopperState = "REQUIRES_OFF"
                /\ stopperState' = IF held THEN "REQUIRES_OFF" ELSE "READY"
                /\ Goto("web")
                /\ UNCHANGED <<call, limit, sessionActive>>
             \/ /\ stopperState = "READY" /\ held
                /\ sessionActive' = TRUE
                /\ limit' \in Limits
                /\ call' = "physicalStart"
                /\ Goto("close")
                /\ UNCHANGED stopperState
             \/ /\ stopperState = "CYCLE" /\ sessionActive
                /\ Goto("rinse")
                /\ UNCHANGED <<call, limit, stopperVars>>
             \/ /\ stopperState = "CYCLE"
                /\ call' = "finalize"
                /\ Goto("open")
                /\ UNCHANGED <<limit, stopperVars>>
             \/ /\ stopperState # "REQUIRES_OFF"
                /\ Goto("web")
                /\ UNCHANGED <<call, limit, stopperVars>>
    /\ UNCHANGED <<driverVars, seenState, seenClosed, preserveTripFlags, armed,
                   inputVars, faultVars>>

\* enterRinse in a running cycle: machineBeginRinse closes a circuit that a
\* trip has opened since the pass took its snapshot.
BeginRinse ==
    /\ pc = "rinse"
    /\ IF circuitClosed
       THEN Goto("web") /\ UNCHANGED <<call, limit>>
       ELSE call' = "rinse" /\ limit' \in Limits /\ Goto("close")
    /\ UNCHANGED <<driverVars, seenState, seenClosed, preserveTripFlags, armed,
                   stopperVars, inputVars, faultVars>>

FaultyEndTripped ==
    /\ sessionActive' = FALSE
    /\ stopperState' = "REQUIRES_OFF"
    /\ Goto("web")
    /\ UNCHANGED call

\* The common end of the two trip handlers.
EndTripped ==
    IF sessionActive
    THEN call' = "finalizeTrip" /\ Goto("open") /\ UNCHANGED stopperVars
    ELSE /\ stopperState' = "REQUIRES_OFF"
         /\ Goto("web")
         /\ UNCHANGED <<call, sessionActive>>

\* handleGlobalLimitTrip: consumeRelaySafetyTrip ...
HandleGlobal ==
    /\ pc = "global"
    /\ relaySafetyTripped' = FALSE
    /\ IF relaySafetyTripped
       THEN EndTripped
       ELSE Goto("globalStop") /\ UNCHANGED <<call, stopperVars>>
    /\ UNCHANGED <<pinVars, circuitClosed, relaySafetyState,
                   operationalLimitTripped, operationalLimitAtArm,
                   armGenCurrent, sinceClosedAt, timerVars, contactAge,
                   localVars, inputVars, faultVars>>

\* ... and, when no timer had tripped, the stop of a circuit still closed.
HandleGlobalStop ==
    /\ pc = "globalStop"
    /\ IF circuitClosed
       THEN call' = "globalStop" /\ Goto("open") /\ UNCHANGED stopperVars
       ELSE EndTripped
    /\ UNCHANGED <<driverVars, localVars, inputVars, faultVars>>

\* handleOperationalLimitTrip
HandleOperational ==
    /\ pc = "operational"
    /\ operationalLimitTripped' = FALSE
    /\ EndTripped
    /\ UNCHANGED <<pinVars, circuitClosed, relaySafetyState,
                   relaySafetyTripped, operationalLimitAtArm, armGenCurrent,
                   sinceClosedAt, timerVars, contactAge, localVars, inputVars,
                   faultVars>>

-----------------------------------------------------------------------------
(* processWebCommands and the end of the loop *)

\* At most one command a pass: a stop of a running machine or of a cycle, or a
\* remote start where the configuration gate is open.
WebCommand ==
    /\ pc = "web"
    /\ \/ Goto("feed") /\ UNCHANGED <<call, limit, stopperVars, suppressed>>
       \/ /\ circuitClosed \/ sessionActive
          /\ call' = IF sessionActive THEN "webStop" ELSE "webOpen"
          /\ suppressed' = (suppressed \/ held)
          /\ Goto("open")
          /\ UNCHANGED <<limit, stopperVars>>
       \/ /\ stopperState = "READY" /\ ~sessionActive /\ ~circuitClosed /\ ~held
          /\ sessionActive' = TRUE
          /\ limit' \in Limits
          /\ call' = "webStart"
          /\ Goto("close")
          /\ UNCHANGED <<stopperState, suppressed>>
    /\ UNCHANGED <<driverVars, seenState, seenClosed, preserveTripFlags, armed,
                   held, faultVars>>

\* feedCurrentTaskWatchdog, which may fail.
Feed ==
    /\ pc = "feed"
    /\ \/ Goto("service") /\ UNCHANGED <<driverVars, call, faultVars>>
       \/ /\ watchdogFault' = TRUE
          /\ safeRestart' = TRUE
          /\ TripLocked(FALSE, FALSE, TRUE)
          /\ call' = "feed"
          /\ Goto("stopTimers")
          /\ UNCHANGED <<timerVars, restoreFailed>>
    /\ UNCHANGED <<localVars, stopperVars, inputVars>>

-----------------------------------------------------------------------------
(* Boot and reset *)

Init ==
    /\ InitDriver
    /\ pc = "boot" /\ call = "none"
    /\ limit = HardMax /\ seenState = "BOOT_SAFE" /\ seenClosed = FALSE
    /\ preserveTripFlags = FALSE /\ armed = FALSE
    /\ sessionActive = FALSE /\ stopperState = "REQUIRES_OFF"
    /\ held = FALSE /\ suppressed = FALSE
    /\ watchdogFault = FALSE /\ restoreFailed = FALSE /\ safeRestart = FALSE

\* setup(): the RTC record is rewritten OPEN; the supervisors that could be
\* started decide between OPEN and LOCKOUT.
Boot ==
    /\ pc = "boot"
    /\ pinClosed' = FALSE
    /\ relayMarker' = "OPEN"
    /\ \E supervisorsReady \in BOOLEAN :
          relaySafetyState' = IF supervisorsReady THEN "OPEN" ELSE "LOCKOUT"
    /\ held' \in PaddlePositions
    /\ suppressed' = FALSE
    /\ Goto("service")
    /\ UNCHANGED <<circuitClosed, latchVars, operationalLimitAtArm,
                   armGenCurrent, sinceClosedAt, timerVars, contactAge, call,
                   localVars, stopperVars, faultVars>>

ResetTo(marker) ==
    /\ ResetDriver(marker)
    /\ pc' = "boot" /\ call' = "none"
    /\ limit' = HardMax /\ seenState' = "BOOT_SAFE" /\ seenClosed' = FALSE
    /\ preserveTripFlags' = FALSE /\ armed' = FALSE
    /\ sessionActive' = FALSE /\ stopperState' = "REQUIRES_OFF"
    /\ held' = FALSE /\ suppressed' = FALSE
    /\ watchdogFault' = FALSE /\ restoreFailed' = FALSE /\ safeRestart' = FALSE

\* ESP.restart() at the end of a safe restart.
Reboot ==
    /\ pc = "openStop" /\ call = "restart"
    /\ ResetTo(relayMarker)

\* Panic, watchdog, brownout: anywhere, the commit section included, between
\* its RTC marker and its pin.  The stack overflow hook clears the marker.
Crash ==
    \/ ResetTo(relayMarker)
    \/ ResetTo("OPEN")
    \/ pc = "commit" /\ MayCommit /\ ResetTo("CLOSED")

-----------------------------------------------------------------------------
(* The other contexts *)

loopVars == <<pc, call, localVars, stopperVars, inputVars, faultVars>>

ISR == SafetyTimerISR /\ UNCHANGED loopVars

DueCallback == HardTimerCallback \/ OperationalTimerCallback

ServiceTimers ==
    (DueCallback \/ (Delayed /\ DelayedCallback)) /\ UNCHANGED loopVars

\* The prompt timers do not let a tick pass them by.
Tick ==
    /\ pc # "boot"
    /\ "isr" \in Prompt => gptimer # 0
    /\ "service" \in Prompt => hardTimer # 0 /\ operTimer # 0
    /\ Elapse
    /\ UNCHANGED loopVars

\* reportTaskWatchdogFault by another task, the failed restore of an OTA
\* window, a request for a safe restart.
OtherTasks ==
    /\ pc # "boot"
    /\ \/ watchdogFault' = TRUE /\ UNCHANGED <<restoreFailed, safeRestart>>
       \/ restoreFailed' = TRUE /\ UNCHANGED <<watchdogFault, safeRestart>>
       \/ safeRestart' = TRUE /\ UNCHANGED <<watchdogFault, restoreFailed>>
    /\ UNCHANGED <<driverVars, pc, call, localVars, stopperVars, inputVars>>

\* The GPIO latch of a closed contact loses its level.
GpioGlitch ==
    /\ circuitClosed /\ pinClosed
    /\ pinClosed' = FALSE
    /\ UNCHANGED <<relayMarker, circuitClosed, relaySafetyState, latchVars,
                   operationalLimitAtArm, armGenCurrent, sinceClosedAt,
                   timerVars, contactAge, loopVars>>

Control ==
    \/ Boot \/ Service \/ ReassertRead \/ ReassertWrite \/ ReassertCheck
    \/ Deadline \/ StopTimersAfterTrip \/ Restore \/ Restart \/ SampleInput
    \/ MirrorOff \/ MirrorOn \/ Close \/ CloseStopTimers \/ Publish \/ ArmIsr
    \/ ArmService \/ ArmFailed \/ Commit \/ Cancel \/ Open \/ OpenStopTimers
    \/ Policy \/ BeginRinse \/ HandleGlobal \/ HandleGlobalStop
    \/ HandleOperational \/ WebCommand \/ Feed \/ Reboot

Next ==
    \/ Control \/ ISR \/ ServiceTimers \/ Tick
    \/ OtherTasks \/ GpioGlitch \/ Crash

Spec == Init /\ [][Next]_vars

\* The scheduler runs the control task (a task watchdog reset, a Crash, ends
\* any other behaviour) and time passes; a prompt timer fires when due.
Fairness ==
    /\ WF_vars(Control)
    /\ WF_vars(Tick)
    /\ "isr" \in Prompt => WF_vars(ISR)
    /\ "service" \in Prompt => WF_vars(DueCallback /\ UNCHANGED loopVars)

FairSpec == Spec /\ Fairness

-----------------------------------------------------------------------------
(* Properties.  Those that begin with "Why" are the inductive invariants of
   the proofs. *)

LoopFlagsOK ==
    /\ seenClosed \in BOOLEAN /\ preserveTripFlags \in BOOLEAN
    /\ armed \in BOOLEAN
    /\ sessionActive \in BOOLEAN
    /\ held \in BOOLEAN /\ suppressed \in BOOLEAN
    /\ watchdogFault \in BOOLEAN /\ restoreFailed \in BOOLEAN
    /\ safeRestart \in BOOLEAN

LoopValuesOK ==
    /\ pc \in Steps
    /\ call \in Calls
    /\ limit \in Limits \cup {HardMax}
    /\ seenState \in States
    /\ stopperState \in {"REQUIRES_OFF", "READY", "CYCLE"}

TypeOK == DriverFlagsOK /\ DriverValuesOK /\ LoopFlagsOK /\ LoopValuesOK

\* A contact commanded closed opens within the limit it was armed with,
\* however long the control task is delayed (the deadline timers).
ContactWithinLimit == circuitClosed => contactAge <= operationalLimitAtArm

OpenSteps   == {"boot", "stopTimers", "closeStop", "publish", "armIsr",
                "armService", "armFailed", "commit", "cancel", "openStop"}
ArmingSteps == {"armIsr", "armService", "commit"}

\* The circuit is closed only in the published state CLOSED, and is open in
\* the steps that have opened it or are about to close it.
ClosedIsPublished ==
    /\ circuitClosed => relaySafetyState = "CLOSED"
    /\ pc \in OpenSteps => ~circuitClosed

\* Why ContactWithinLimit holds: from its arming on, the interrupt's alarm is
\* due within the limit, and nothing stops it while the circuit is closed.
AlarmCovers ==
    /\ pc \in ArmingSteps => operationalLimitAtArm = limit
    /\ pc = "commit" => armed
    /\ pc \in {"armService", "commit"} /\ armed /\ relaySafetyState = "ARMING"
         => gptimer \in 0 .. limit
    /\ circuitClosed
         => gptimer >= 0 /\ contactAge + gptimer <= operationalLimitAtArm

\* The circuit is never closed without an active cycle, whose end opens it: no
\* race of a trip, the mirror and a failed start leaves an orphan contact.
ClosedBelongsToCycle == circuitClosed => sessionActive

\* Why: no cycle ends between the request of a close and its commit.
CloseBelongsToCycle ==
    pc \in {"rinse", "close", "closeStop", "publish", "armIsr", "armService",
            "armFailed", "commit", "cancel"} => sessionActive

\* A lockout lasts until the next boot and keeps the circuit open: no later
\* trip, open request or close request lifts it.
LockoutLatched ==
    [][relaySafetyState = "LOCKOUT" /\ pc' # "boot"
         => relaySafetyState' = "LOCKOUT" /\ ~circuitClosed']_vars

\* Why: a lockout is set by the control task only, and stops it from entering
\* the steps that could leave it.
LockoutBarsClose ==
    /\ pc \in {"boot", "closeStop", "publish", "armIsr", "armService",
               "armFailed", "commit", "cancel", "reassertRead",
               "reassertWrite", "reassertCheck"}
         => relaySafetyState # "LOCKOUT"
    /\ pc = "deadline" /\ (seenState = "ARMING" \/ seenClosed)
         => relaySafetyState # "LOCKOUT"

\* A deadline that falls inside the close transaction cancels it: from
\* TRIPPED, the rest of that transaction does not energize K1.
CancelledCloseStaysOpen ==
    [][relaySafetyState = "TRIPPED" /\ pc \in ArmingSteps
         => ~pinClosed' /\ ~circuitClosed']_vars

\* Why: the trip that cancels a close has opened the pin.
CancelledIsOpen ==
    pc \in ArmingSteps /\ relaySafetyState = "TRIPPED" => ~pinClosed

\* The inductive invariant of the relay and the control loop, in named parts.
RelayInvariant ==
    /\ ClosedIsPublished
    /\ AlarmCovers
    /\ CloseBelongsToCycle
    /\ LockoutBarsClose
    /\ CancelledIsOpen

\* When the ON mirror closes a circuit, a trip is latched that ends the cycle
\* in the same pass: the mirror never restarts a healthy cycle's clock.
MirrorRecloseKeepsTrip ==
    [][~circuitClosed /\ circuitClosed' /\ call = "mirrorOn"
         => relaySafetyTripped' \/ operationalLimitTripped']_vars

\* Why: the mirror closes only a circuit that was closed when it looked, so a
\* trip came between, and the close preserves its latch.
MirrorSawATrip ==
    /\ call = "mirrorOn" /\ pc = "close"
         => circuitClosed \/ relaySafetyTripped \/ operationalLimitTripped
    /\ call = "mirrorOn" /\ pc \in {"closeStop", "publish"} => preserveTripFlags
    /\ call = "mirrorOn" /\ pc \in {"closeStop", "publish"} \cup ArmingSteps
         => relaySafetyTripped \/ operationalLimitTripped

\* The relay driver implements the lease.
Lease == INSTANCE CircuitLease
         WITH closed <- circuitClosed,
              left   <- IF circuitClosed
                        THEN operationalLimitAtArm - contactAge ELSE 0
LeaseSpec == Lease!Spec

ReassertSteps == {"reassertRead", "reassertWrite", "reassertCheck"}

\* serviceRelaySafety may rewrite the CLOSED level after a trip took it away;
\* its own deadline check, on the same snapshot, takes it away again.
StaleReassert ==
    call = "service" /\ pc \in {"reassertCheck", "deadline"}

\* K1 is energized only while the circuit is commanded closed.  It needs a
\* released paddle: see K1OpenOnceTripped.
EnergizedOnlyWhileCommanded == pinClosed => circuitClosed \/ StaleReassert

\* A reset that finds K1 energized finds the RTC marker CLOSED.
EnergizedIsMarked == pinClosed => relayMarker = "CLOSED" \/ StaleReassert

\* Why both hold with a released paddle, which the mirror does not follow: K1 is
\* energized without the command only by serviceRelaySafety, after a deadline ...
ReassertedByService ==
    /\ ~held /\ call \notin {"mirrorOn", "mirrorOff"}
    /\ pc \notin {"mirrorOn", "mirrorOff"}
    /\ pc = "close" => ~circuitClosed
    /\ pc \in ReassertSteps => call = "service"
    /\ pc \in ReassertSteps \/ (pc = "deadline" /\ pinClosed)
         => seenClosed /\ (circuitClosed \/ sinceClosedAt >= operationalLimitAtArm)

\* ... and no alarm comes before the deadline it was armed for.
NoAlarmIsEarly ==
    /\ pc \in {"publish", "armIsr"} => gptimer = Off
    /\ pc = "armIsr" => operationalLimitAtArm = limit
    /\ gptimer # Off => gptimer + sinceClosedAt >= operationalLimitAtArm

\* The inductive invariant of the relay under a released paddle.
ReleasedInvariant ==
    /\ EnergizedOnlyWhileCommanded
    /\ EnergizedIsMarked
    /\ circuitClosed => relayMarker = "CLOSED"
    /\ ReassertedByService
    /\ NoAlarmIsEarly

\* Every close ends, with the control loop as the only deadline: no timer is
\* assumed to fire.
ContactOpens == circuitClosed ~> ~circuitClosed

\* A trip ends the cycle it interrupts: the latch is neither lost nor
\* overwritten before stateMachineTask has seen it.
TripEndsCycle ==
    (relaySafetyTripped \/ operationalLimitTripped) /\ sessionActive
        ~> ~sessionActive

\* A watchdog fault of any task reboots the machine, even during a cycle.
FaultReboots == watchdogFault ~> pc = "boot"

-----------------------------------------------------------------------------
(* What the documentation says and the code does not do *)

\* docs/STATE_MACHINES.md: TRIPPED is "Opened by a limit or fault"; K1 is open
\* once the loop is back at its start.
K1OpenOnceTripped ==
    relaySafetyState = "TRIPPED" /\ pc = "service" => ~pinClosed

\* docs/STATE_MACHINES.md: "K1 must stay open; the ON-only mirror must not
\* re-close."
MirrorNeverRecloses ==
    [][~circuitClosed /\ circuitClosed' => call # "mirrorOn"]_vars

\* docs/STATE_MACHINES.md: RESET_DURING_CLOSE, "Reboot while RTC said
\* commanded-closed", is a lockout.
ResetDuringCloseLocksOut ==
    [][pc = "boot" /\ relayMarker = "CLOSED" /\ pc' # "boot"
         => relaySafetyState' = "LOCKOUT"]_vars
=============================================================================
