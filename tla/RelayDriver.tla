----------------------------- MODULE RelayDriver -----------------------------
(***************************************************************************)
(* The K1 relay driver of ShotStopperMachineRelay.h: the commanded state   *)
(* of the brew contact, the trip latches, the GPIO level, the RTC marker   *)
(* and the three deadline timers.                                          *)
(*                                                                         *)
(* Every operator below is one piece of code that runs without             *)
(* interruption by another writer of these variables: the body of one      *)
(* relayMux critical section, one GPIO access or one timer call.  Who runs *)
(* them, and in which order, is said in ControlLoop.                       *)
(*                                                                         *)
(* Time is counted in ticks.  Left out: the optional external hardware     *)
(* (feedback echo, heartbeat), which the default build compiles out, and   *)
(* relaySafetyFault, a diagnostic that no decision reads.                  *)
(*                                                                         *)
(* Definitions named Faulty... or Late... are wrong on purpose: each       *)
(* replaces the definition after it to show that a property can fail.      *)
(***************************************************************************)
EXTENDS Integers

CONSTANTS
    HardMax,    \* HARD_MAX_CIRCUIT_CLOSED_MS, in ticks
    Limits      \* the operational limits a cycle may ask for

ASSUME HardMaxAssumption == HardMax \in Nat \ {0}
ASSUME LimitsAssumption  == Limits \subseteq 1 .. HardMax

VARIABLES
    pinClosed,                \* the RELAY_GPIO output level is CLOSED
    relayMarker,              \* relayMarker of the RTC no-init record
    circuitClosed,
    relaySafetyState,
    relaySafetyTripped,       \* latch: opened by the hard limit
    operationalLimitTripped,  \* latch: opened by the operational limit
    operationalLimitAtArm,    \* operationalLimitAtArmMs
    armGenCurrent,            \* relaySafetyGeneration is still the one that
                              \* the last close transaction published
    sinceClosedAt,            \* millis() - circuitClosedAtMs, up to HardMax
    gptimer,                  \* ticks to the ISR alarm, or Off
    hardTimer,                \* ticks to the esp_timer hard limit, or Off
    operTimer,                \* ticks to the esp_timer wall, or Off
    contactAge                \* history: ticks since the last CLOSE commit

pinVars   == <<pinClosed, relayMarker>>
latchVars == <<relaySafetyTripped, operationalLimitTripped>>
timerVars == <<gptimer, hardTimer, operTimer>>
driverVars == <<pinClosed, relayMarker, circuitClosed, relaySafetyState,
                relaySafetyTripped, operationalLimitTripped,
                operationalLimitAtArm, armGenCurrent, sinceClosedAt,
                gptimer, hardTimer, operTimer, contactAge>>

Off    == -1
Timer  == {Off} \cup 0 .. HardMax
States == {"BOOT_SAFE", "OPEN", "ARMING", "CLOSED", "TRIPPED", "LOCKOUT"}

FaultyCommandedClosed == relaySafetyState = "ARMING"

\* commandedClosed: a close is requested or done, so that a deadline counts.
CommandedClosed == relaySafetyState \in {"ARMING", "CLOSED"}

AtMost(n, bound) == IF n < bound THEN n ELSE bound

-----------------------------------------------------------------------------
(* Deadline timers *)

\* stopRelayDeadlineTimers
StopTimers ==
    /\ gptimer' = Off
    /\ hardTimer' = Off
    /\ operTimer' = Off

FaultyArmIndependentTimer(limit) ==
    /\ gptimer' = HardMax
    /\ UNCHANGED <<hardTimer, operTimer>>

\* independentSafetyTimer.arm: the ISR alarm covers the operational limit.
ArmIndependentTimer(limit) ==
    /\ gptimer' = limit
    /\ UNCHANGED <<hardTimer, operTimer>>

FaultyArmServiceTimers(limit) ==
    /\ hardTimer' = HardMax
    /\ operTimer' = IF limit = HardMax THEN limit ELSE Off
    /\ UNCHANGED gptimer

\* The two esp_timer_start_once calls: always the hard limit, and the
\* operational one only when it is the shorter.
ArmServiceTimers(limit) ==
    /\ hardTimer' = HardMax
    /\ operTimer' = IF limit < HardMax THEN limit ELSE Off
    /\ UNCHANGED gptimer

CountDown(timer) == IF timer > 0 THEN timer - 1 ELSE timer

\* One tick of the clock that millis() and the timers share.
Elapse ==
    /\ sinceClosedAt' = AtMost(sinceClosedAt + 1, HardMax)
    /\ contactAge' = IF circuitClosed
                     THEN AtMost(contactAge + 1, HardMax + 1)
                     ELSE contactAge
    /\ gptimer' = CountDown(gptimer)
    /\ hardTimer' = CountDown(hardTimer)
    /\ operTimer' = CountDown(operTimer)
    /\ UNCHANGED <<pinVars, circuitClosed, relaySafetyState, latchVars,
                   operationalLimitAtArm, armGenCurrent>>

-----------------------------------------------------------------------------
(* Trips *)

\* tripRelaySafetyLocked
TripLocked(hardLimit, operationalLimit, lockout) ==
    /\ pinClosed' = FALSE
    /\ relayMarker' = "OPEN"
    /\ circuitClosed' = FALSE
    /\ armGenCurrent' = FALSE
    /\ relaySafetyState' = IF lockout THEN "LOCKOUT" ELSE "TRIPPED"
    /\ relaySafetyTripped' = (relaySafetyTripped \/ hardLimit)
    /\ operationalLimitTripped' = (operationalLimitTripped \/ operationalLimit)
    /\ UNCHANGED <<operationalLimitAtArm, sinceClosedAt, contactAge>>

\* relaySafetyTimerCallback: an alarm that no longer concerns the present
\* close is recognised by its elapsed time.
HardTimerCallback ==
    /\ hardTimer = 0
    /\ hardTimer' = Off
    /\ IF CommandedClosed /\ sinceClosedAt >= HardMax
       THEN TripLocked(TRUE, FALSE, FALSE)
       ELSE UNCHANGED <<pinVars, circuitClosed, relaySafetyState, latchVars,
                        operationalLimitAtArm, armGenCurrent, sinceClosedAt,
                        contactAge>>
    /\ UNCHANGED <<gptimer, operTimer>>

OperationalDeadline ==
    operationalLimitAtArm < HardMax /\ sinceClosedAt >= operationalLimitAtArm

\* operationalLimitTimerCallback
OperationalTimerCallback ==
    /\ operTimer = 0
    /\ operTimer' = Off
    /\ IF CommandedClosed /\ OperationalDeadline
       THEN TripLocked(FALSE, TRUE, FALSE)
       ELSE UNCHANGED <<pinVars, circuitClosed, relaySafetyState, latchVars,
                        operationalLimitAtArm, armGenCurrent, sinceClosedAt,
                        contactAge>>
    /\ UNCHANGED <<gptimer, hardTimer>>

\* The code samples the time of both before it takes relayMux, and a stop of
\* the timer does not withdraw a callback under way: one that sampled before
\* the present close was published finds an elapsed time that wraps past every
\* limit.
DelayedCallback ==
    /\ CommandedClosed
    /\ \/ TripLocked(TRUE, FALSE, FALSE)
       \/ operationalLimitAtArm < HardMax /\ TripLocked(FALSE, TRUE, FALSE)
    /\ UNCHANGED timerVars

\* independentSafetyTimerCallback: opens the pin, leaves the RTC marker to the
\* control task, and assigns both latches instead of accumulating them.
SafetyTimerISR ==
    /\ gptimer = 0
    /\ gptimer' = Off
    /\ IF CommandedClosed
       THEN /\ pinClosed' = FALSE
            /\ circuitClosed' = FALSE
            /\ armGenCurrent' = FALSE
            /\ relaySafetyState' = "TRIPPED"
            /\ relaySafetyTripped' = (operationalLimitAtArm >= HardMax)
            /\ operationalLimitTripped' = (operationalLimitAtArm < HardMax)
       ELSE UNCHANGED <<pinClosed, circuitClosed, armGenCurrent,
                        relaySafetyState, latchVars>>
    /\ UNCHANGED <<relayMarker, operationalLimitAtArm, sinceClosedAt,
                   contactAge, hardTimer, operTimer>>

-----------------------------------------------------------------------------
(* Closing and opening: the critical sections of setMachineCircuitClosed *)

FaultyPublishArming(limit, preserveTripFlags) ==
    /\ armGenCurrent' = TRUE
    /\ sinceClosedAt' = 0
    /\ operationalLimitAtArm' = limit
    /\ relaySafetyTripped' = FALSE
    /\ operationalLimitTripped' = FALSE
    /\ relaySafetyState' = "ARMING"
    /\ circuitClosed' = FALSE
    /\ UNCHANGED <<pinVars, timerVars, contactAge>>

\* The close transaction publishes ARMING with a generation of its own.
PublishArming(limit, preserveTripFlags) ==
    /\ armGenCurrent' = TRUE
    /\ sinceClosedAt' = 0
    /\ operationalLimitAtArm' = limit
    /\ relaySafetyTripped' = (preserveTripFlags /\ relaySafetyTripped)
    /\ operationalLimitTripped' = (preserveTripFlags /\ operationalLimitTripped)
    /\ relaySafetyState' = "ARMING"
    /\ circuitClosed' = FALSE
    /\ UNCHANGED <<pinVars, timerVars, contactAge>>

FaultyMayCommit == relaySafetyState # "LOCKOUT"

\* What the commit section requires before it energizes K1.
MayCommit ==
    /\ armGenCurrent
    /\ relaySafetyState = "ARMING"
    /\ sinceClosedAt < operationalLimitAtArm

FaultyCommitClose ==
    /\ pinClosed' = TRUE
    /\ circuitClosed' = TRUE
    /\ relaySafetyState' = "CLOSED"
    /\ contactAge' = 0
    /\ UNCHANGED <<relayMarker, latchVars, operationalLimitAtArm,
                   armGenCurrent, sinceClosedAt, timerVars>>

\* The commit: the RTC marker first, then the pin, then the published state.
CommitClose ==
    /\ relayMarker' = "CLOSED"
    /\ pinClosed' = TRUE
    /\ circuitClosed' = TRUE
    /\ relaySafetyState' = "CLOSED"
    /\ contactAge' = 0
    /\ UNCHANGED <<latchVars, operationalLimitAtArm, armGenCurrent,
                   sinceClosedAt, timerVars>>

\* The open request leaves the pin alone when a trip has opened it already.
AlreadyOpenedBySafety ==
    ~circuitClosed /\ relaySafetyState \in {"TRIPPED", "LOCKOUT"}

FaultyOpenCircuit ==
    /\ pinClosed' = FALSE
    /\ relayMarker' = "OPEN"
    /\ circuitClosed' = FALSE
    /\ armGenCurrent' = FALSE
    /\ relaySafetyState' = "OPEN"
    /\ UNCHANGED <<latchVars, operationalLimitAtArm, sinceClosedAt,
                   timerVars, contactAge>>

OpenCircuit ==
    /\ pinClosed' = (AlreadyOpenedBySafety /\ pinClosed)
    /\ relayMarker' = "OPEN"
    /\ circuitClosed' = FALSE
    /\ armGenCurrent' = FALSE
    /\ relaySafetyState' = IF relaySafetyState \in {"TRIPPED", "LOCKOUT"}
                           THEN relaySafetyState ELSE "OPEN"
    /\ UNCHANGED <<latchVars, operationalLimitAtArm, sinceClosedAt,
                   timerVars, contactAge>>

-----------------------------------------------------------------------------
(* Power-on and reset *)

InitDriver ==
    /\ pinClosed = FALSE
    /\ relayMarker = "OPEN"
    /\ circuitClosed = FALSE
    /\ relaySafetyState = "BOOT_SAFE"
    /\ relaySafetyTripped = FALSE
    /\ operationalLimitTripped = FALSE
    /\ operationalLimitAtArm = HardMax
    /\ armGenCurrent = FALSE
    /\ sinceClosedAt = 0
    /\ gptimer = Off
    /\ hardTimer = Off
    /\ operTimer = Off
    /\ contactAge = 0

\* A reset releases the pad, clears everything but the RTC no-init record
\* and stops the timers.
ResetDriver(marker) ==
    /\ pinClosed' = FALSE
    /\ relayMarker' = marker
    /\ circuitClosed' = FALSE
    /\ relaySafetyState' = "BOOT_SAFE"
    /\ relaySafetyTripped' = FALSE
    /\ operationalLimitTripped' = FALSE
    /\ operationalLimitAtArm' = HardMax
    /\ armGenCurrent' = FALSE
    /\ sinceClosedAt' = 0
    /\ contactAge' = 0
    /\ StopTimers

DriverFlagsOK ==
    /\ pinClosed \in BOOLEAN
    /\ circuitClosed \in BOOLEAN
    /\ relaySafetyTripped \in BOOLEAN
    /\ operationalLimitTripped \in BOOLEAN
    /\ armGenCurrent \in BOOLEAN

DriverValuesOK ==
    /\ relayMarker \in {"OPEN", "CLOSED"}
    /\ relaySafetyState \in States
    /\ operationalLimitAtArm \in Limits \cup {HardMax}
    /\ sinceClosedAt \in 0 .. HardMax
    /\ gptimer \in Timer
    /\ hardTimer \in Timer
    /\ operTimer \in Timer
    /\ contactAge \in 0 .. HardMax + 1
=============================================================================
