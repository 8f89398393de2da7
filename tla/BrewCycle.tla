------------------------------ MODULE BrewCycle ------------------------------
(***************************************************************************)
(* A brew cycle as the control task runs it: what a weight sample does to  *)
(* the session, when the weight may stop the shot, what happens when the   *)
(* scale goes away and comes back, which commands the scale is sent, and   *)
(* what is recorded of a shot that has ended.                              *)
(*                                                                         *)
(* Time is a number of ticks of MAX_AUTOMATION_WEIGHT_AGE_MS; the loop     *)
(* runs the state machine in each of them.  A weight is a step: 0 is an    *)
(* empty cup, Weak the recovery minimum, Target the goal less the learned  *)
(* offset, Strong the recovery maximum, Solid a mass no brew has (a cup),  *)
(* Overload more than the automation range.  The trend's prediction and    *)
(* the accidental-touch classifier are choices: what the model fixes is    *)
(* what the code does with their results.  So are the machine's intentions *)
(* and the cup detector's events.                                          *)
(*                                                                         *)
(* A cycle's settings are fixed for a behaviour: "config" is one of        *)
(* Configs, a record that also bounds the connections and cycles of the      *)
(* behaviour.                                                              *)
(*                                                                         *)
(* Definitions named Faulty... are wrong on purpose: each replaces the     *)
(* definition after it to show that a property can fail.                   *)
(***************************************************************************)
EXTENDS ScaleLink, SequencesExt

CONSTANTS
    Configs,
    RetareWindow, Protection, Grace, \* retareWindowMs, bbwProtectionMs, ...
    MinBrew, MaxBrew,       \* minBbwBrewTimeMs, maxBbwBrewTimeMs
    GuardLimit,             \* the auto-to-manual guard's limit
    Drip, CatchUp, RetryWindow, \* dripDelayMs and the timer stop's windows
    MaxAttempts             \* SCALE_STOP_MAX_ATTEMPTS

ASSUME WindowsAssumption ==
    /\ {Protection, Grace} \subseteq Nat
    /\ {MaxAttempts, RetryWindow} \subseteq Nat \ {0}

\* There are names for the cycles of a behaviour.
ASSUME ConfigsAssumption ==
    /\ CycleIds \subseteq Nat
    /\ \A c \in Configs : c.cycles \in Nat /\ 1 .. c.cycles \subseteq CycleIds

VARIABLES
    config,
    state,        \* stopperState
    session,      \* CycleSession and the shot's trajectory
    timerStop,    \* pendingScaleTimerStop
    drip,         \* pendingFinalize
    observed,     \* the last sample seen: its age and connection
    current,      \* the last sample kept: its age and connection
    due,          \* the state machine has not run in this tick
    recorded      \* for each cycle, how often its shot was recorded

brewVars == <<config, state, session, timerStop, drip, observed, current,
              due, recorded>>
vars == <<linkVars, brewVars>>

Weak == 1
Target == 2
Strong == 3
Solid == 5
Overload == 9

Uses(feature) == feature \in config.features

\* operationalWallMs and HARD_MAX_CIRCUIT_CLOSED_MS
Wall == config.wall
HardMax == config.wall + 1

Controls == {"INACTIVE", "ACTIVE", "VALIDATING", "SUSPENDED", "FAULT_STOPPED"}
States == {"READY", "REQUIRES_OFF", "BREW", "MANUAL_NO_SCALE", "RINSE"}

NoRun == [n |-> 0, age |-> 0, next |-> FALSE, w |-> 0, gen |-> 0]

NoSession ==
    [id |-> 0, active |-> FALSE, web |-> FALSE, withScale |-> FALSE,
     control |-> "INACTIVE", automatic |-> FALSE, calibration |-> FALSE,
     owned |-> 0, disconnects |-> 0, limit |-> HardMax, elapsed |-> 0,
     anchored |-> FALSE, anchor |-> 0, anchorAge |-> 0, awaiting |-> -1,
     recovery |-> NoRun, direct |-> NoRun, pending |-> "NONE",
     points |-> 0, expected |-> Wall, holding |-> FALSE,
     protected |-> FALSE, protectionEnded |-> TRUE, retareEnded |-> TRUE,
     retared |-> FALSE, dropped |-> FALSE, cupRemoved |-> FALSE,
     armed |-> FALSE, enforced |-> FALSE, extended |-> FALSE, slow |-> FALSE, lost |-> FALSE,
     automaticBrew |-> FALSE, startQueued |-> FALSE, settled |-> FALSE,
     started |-> FALSE, stopRequested |-> FALSE, stopQueued |-> FALSE,
     stopResult |-> "NOT_ATTEMPTED", attempts |-> 0, retryLeft |-> 0,
     end |-> "NONE"]

NoDrip == [cycle |-> 0, left |-> 0, logged |-> FALSE, learns |-> FALSE]
NoTimerStop == [phase |-> "NONE", left |-> 0]
Unseen == [seen |-> FALSE, age |-> Stale, gen |-> 0]

-----------------------------------------------------------------------------
(* Freshness and the guards of the session *)

\* currentWeightIsFresh, observedWeightIsFresh
IsFresh(s) == s.seen /\ s.gen = generation /\ Fresh(s.age)

\* scaleAutomationUnavailableForSession
Unavailable(s) ==
    ~Available \/ ~IsFresh(observed) \/ Disconnects # s.disconnects

\* shouldTrackWeight
Tracks(s) ==
    /\ s.active /\ ~Uses("timerOnly")
    /\ s.control \notin {"INACTIVE", "FAULT_STOPPED"}
    /\ state = "BREW"

FastGuard(s) == s.active /\ Uses("fast") /\ ~Uses("timerOnly") /\ s.withScale
SlowGuard(s) == s.active /\ Uses("slow") /\ ~Uses("timerOnly") /\ s.withScale

FaultyInhibited(s) == FALSE
Inhibited(s) == s.active /\ s.protected /\ ~s.protectionEnded

RetareOpen(s) ==
    /\ s.active /\ s.protected /\ Uses("autoRetare")
    /\ ~s.retareEnded /\ ~s.retared
    /\ s.elapsed < RetareWindow

\* The slew a sample may show after dt ticks, in steps.
Slew(dt) == 1 + 2 * dt

-----------------------------------------------------------------------------
(* Weight control *)

SetControl(s, c) ==
    [s EXCEPT
       !.control = c,
       !.automatic = (c = "ACTIVE"),
       !.lost = @ \/ (c = "SUSPENDED"),
       !.enforced = IF c = s.control THEN @
                    ELSE CASE c = "SUSPENDED" -> @ \/ s.armed
                           [] /\ c = "ACTIVE"
                              /\ s.control \in {"SUSPENDED", "VALIDATING"}
                                -> FALSE
                           [] OTHER -> @]

ResetTrend(s) ==
    [s EXCEPT !.expected = Wall, !.points = 0, !.holding = FALSE]

FaultySuspend(s) ==
    IF s.control \in {"ACTIVE", "VALIDATING"}
    THEN ResetTrend(SetControl(s, "SUSPENDED"))
    ELSE s

Suspend(s) ==
    IF s.control \in {"ACTIVE", "VALIDATING"}
    THEN ResetTrend([SetControl(s, "SUSPENDED")
                       EXCEPT !.recovery = NoRun, !.calibration = FALSE])
    ELSE s

ResetDirectStop(s) == [s EXCEPT !.direct = NoRun, !.pending = "NONE"]

\* armPostTareBaselineWindow
ArmBaseline(s) ==
    LET t == ResetTrend([s EXCEPT !.awaiting = Grace, !.anchored = FALSE,
                                  !.recovery = NoRun])
    IN  IF s.control = "VALIDATING" THEN SetControl(t, "ACTIVE") ELSE t

\* acceptWeightIntoTrajectory; the trend predicts nothing before two points.
Accept(s, w, expected) ==
    [s EXCEPT !.anchored = TRUE, !.anchor = w, !.anchorAge = 0,
              !.points = IF @ < 2 /\ Uses("trend") THEN @ + 1 ELSE @,
              !.expected = IF s.points >= 1 THEN expected ELSE Wall]

EnterFast(s, expected) ==
    IF s.extended THEN s
    ELSE [s EXCEPT !.extended = TRUE,
                   !.expected = IF s.points >= 2 THEN expected ELSE Wall]

EnterSlow(s, expected) ==
    IF s.slow \/ s.extended THEN s
    ELSE [s EXCEPT !.slow = TRUE,
                   !.expected = IF s.points >= 2 THEN expected ELSE Wall]

\* considerDirectStopSample: two samples in a row over a limit stop the shot,
\* or, before the minimum time of a guarded shot, extend it.
Consider(s, w, inRow, expected) ==
    LET overload == w = Overload
        overMax  == FastGuard(s) /\ s.extended /\ w >= Strong
        overMin  == SlowGuard(s) /\ s.slow /\ w >= Weak
        over     == w >= Target
        t        == [s EXCEPT !.direct = [n |-> IF inRow THEN 2 ELSE 1, age |-> 0, next |-> TRUE,
                                          w |-> 0, gen |-> generation]]
        fault    == SetControl([t EXCEPT !.pending = "WEIGHT_ANOMALY",
                                         !.calibration = FALSE],
                               "FAULT_STOPPED")
    IN  IF ~Tracks(s) \/ Inhibited(s) THEN s
        ELSE IF ~(s.control = "ACTIVE" \/ (overload /\ s.control = "VALIDATING"))
        THEN s
        ELSE IF ~overload /\ ~overMax /\ ~overMin /\ ~over
        THEN ResetDirectStop(s)
        ELSE IF ~inRow THEN t
        ELSE IF overload THEN fault
        ELSE IF overMax THEN [t EXCEPT !.pending = "FAST_EXTRACTION_MAX_WEIGHT"]
        ELSE IF overMin THEN [t EXCEPT !.pending = "SLOW_EXTRACTION_MIN_WEIGHT"]
        ELSE IF FastGuard(s) /\ (s.elapsed < MinBrew \/ s.extended)
        THEN ResetDirectStop(EnterFast(t, expected))
        ELSE [t EXCEPT !.pending = "SCALE_THRESHOLD"]

\* What is left of a sample once the session tracks weight and owns its
\* connection.  A result's "kept" says that it becomes the current weight.
OutOfRange(s, w, inRow, expected) ==
    LET t == [Consider(s, w, inRow, expected) EXCEPT !.calibration = FALSE]
        u == IF t.control = "ACTIVE" THEN SetControl(t, "VALIDATING") ELSE t
    IN  [s |-> [u EXCEPT !.recovery = NoRun], kept |-> FALSE]

Baseline(s, w, expected) ==
    IF w < Solid
    THEN [s |-> Accept([s EXCEPT !.awaiting = -1], w, expected), kept |-> TRUE]
    ELSE [s |-> s, kept |-> FALSE]

Plausible(s, w) ==
    s.anchored => w - s.anchor \in -Slew(s.anchorAge) .. Slew(s.anchorAge)

RecoveryPlausible(s, w, run, inRow) ==
    IF run.n > 0
    THEN inRow /\ w - run.w \in 0 .. Slew(run.age)
    ELSE Plausible(s, w) /\ (s.anchored => w >= s.anchor)

\* The third sample of a recovery takes over the connection it came from.
Recover(s, w) ==
    SetControl([ResetTrend(s) EXCEPT
                  !.owned = generation, !.disconnects = Disconnects,
                  !.recovery = NoRun,
                  !.anchored = TRUE, !.anchor = w, !.anchorAge = 0],
               "ACTIVE")

Judge(s, w, directInRow, touch, expected) ==
    LET touchable == Uses("touch") /\ s.withScale /\ s.control = "ACTIVE"
        t == IF touchable THEN [s EXCEPT !.holding = touch] ELSE s
    IN  IF touchable /\ touch
        THEN [s |-> ResetDirectStop(t), kept |-> TRUE]
        ELSE [s |-> Accept(Consider(t, w, directInRow, expected), w, expected),
              kept |-> TRUE]

\* recordWeightSampleWithProvenance, from the first check of the weight path.
Weigh(before, w, lost, touch, expected) ==
    LET inRow(run)  == run.n > 0 /\ run.next /\ ~lost /\ Fresh(run.age)
        directInRow == inRow(before.direct) /\ before.direct.gen = generation
        seen == [before EXCEPT !.direct.next = FALSE, !.recovery.next = FALSE]
        s    == IF seen.owned \notin {0, generation} THEN Suspend(seen)
                ELSE seen
        recovers == RecoveryPlausible(s, w, s.recovery, inRow(before.recovery))
        run == [n |-> s.recovery.n + 1, age |-> 0, next |-> TRUE,
                w |-> w, gen |-> 0]
    IN  IF ~Tracks(seen) THEN [s |-> seen, kept |-> w # Overload]
        ELSE IF w = Overload THEN OutOfRange(s, w, directInRow, expected)
        ELSE IF s.awaiting >= 0 THEN Baseline(s, w, expected)
        ELSE IF s.control = "ACTIVE"
        THEN IF Plausible(s, w) THEN Judge(s, w, directInRow, touch, expected)
             ELSE [s |-> [SetControl(s, "VALIDATING") EXCEPT
                            !.recovery = NoRun, !.calibration = FALSE],
                   kept |-> FALSE]
        ELSE IF ~recovers
        THEN [s |-> [s EXCEPT !.recovery = NoRun], kept |-> FALSE]
        ELSE IF run.n < 3
        THEN [s |-> [s EXCEPT !.recovery = run], kept |-> FALSE]
        ELSE Judge(Recover(s, w), w, directInRow, touch, expected)

-----------------------------------------------------------------------------
(* When the weight stops the shot: automaticScaleStopDue *)

\* A confirmed direct stop, unless a touch holds it or control was lost.
Honored(s) ==
    /\ s.pending # "NONE" /\ s.direct.n >= 2 /\ Fresh(s.direct.age)
    /\ s.pending = "WEIGHT_ANOMALY" \/ s.control = "ACTIVE"
    /\ ~s.holding

\* The guards' own limits of time, which the last accepted weight decides.
FastMinTime(s) ==
    s.extended /\ FastGuard(s) /\ s.elapsed >= MinBrew /\ s.anchor >= Target

SlowMaxTime(s) ==
    /\ SlowGuard(s) /\ ~s.extended /\ ~s.slow
    /\ s.elapsed >= MaxBrew /\ s.anchor < Target

\* The trend says that the target is reached by now.  (It has a prediction
\* before the wall only of weights received in this cycle.)
Predicted(s) ==
    /\ ~s.holding /\ s.control = "ACTIVE"
    /\ ~Unavailable(s)
    /\ s.elapsed >= s.expected

TooEarly(s) == FastGuard(s) /\ s.elapsed < MinBrew /\ ~s.extended

\* The reason the weight gives for stopping, or none.
StopReason(s) ==
    IF Uses("timerOnly") \/ Inhibited(s) THEN "NONE"
    ELSE IF Honored(s) THEN s.pending
    ELSE IF FastMinTime(s) THEN "FAST_EXTRACTION_MIN_TIME"
    ELSE IF SlowMaxTime(s)
    THEN IF s.anchor >= Weak THEN "SLOW_EXTRACTION_MAX_TIME" ELSE "NONE"
    ELSE IF ~Predicted(s) \/ TooEarly(s) THEN "NONE"
    ELSE IF s.extended /\ FastGuard(s) THEN "FAST_EXTRACTION_MAX_WEIGHT"
    ELSE IF s.slow /\ SlowGuard(s) THEN "SLOW_EXTRACTION_MIN_WEIGHT"
    ELSE "SCALE_THRESHOLD"

\* The session after the same check, when it does not stop the shot: a guard
\* may have extended it.
AfterCheck(s, expected) ==
    IF Uses("timerOnly") \/ Inhibited(s) THEN s
    ELSE IF SlowMaxTime(s) THEN EnterSlow(s, expected)
    ELSE IF Predicted(s) /\ TooEarly(s) THEN EnterFast(s, expected)
    ELSE s

-----------------------------------------------------------------------------
(* The scale's timer.  Each operator takes the session s, the deferred stop *)
(* t and the command queue q, and returns the three.                        *)

Timer(s, t, q) == [s |-> s, t |-> t, q |-> q]

FaultyToFront(s) == TRUE
ToFront(s) == s.settled

MayTryStop(s) ==
    /\ s.stopRequested /\ ~s.stopQueued /\ s.stopResult # "WRITE_SUCCEEDED"
    /\ s.attempts < MaxAttempts /\ s.retryLeft > 0
    /\ Available

TryStop(s, t, q) ==
    IF ~MayTryStop(s) THEN Timer(s, t, q)
    ELSE IF ~HasRoom(q)
    THEN Timer([s EXCEPT !.attempts = @ + 1, !.stopResult = "NOT_ATTEMPTED"],
               t, q)
    ELSE Timer([s EXCEPT !.attempts = @ + 1, !.stopResult = "PENDING",
                         !.stopQueued = TRUE],
               t, Queued(q, [type |-> "STOP", cycle |-> s.id], ToFront(s)))

\* requestRemoteTimerStop: once for a session that queued a start.
RequestStop(s, t, q) ==
    IF ~s.startQueued \/ s.stopRequested THEN Timer(s, t, q)
    ELSE TryStop([s EXCEPT !.stopRequested = TRUE, !.retryLeft = RetryWindow],
                 t, q)

FaultyFlushStop(s, t, q) == Timer(s, NoTimerStop, q)

FlushStop(s, t, q) ==
    IF t.phase = "NONE" THEN Timer(s, t, q)
    ELSE RequestStop(s, NoTimerStop, q)

\* servicePendingScaleTimerStop: the stop waits until the scale's display has
\* caught up with the shot ("shown"), or for long enough, and then a little.
ServiceStop(s, t, q, shown) ==
    LET extra == IF config.extra = 0 THEN RequestStop(s, NoTimerStop, q)
                 ELSE Timer(s, [phase |-> "EXTRA", left |-> config.extra], q)
    IN  CASE t.phase = "NONE" -> Timer(s, t, q)
          [] t.phase # "NONE" /\ (~Available \/ (t.phase = "EXTRA" /\ t.left = 0))
               -> RequestStop(s, NoTimerStop, q)
          [] t.phase = "CATCHUP" /\ Available /\ ~s.settled /\ t.left > 0
               -> Timer(s, t, q)
          [] /\ t.phase = "CATCHUP" /\ Available
             /\ t.left = 0 \/ (s.settled /\ (~s.started \/ shown))
               -> extra
          [] OTHER -> Timer(s, t, q)

\* scheduleScaleTimerStopAfterCycle
ScheduleStop(s, t, q, shown) ==
    IF ~s.startQueued \/ s.stopRequested THEN Timer(s, t, q)
    ELSE ServiceStop(s, [phase |-> "CATCHUP", left |-> CatchUp], q, shown)

-----------------------------------------------------------------------------
(* The end of a cycle and the beginning of the next *)

Passed == due' = FALSE

Eligible(s) == s.withScale /\ ~Uses("timerOnly") /\ s.automaticBrew

\* schedulePendingShotFinalize
ScheduledDrip(s, reason) ==
    LET logged == Eligible(s) /\ s.elapsed >= config.minShot
        learns == /\ s.automaticBrew /\ ~Uses("timerOnly")
                  /\ s.calibration /\ ~s.extended /\ ~s.slow
    IN  IF \/ reason \in {"UNCONFIRMED_START", "RINSE_COMPLETE"}
           \/ state = "RINSE"
           \/ ~(logged \/ learns \/ Uses("webhook"))
        THEN drip
        ELSE [cycle |-> s.id, left |-> Drip, logged |-> logged,
              learns |-> learns]

\* finalizeCycle, of the session s and the command queue q.
Finalize(s, q, reason, next) ==
    /\ \E shown \in BOOLEAN :
          LET r == ScheduleStop(s, timerStop, q, shown)
          IN  /\ session' = [r.s EXCEPT !.active = FALSE, !.awaiting = -1,
                                        !.end = reason]
              /\ timerStop' = r.t
              /\ requests' = r.q
    /\ drip' = ScheduledDrip(s, reason)
    /\ state' = next

\* cancelPendingFinalize: the shot is recorded with its last known weight.
FaultyCancelDrip == drip' = NoDrip /\ UNCHANGED recorded

CancelDrip ==
    /\ drip' = NoDrip
    /\ recorded' = IF drip = NoDrip THEN recorded
                   ELSE [recorded EXCEPT ![drip.cycle] = @ + 1]

\* The beginning of beginCycle, for the cycle that comes next; "weight" is
\* the current weight.
NewSession(web, withScale, weight) ==
    LET weighs   == withScale /\ ~Uses("timerOnly")
        anchored == withScale /\ ~Uses("autoTare")
    IN  [NoSession EXCEPT
           !.id = session.id + 1, !.active = TRUE, !.web = web,
           !.withScale = withScale,
           !.control = IF weighs THEN "ACTIVE" ELSE "INACTIVE",
           !.automatic = weighs, !.calibration = weighs,
           !.owned = generation, !.disconnects = Disconnects,
           !.anchored = anchored,
           !.anchor = IF anchored THEN weight ELSE 0,
           !.anchorAge = IF anchored THEN current.age ELSE 0,
           !.awaiting = IF withScale /\ Uses("autoTare") THEN Grace ELSE -1,
           !.protected = weighs, !.protectionEnded = ~weighs,
           !.retareEnded = ~(weighs /\ Uses("autoRetare")),
           !.limit = IF weighs THEN Wall ELSE HardMax]

\* requestRemoteTimerStart and enterBrewOrManualFromStart.
Started(s, q) ==
    LET queued == s.withScale /\ HasRoom(q)
        automatic == s.automatic /\ queued
    IN  [s EXCEPT !.startQueued = queued,
                  !.automatic = automatic,
                  !.lost = s.withScale /\ ~queued,
                  !.automaticBrew = automatic,
                  !.armed = automatic /\ Uses("guard"),
                  !.retareEnded = @ \/ ~automatic,
                  !.protectionEnded = @ \/ ~automatic]

AfterStart(s) ==
    IF s.automatic \/ (Uses("timerOnly") /\ s.withScale) THEN "BREW"
    ELSE "MANUAL_NO_SCALE"

StartRequest(s) ==
    IF s.startQueued THEN <<[type |-> "START", cycle |-> s.id]>> ELSE <<>>

\* What beginCycle and beginRinseCycle do to the cycle before: its deferred
\* timer stop is asked for, its shot recorded.
CloseLast == FlushStop(session, timerStop, requests)

\* beginCycle, after the start guards.  The relay driver may refuse.
BeginCycle(web) ==
    /\ session.id < config.cycles
    /\ CancelDrip
    /\ \E weight \in (config.weights \cup {0}) \ {Overload} :
       LET flushed   == CloseLast
           withScale == Available /\ IsFresh(current)
           fresh     == NewSession(web, withScale, weight)
           s         == Started(fresh, flushed.q)
       IN  /\ timerStop' = flushed.t
           /\ \/ /\ session' = s
                 /\ requests' = flushed.q \o StartRequest(s)
                 /\ state' = AfterStart(s)
              \/ /\ session' = [fresh EXCEPT !.active = FALSE,
                                             !.end = "RELAY_SAFETY_FAILURE"]
                 /\ requests' = flushed.q
                 /\ state' = "REQUIRES_OFF"
    /\ UNCHANGED <<config, observed, current>>

\* beginRinseCycle and enterRinse, from a machine that does not brew.
BeginRinse(web) ==
    /\ session.id < config.cycles
    /\ CancelDrip
    /\ LET flushed == CloseLast
           queued  == Available /\ HasRoom(flushed.q)
           s == [NoSession EXCEPT !.id = session.id + 1, !.active = TRUE,
                                  !.web = web, !.withScale = queued,
                                  !.startQueued = queued, !.limit = Wall,
                                  !.lost = Available /\ ~queued]
       IN  /\ timerStop' = flushed.t
           /\ \/ /\ session' = s
                 /\ requests' = flushed.q \o StartRequest(s)
                 /\ state' = "RINSE"
              \/ /\ session' = [s EXCEPT !.active = FALSE,
                                         !.startQueued = FALSE,
                                         !.end = "RELAY_SAFETY_FAILURE"]
                 /\ requests' = flushed.q
                 /\ state' = "REQUIRES_OFF"
    /\ UNCHANGED <<config, observed, current>>

-----------------------------------------------------------------------------
(* stateMachineTask: one action for each way through it.  "next" is where  *)
(* the user's hold on the activator leads after the end of a cycle.        *)

Running == session.active /\ session.elapsed < session.limit
AfterHold == IF Uses("hold") THEN {"READY", "REQUIRES_OFF"} ELSE {"READY"}
Unmoved == <<config, observed, current, recorded>>
LinkKept == <<connected, generation, stalled, answers>>

LimitTrip ==
    /\ session.active /\ session.elapsed >= session.limit
    /\ Passed
    /\ Finalize(session, requests,
                IF session.limit < HardMax THEN "CONFIGURED_WALL_LIMIT"
                ELSE "GLOBAL_LIMIT",
                "REQUIRES_OFF")
    /\ UNCHANGED <<Unmoved, LinkKept>>

\* Nothing to do: an idle machine, a rinse or a manual shot that goes on.
Idle ==
    /\ Passed
    /\ state' \in IF state = "REQUIRES_OFF" THEN {"REQUIRES_OFF", "READY"}
                  ELSE {state}
    /\ session.active => Running
    /\ state # "BREW"
    /\ UNCHANGED <<session, timerStop, drip, Unmoved, linkVars>>

PhysicalOverride ==
    /\ Running /\ session.web
    /\ Passed
    /\ \E next \in AfterHold :
          Finalize(session, requests, "PHYSICAL_OVERRIDE", next)
    /\ UNCHANGED <<Unmoved, LinkKept>>

PhysicalStart ==
    /\ state = "READY" /\ ~session.active
    /\ Passed
    /\ BeginCycle(FALSE)
    /\ UNCHANGED LinkKept

PhysicalRinse ==
    /\ state = "READY" /\ ~session.active
    /\ Uses("rinse")
    /\ Passed
    /\ BeginRinse(FALSE)
    /\ UNCHANGED LinkKept

RinseComplete ==
    /\ state = "RINSE" /\ Running
    /\ Passed
    /\ \E next \in AfterHold :
          Finalize(session, requests, "RINSE_COMPLETE", next)
    /\ UNCHANGED <<Unmoved, LinkKept>>

\* enterRinse out of a brew.
BrewToRinse ==
    /\ state \in {"BREW", "MANUAL_NO_SCALE"} /\ Running
    /\ Uses("rinse")
    /\ Passed
    /\ \/ /\ session' = [session EXCEPT
                           !.automatic = FALSE, !.automaticBrew = FALSE,
                           !.calibration = FALSE, !.armed = FALSE,
                           !.enforced = FALSE, !.awaiting = -1]
          /\ state' = "RINSE"
          /\ UNCHANGED <<requests, timerStop, drip>>
       \/ Finalize(session, requests, "RELAY_SAFETY_FAILURE", "REQUIRES_OFF")
    /\ UNCHANGED <<Unmoved, LinkKept>>

PhysicalStop ==
    /\ state \in {"BREW", "MANUAL_NO_SCALE"} /\ Running
    /\ Passed
    /\ Finalize([session EXCEPT !.automaticBrew = @ \/ session.automatic],
                requests, "ACTIVATOR", "READY")
    /\ UNCHANGED <<Unmoved, LinkKept>>

\* The momentary machine saw no flow after its start pulse.
NoFlow ==
    /\ state \in {"BREW", "MANUAL_NO_SCALE"} /\ Running
    /\ Uses("momentary")
    /\ Passed
    /\ \E next \in AfterHold :
          Finalize(session, requests, "UNCONFIRMED_START", next)
    /\ UNCHANGED <<Unmoved, LinkKept>>

\* expirePostTareBaselineIfNeeded and serviceBbwProtectionPhases.
Phases(s) ==
    LET ends == s.protected /\ ~s.protectionEnded /\ s.elapsed >= Protection
        t == [s EXCEPT
                !.awaiting = IF @ = 0 THEN -1 ELSE @,
                !.retareEnded = @ \/ (/\ s.protected /\ ~s.retared
                                      /\ s.elapsed >= RetareWindow)]
    IN  IF ends THEN ResetDirectStop([t EXCEPT !.protectionEnded = TRUE])
        ELSE t

\* A scale that is gone or silent suspends weight control.
FaultySuspendIfGone(s) == s

SuspendIfGone(s) ==
    IF s.control \in {"ACTIVE", "VALIDATING"} /\ Unavailable(s)
    THEN Suspend(s) ELSE s

\* machineAllowsAutomationStop: a momentary machine that is not known to run
\* is not pressed again.
BrewPass ==
    /\ state = "BREW" /\ Running
    /\ Passed
    /\ \E next \in AfterHold, allowed \in BOOLEAN,
          expected \in {session.elapsed + 1, Wall} :
          LET phased == Phases(session)
              s == SuspendIfGone(phased)
          IN  /\ allowed \/ Uses("momentary")
              /\ IF phased.cupRemoved
                 THEN Finalize(phased, requests, "CUP_REMOVED", next)
                 ELSE IF allowed /\ s.enforced /\ s.elapsed >= GuardLimit
                 THEN Finalize(s, requests, "AUTO_TO_MANUAL_GUARD", next)
                 ELSE IF allowed /\ StopReason(s) # "NONE"
                 THEN Finalize(s, requests, StopReason(s), next)
                 ELSE /\ session' = IF allowed THEN AfterCheck(s, expected)
                                    ELSE s
                      /\ UNCHANGED <<state, requests, timerStop, drip>>
    /\ UNCHANGED <<Unmoved, LinkKept>>

-----------------------------------------------------------------------------
(* The other steps of the control task *)

\* processWebCommand: STOP, REMOTE_OFF and the override to off.
WebStop ==
    /\ session.active /\ Uses("web")
    /\ \E next \in AfterHold : Finalize(session, requests, "WEB_STOP", next)
    /\ UNCHANGED <<due, Unmoved, LinkKept>>

\* REMOTE_ON: a start that asks for a ready machine, unless the command
\* overrides that.
RemoteOn ==
    /\ Uses("web")
    /\ (state = "READY" /\ ~session.active) \/ Uses("override")
    /\ BeginCycle(TRUE)
    /\ UNCHANGED <<due, LinkKept>>

\* RINSE: beginWebRinse, under the same conditions.
WebRinse ==
    /\ Uses("web") /\ Uses("rinse")
    /\ (state = "READY" /\ ~session.active) \/ Uses("override")
    /\ BeginRinse(TRUE)
    /\ UNCHANGED <<due, LinkKept>>

\* The cup detector's event for a sample, once tares let it have one.
CupEvents ==
    IF Uses("cup") /\ session.awaiting < 0
    THEN {"NONE", "PLACED", "REMOVED"} ELSE {"NONE"}

\* performAutomaticRetare, for a cup placed in the retare window.
Retares(s, w, event) ==
    /\ event = "PLACED" /\ s.active /\ s.withScale /\ RetareOpen(s)
    /\ s.awaiting < 0 /\ ~s.dropped /\ w # Overload
    /\ Uses("autoTare") /\ HasRoom(requests)

\* The latest sample, as processScaleWorkerEvents passes it on: it asks for a
\* sample of the last connection, which may have ended, or its worker stalled,
\* since the sample was posted.  "lost": packets since the last one were
\* overwritten, or were rejected as those of another connection or from before
\* the cycle.
TakeWeight ==
    /\ generation > 0
    /\ \E w \in config.weights, event \in CupEvents,
          lost, touch, drop \in BOOLEAN,
          expected \in {session.elapsed, session.elapsed + 1, Wall} :
          LET retares == Retares(session, w, event)
              removed == /\ event = "REMOVED" /\ session.active
                         /\ state = "BREW" /\ ~Uses("timerOnly")
                         /\ session.withScale
              s == [session EXCEPT !.cupRemoved = @ \/ removed,
                                   !.retared = @ \/ retares,
                                   !.retareEnded = @ \/ retares,
                                   !.dropped = @ \/ drop]
              r == Weigh(s, w, lost, touch, expected)
              seen == [seen |-> TRUE, age |-> 0, gen |-> generation]
          IN  /\ touch => Uses("touch")
              /\ lost => Uses("loss")
              /\ drop => Uses("drops") /\ session.withScale
              /\ expected # Wall => Uses("trend")
              /\ session' = r.s
              /\ observed' = seen
              /\ current' = IF r.kept THEN seen ELSE current
              /\ requests' = IF retares
                             THEN Append(requests, [type |-> "TARE",
                                                    cycle |-> s.id])
                             ELSE requests
    /\ UNCHANGED <<config, state, timerStop, drip, due, recorded,
                   connected, generation, stalled, answers>>

\* The answer to a start: a combined tare opens the baseline window again.
StartSettled(s, answer) ==
    LET t == [s EXCEPT !.started = answer.ok, !.settled = TRUE]
        arms == /\ answer.ok /\ Uses("autoTare") /\ s.withScale
                /\ s.active /\ state = "BREW"
                /\ s.awaiting >= 0
                /\ answer.combined => ~s.retared
    IN  IF arms THEN [ArmBaseline(t) EXCEPT !.awaiting = Grace] ELSE t

\* The answer to a tare: the weights before it say nothing of those after.
FaultyTared(s, answer) == IF answer.ok THEN ArmBaseline(s) ELSE s

Tared(s, answer) ==
    IF answer.ok /\ s.withScale /\ s.active /\ state = "BREW"
    THEN ResetDirectStop(ArmBaseline(s)) ELSE s

StopAnswered(s, answer) ==
    [s EXCEPT !.stopQueued = FALSE,
              !.stopResult = IF answer.ok THEN "WRITE_SUCCEEDED"
                             ELSE "WRITE_FAILED"]

\* Only an answer for the session's own cycle counts.
Own(answer) == answer.cycle = session.id

TakeAnswer ==
    /\ \E answer \in answers :
          /\ ReadAnswer(answer)
          /\ session' =
                CASE ~Own(answer) -> session
                  [] Own(answer) /\ answer.type = "START"
                       -> StartSettled(session, answer)
                  [] Own(answer) /\ answer.type = "TARE"
                       -> Tared(session, answer)
                  [] Own(answer) /\ answer.type = "STOP"
                       -> StopAnswered(session, answer)
    /\ UNCHANGED <<config, state, timerStop, drip, observed, current,
                   due, recorded,
                   connected, generation, stalled, requests>>

\* servicePendingScaleTimerStop and serviceRemoteTimerStopRetry.
TimerService ==
    /\ \/ /\ timerStop # NoTimerStop
          /\ \E shown \in BOOLEAN :
                LET r == ServiceStop(session, timerStop, requests, shown)
                IN  session' = r.s /\ timerStop' = r.t /\ requests' = r.q
       \/ /\ MayTryStop(session)
          /\ LET r == TryStop(session, timerStop, requests)
             IN  session' = r.s /\ timerStop' = r.t /\ requests' = r.q
    /\ UNCHANGED <<state, drip, due, Unmoved, LinkKept>>

\* pendingShotFinalizeTask, once the drip delay is over.
FinalizeShot ==
    /\ drip # NoDrip /\ drip.left = 0
    /\ CancelDrip
    /\ UNCHANGED <<config, state, session, timerStop, observed, current,
                   due, linkVars>>

-----------------------------------------------------------------------------
(* The scale and the clock *)

\* Bound: nothing is done to an idle machine, and no time passes, but at boot
\* and between cycles.
Live ==
    \/ session.active \/ drip # NoDrip \/ timerStop # NoTimerStop
    \/ session.id = 0 /\ Uses("boot")
    \/ session.id \in 1 .. config.cycles - 1

LinkStep ==
    /\ Live
    /\ \/ Connect /\ generation < config.connections
       \/ Disconnect /\ ~Uses("steady")
       \/ Stall /\ Uses("stalls")
       \/ Execute /\ Uses("commands")
    /\ UNCHANGED brewVars

Down(n) == IF n > 0 THEN n - 1 ELSE n
Aged(run) == IF run.n = 0 THEN run ELSE [run EXCEPT !.age = Older(@)]

Tick ==
    /\ ~due /\ Live
    /\ due' = TRUE
    /\ session' =
          [session EXCEPT
             !.elapsed = IF session.active THEN @ + 1 ELSE @,
             !.anchorAge = IF session.anchored THEN Older(@) ELSE @,
             !.awaiting = Down(@),
             !.recovery = Aged(@), !.direct = Aged(@),
             !.retryLeft = Down(@)]
    /\ timerStop' = [timerStop EXCEPT !.left = Down(@)]
    /\ drip' = [drip EXCEPT !.left = Down(@)]
    /\ observed' = [observed EXCEPT !.age = Older(@)]
    /\ current' = [current EXCEPT !.age = Older(@)]
    /\ UNCHANGED <<config, state, recorded, connected,
                   generation, stalled, requests, answers>>

\* A behaviour begins at boot, or with a scale that has been weighing.
Init ==
    /\ config \in Configs
    /\ IF Uses("boot")
       THEN InitLink /\ observed = Unseen /\ current = Unseen
       ELSE /\ connected = TRUE /\ generation = 1 /\ stalled = FALSE
            /\ requests = <<>> /\ answers = {}
            /\ observed = [seen |-> TRUE, age |-> 0, gen |-> 1]
            /\ current = observed
    /\ state = "READY"
    /\ session = NoSession
    /\ timerStop = NoTimerStop /\ drip = NoDrip
    /\ due = FALSE
    /\ recorded = [c \in CycleIds |-> 0]

MachineStep ==
    \/ LimitTrip \/ Idle \/ PhysicalOverride \/ PhysicalStart \/ PhysicalRinse
    \/ RinseComplete \/ BrewToRinse \/ PhysicalStop \/ NoFlow \/ BrewPass

Next ==
    \/ MachineStep
    \/ WebStop \/ RemoteOn \/ WebRinse \/ TakeWeight \/ TakeAnswer
    \/ TimerService \/ FinalizeShot
    \/ LinkStep \/ Tick

Spec == Init /\ [][Next]_vars

-----------------------------------------------------------------------------
(* Properties *)

\* What the weight, or its trend, can end a shot for
Reasons ==
    {"SCALE_THRESHOLD", "WEIGHT_ANOMALY", "FAST_EXTRACTION_MAX_WEIGHT",
     "FAST_EXTRACTION_MIN_TIME", "SLOW_EXTRACTION_MAX_TIME",
     "SLOW_EXTRACTION_MIN_WEIGHT"}

EndsBy(reasons) ==
    /\ session.active /\ ~session'.active /\ session'.id = session.id
    /\ session'.end \in reasons

\* A shot that the current weight or its trend ends is weighed by a scale
\* that is connected, whose worker is alive, whose last sample is fresh, and
\* which has been on the connection the session owns ever since the session
\* took it over (automaticScaleStopDue, scaleAutomationUnavailableForSession).
WeightStopIsCurrent ==
    [][EndsBy({"SCALE_THRESHOLD", "FAST_EXTRACTION_MAX_WEIGHT",
               "SLOW_EXTRACTION_MIN_WEIGHT"})
         => /\ Available /\ IsFresh(observed)
            /\ session.owned = generation
            /\ session.disconnects = Disconnects
            /\ session.control = "ACTIVE"]_vars

\* Two samples that will stop the shot came from the connection the session
\* owns, and neither was taken while a tare's baseline is awaited: a weight
\* from before a tare or from another connection stops nothing
\* (resetDirectStopConfirmation, lastThresholdConnectionGeneration).
DirectStopIsOwn ==
    session.active /\ state = "BREW" /\ Honored(session)
    /\ session.pending # "WEIGHT_ANOMALY"
        => session.direct.gen = session.owned /\ session.awaiting < 0

\* No weight ends a shot while the brew-by-weight protection lasts, nor do
\* samples taken during it (serviceBbwProtectionPhases).
NoStopUnderProtection ==
    [][EndsBy(Reasons) => session.elapsed >= Protection]_vars

\* The offset is learned from a shot only if weight control was never
\* suspended in it, however often it recovered (calibrationEligible).
LearnsFromWholeShots ==
    drip.learns => drip.cycle = session.id /\ ~session.lost

\* An ended shot that owes a record gets it, and gets it once: when the next
\* cycle begins at the latest, also when that is a rinse or a web start
\* (cancelPendingFinalize, pendingShotFinalizeTask).
RecordedOnce ==
    /\ [][drip # NoDrip /\ drip' # drip /\ drip'.cycle # drip.cycle
             => recorded'[drip.cycle] = 1]_vars
    /\ [][\A c \in CycleIds : recorded'[c] <= 1]_vars
    /\ [][session'.id # session.id => drip' = NoDrip]_vars

StopsInOrder(q) ==
    \A i, j \in DOMAIN q :
        q[i].type = "STOP" /\ q[j].type = "START"
          => IF q[j].cycle <= q[i].cycle THEN j < i ELSE i < j

\* The scale is sent the stop of a cycle after its start and before the start
\* of a later one, although a stop may jump the queue; and a start counts as
\* settled only once it has left the queue.
TimerCommandsInOrder ==
    /\ StopsInOrder(requests)
    /\ session.settled
          => \A i \in DOMAIN requests :
                requests[i] # [type |-> "START", cycle |-> session.id]

\* A session that ended with its scale timer started is never replaced before
\* the scale was asked to stop the timer: a deferred stop is sent at once when
\* the next cycle begins (flushPendingScaleTimerStopNow).
TimerStopRequested ==
    [][session'.id # session.id /\ session.startQueued
         /\ session.end # "NONE" /\ ~session.stopRequested
         /\ Available /\ HasRoom(requests)
         => [type |-> "STOP", cycle |-> session.id] \in Range(requests')]_vars
-----------------------------------------------------------------------------
(* Why the properties hold: the parts of the inductive invariant of the proofs, *)
(* of the session s, the deferred stop t and the command queue q              *)

Commands == [type : {"START", "TARE", "STOP"}, cycle : Nat]

\* What the proofs need of the types.
BrewShape ==
    /\ config \in Configs
    /\ generation \in Nat /\ (connected => generation > 0)
    /\ DOMAIN observed = DOMAIN Unseen /\ observed.gen \in 0 .. generation
    /\ \A a \in answers : a.type \in {"START", "TARE", "STOP"}
    /\ DOMAIN timerStop = DOMAIN NoTimerStop /\ DOMAIN drip = DOMAIN NoDrip
    /\ session.id \in 0 .. config.cycles
    /\ session.active => session.id > 0
    /\ recorded \in [CycleIds -> Nat]

SessionShape(s) ==
    /\ DOMAIN s = DOMAIN NoSession
    /\ s.elapsed \in Nat /\ s.awaiting \in Int
    /\ DOMAIN s.direct = DOMAIN NoRun /\ s.direct.n \in Nat

\* Weight control acts on what the scale shows.
Listens(s) == Tracks(s) /\ s.control \in {"ACTIVE", "VALIDATING"}

\* A session that weighs owns one connection, and knows the losses before it,
\* or its own when it took the connection over from a last sample; once a
\* sample of a new connection has come it listens on that one or not at all.
ConnectionOwned(s) ==
    /\ s.control # "INACTIVE"
         => s.owned \in Nat \ {0} /\ s.disconnects \in {s.owned - 1, s.owned}
    /\ Listens(s) /\ observed.gen = generation => s.owned = generation

\* The protection of a brew by weight ends with its time, and until then no
\* weight is held against the shot.
ProtectionKept(s) ==
    /\ s.active /\ state = "BREW" /\ ~Uses("timerOnly")
         => /\ s.protected
            /\ s.protectionEnded => s.elapsed >= Protection
    /\ Inhibited(s) => s.pending = "NONE"

\* Two samples that agree on a stop are of the owned connection, and no tare
\* is settling.
ConfirmedIsOwn(s) ==
    s.direct.n >= 2 /\ s.pending \notin {"NONE", "WEIGHT_ANOMALY"}
        => /\ s.awaiting < 0
           /\ s.control = "ACTIVE" => s.direct.gen = s.owned

\* A shot that lost its weight control is not calibrated by, or never was one
\* by weight.
LostIsNotLearned(s) ==
    s.active /\ s.lost /\ s.calibration
        => state # "BREW" /\ ~s.automatic /\ ~s.automaticBrew

WeightKept(s) ==
    /\ SessionShape(s) /\ ConnectionOwned(s) /\ ProtectionKept(s)
    /\ ConfirmedIsOwn(s) /\ LostIsNotLearned(s)

\* A record is owed by the last session only, which has ended, and has not
\* been made.
OwedByLast ==
    /\ drip # NoDrip
         => ~session.active /\ drip.cycle = session.id /\ session.id > 0
    /\ drip.learns => ~session.lost
    /\ \A c \in CycleIds :
          /\ recorded[c] <= 1
          /\ c > session.id => recorded[c] = 0
          /\ c = session.id /\ (session.active \/ drip # NoDrip)
               => recorded[c] = 0

\* A session that has ended with its timer running has a stop deferred, until
\* the stop is asked for; and nobody else asks for it.
StopIsDeferred(s, t, q) ==
    /\ s.active => s.end = "NONE"
    /\ s.startQueued /\ s.end # "NONE" /\ ~s.stopRequested
         => t.phase # "NONE"
    /\ ~s.stopRequested
         => /\ ~s.stopQueued /\ s.stopResult = "NOT_ATTEMPTED"
            /\ s.attempts = 0
            /\ \A a \in answers : ~(a.type = "STOP" /\ a.cycle = s.id)
            /\ \A i \in DOMAIN q :
                  ~(q[i].type = "STOP" /\ q[i].cycle = s.id)

\* Commands and answers are of no later session, starts are queued and answered in the
\* order of their sessions, and none is left once the last is settled.
StartsInOrder(s, q) ==
    /\ \A i \in DOMAIN q : q[i].cycle <= s.id
    /\ \A a \in answers : a.cycle \in Nat /\ a.cycle <= s.id
    /\ \A i, j \in DOMAIN q :
          q[i].type = "START" /\ q[j].type = "START" /\ i < j
             => q[i].cycle < q[j].cycle
    /\ \A a \in answers, i \in DOMAIN q :
          a.type = "START" /\ q[i].type = "START" => a.cycle < q[i].cycle
    /\ s.settled => \A i \in DOMAIN q : q[i].type # "START"

TimerKept(s, t, q) ==
    /\ q \in Seq(Commands)
    /\ StopIsDeferred(s, t, q) /\ StartsInOrder(s, q) /\ StopsInOrder(q)

BrewInvariant ==
    /\ BrewShape /\ WeightKept(session) /\ OwedByLast
    /\ TimerKept(session, timerStop, requests)
=============================================================================
