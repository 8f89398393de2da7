-------------------------------- MODULE Buzzer -------------------------------
(***************************************************************************)
(* The local buzzer (LocalBuzzer, ShotStopperBuzzer.h): one sound plays    *)
(* and one more may wait.  The control task asks for sounds and stops      *)
(* them; the phases of a sound are moved on by a timer's callback and by   *)
(* every pass of the control task.  A lock guards each operation, but the  *)
(* time that service() compares with the start of the phase is taken       *)
(* before the lock, so the phase may be younger than it.                   *)
(***************************************************************************)
EXTENDS Naturals

VARIABLES
    player,     \* [playing, queued, tone, over, armed]
    callers,    \* service(): what each caller knows of the phase
    control,    \* the control task between two operations
    tune        \* the notes of the melody: "unset" (bullseyeNoteCount 0), "set"

buzzerVars == <<player, callers, control, tune>>

None == "none"
\* One sound of each sort: a plain one, an alarm, the user's melody, the pulse of
\* an extended shot and the finite pulse train of a test
High == {"alarm", "melody"}         \* buzzerRequestIsHighPriority
Looping == {"pulse", "train"}       \* buzzerCueIsLooping, buzzerPatternIsPulseTrain
Sounds == {"beep"} \cup High \cup Looping
Callers == {"control", "timer"}

BuzzerInit ==
    /\ player = [playing |-> None, queued |-> None, tone |-> FALSE,
                 over |-> FALSE, armed |-> FALSE]
    /\ callers = [c \in Callers |-> "idle"]
    /\ control = "free" /\ tune \in {"set", "unset"}

busy == player.playing # None \/ player.queued # None

-----------------------------------------------------------------------------
(* What is done under the lock *)

\* startRtttl, startPattern: a melody without notes does not start.
Starts(sound) == sound = "melody" => tune = "set"
Started(p, sound) ==
    [p EXCEPT !.playing = sound, !.tone = TRUE, !.over = FALSE, !.armed = TRUE]

clearPlayback(p) ==
    [p EXCEPT !.playing = None, !.tone = FALSE, !.over = FALSE, !.armed = FALSE]

\* What waits begins, or is lost if it cannot.
finish(p) ==
    LET rest == [clearPlayback(p) EXCEPT !.queued = None] IN
    IF p.queued # None /\ Starts(p.queued) THEN Started(rest, p.queued) ELSE rest

WithoutQueued(p, dropped) == [p EXCEPT !.queued = IF @ \in dropped THEN None ELSE @]

\* A caller whose time was taken before a phase began is behind it.
Apply(p, begins, self) ==
    /\ player' = p
    /\ callers' = [c \in Callers |->
          CASE c = self -> "idle"
            [] c # self /\ begins /\ callers[c] # "idle" -> "behind"
            [] OTHER -> callers[c]]

Begins(p) == p.playing # None /\ p.playing # player.playing

\* acceptLocked: a looping sound gives way to any other, a finite one to none.
FaultyOutranks(sound) == sound \in High

Outranks(sound) == sound \in High /\ player.queued \notin High

acceptLocked(sound) ==
    CASE player.playing = sound /\ sound \in Looping -> player
      [] player.playing \in Looping \cup {None} /\ player.playing # sound ->
            IF Starts(sound) THEN Started([player EXCEPT !.queued = None], sound)
            ELSE [player EXCEPT !.queued = None, !.tone = FALSE]
      [] player.playing \notin Looping \cup {None}
            /\ (player.queued = None \/ Outranks(sound)) -> [player EXCEPT !.queued = sound]
      [] OTHER -> player

-----------------------------------------------------------------------------
(* The operations of the control task *)

Accept(sound) == LET p == acceptLocked(sound) IN Apply(p, Begins(p), "none")

\* emitAlert, and the patterns of a test
Request(sound) ==
    /\ control = "free"
    /\ Accept(sound)
    /\ UNCHANGED <<control, tune>>

\* emitCircuitCycleAlert: the edge of the circuit is not stuck behind a sound.
StopAll ==
    /\ control = "free"
    /\ control' \in {"preempt", "free"}
    /\ Apply([clearPlayback(player) EXCEPT !.queued = None], FALSE, "none")
    /\ UNCHANGED tune

Preempt ==
    /\ control = "preempt"
    /\ control' = "free"
    /\ Accept("beep")
    /\ UNCHANGED tune

\* The alarm has no cause any more (stopIfCue).
StopCue ==
    LET p == WithoutQueued(player, {"alarm"})
        q == IF p.playing = "alarm" THEN finish(p) ELSE p
    IN  /\ control = "free"
        /\ Apply(q, q.playing # None /\ p.playing = "alarm", "none")
        /\ UNCHANGED <<control, tune>>

\* The end of a cycle
stopPulseTrains ==
    LET p == WithoutQueued(player, Looping)
        q == IF p.playing \in Looping THEN finish(p) ELSE p
    IN  /\ control = "free"
        /\ Apply(q, Begins(q), "none")
        /\ UNCHANGED <<control, tune>>

\* A test's train has a deadline and plays on.
stopExtendedPulse ==
    LET p == WithoutQueued(player, Looping)
        q == IF p.playing = "pulse" THEN finish(p) ELSE p
    IN  Apply(q, Begins(q), "none")

\* serviceExtendedPulseAlert; whether the shot is extended is a choice.
ServicePulse(want) ==
    /\ control = "free"
    /\ want => ~("pulse" \in {player.playing, player.queued})
    /\ IF want /\ ~busy
       THEN Accept("pulse") /\ UNCHANGED control
       ELSE stopExtendedPulse /\ control' = IF want THEN "pulse" ELSE "free"
    /\ UNCHANGED tune

PulseAfterStop ==
    /\ control = "pulse"
    /\ control' = "free"
    /\ IF busy THEN UNCHANGED <<player, callers>> ELSE Accept("pulse")
    /\ UNCHANGED tune

\* configureBullseyeRtttl: the notes are unset while they are parsed.
Configure ==
    /\ control \in {"free", "tested"}
    /\ control' = IF control = "free" THEN "parse" ELSE "restore"
    /\ tune' = "unset"
    /\ UNCHANGED <<player, callers>>

Parsed ==
    /\ control \in {"parse", "restore"}
    /\ control' \in IF control = "parse" THEN {"free", "test"} ELSE {"free"}
    /\ tune' \in {"set", "unset"}
    /\ UNCHANGED <<player, callers>>

\* The test of a melody plays at once or not at all.
TestMelody ==
    /\ control = "test"
    /\ control' = "tested"
    /\ IF player.playing \in Looping \cup {None} THEN Accept("melody")
       ELSE UNCHANGED <<player, callers>>
    /\ UNCHANGED tune

-----------------------------------------------------------------------------
(* service(): the time is taken, then the lock *)

PhaseOver ==
    /\ player.playing # None /\ ~player.over
    /\ player' = [player EXCEPT !.over = TRUE]
    /\ UNCHANGED <<callers, control, tune>>

TakeTime(c) ==
    /\ callers[c] = "idle"
    /\ IF c = "timer" THEN player.armed /\ player.over ELSE control = "free"
    /\ callers' = [callers EXCEPT ![c] = IF player.over THEN "over" ELSE "early"]
    /\ player' = [player EXCEPT !.armed = @ /\ c # "timer"]
    /\ control' = IF c = "control" THEN "service" ELSE control
    /\ UNCHANGED tune

\* A phase that is over, or seems to be as its start is later than the time, is
\* followed by another one, of sound or silence, or ends the sound.
Service(c) ==
    /\ callers[c] # "idle"
    /\ control' = IF c = "control" THEN "free" ELSE control
    /\ \/ /\ player.playing # None /\ callers[c] \in {"over", "behind"}
          /\ \/ /\ player.playing # "pulse"
                /\ LET p == finish(player) IN Apply(p, p.playing # None, c)
             \/ \E tone \in BOOLEAN :
                   Apply([Started(player, player.playing) EXCEPT !.tone = tone], TRUE, c)
       \/ /\ player.playing = None \/ callers[c] \in {"early", "behind"}
          /\ Apply(player, FALSE, c)
    /\ UNCHANGED tune

BuzzerNext ==
    \/ \E sound \in Sounds \ {"pulse"} : Request(sound)
    \/ StopAll \/ Preempt \/ StopCue \/ stopPulseTrains
    \/ \E want \in BOOLEAN : ServicePulse(want)
    \/ PulseAfterStop \/ Configure \/ Parsed \/ TestMelody
    \/ PhaseOver \/ \E c \in Callers : TakeTime(c) \/ Service(c)

BuzzerSpec == BuzzerInit /\ [][BuzzerNext]_buzzerVars

-----------------------------------------------------------------------------
(* Properties *)

\* A sound that waits has one to wait for: otherwise the buzzer would be busy for
\* ever, and a recovery that waits for it would never restart.
WaitsForSound == player.queued # None => player.playing # None

\* A finite sound that was accepted is heard, unless all is silenced, a sound
\* that matters more takes its place, its cause has gone, or its notes are being
\* replaced.
AcceptedStep ==
    player.queued \in Sounds \ Looping /\ player'.queued # player.queued =>
        \/ player'.playing = player.queued
        \/ player.queued \notin High /\ player'.queued \in High
        \/ StopAll \/ StopCue
        \/ player.queued = "melody" /\ tune = "unset"

QueuedIsHeard == []WaitsForSound /\ [][AcceptedStep]_buzzerVars
=============================================================================
