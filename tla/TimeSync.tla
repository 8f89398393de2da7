------------------------------- MODULE TimeSync ------------------------------
(***************************************************************************)
(* The wall clock and its NTP client (ShotStopperNetwork.cpp, WallClock in *)
(* ShotStopperTime.h).  Only the network task starts and stops SNTP, which *)
(* must be silent while a cycle is under way or the scale is connecting.   *)
(* The control loop and the scale worker close that gate without waiting:  *)
(* they publish four atomics one after another, and the pass of the        *)
(* network task that is under way finds out.  The answer of the server     *)
(* arrives on a third task, and the next pass applies it.                  *)
(***************************************************************************)
EXTENDS Naturals

CONSTANT MaxToggles     \* bound on the changes of the gate

VARIABLES
    clock,      \* WallClock: [state, anchored, pending]
    ntp,        \* [started, accepting, abort, rearm, asked]
    gate,       \* the sources that keep the gate closed
    generation, \* rfGateGeneration_
    setter,     \* each source's call: [at, changed]
    pass,       \* the network task: [at, generation]
    answer,     \* an answer that has passed the check of the callback
    station     \* "down", "settling" (staNtpEligibleAtMs_) or "up"

clockVars == <<clock, ntp, gate, generation, setter, pass, answer, station>>

Sources == {"control", "scale"}
NoCall == [at |-> "none", changed |-> FALSE]

ClockInit ==
    /\ clock = [state |-> "OFF", anchored |-> FALSE, pending |-> FALSE]
    /\ ntp = [started |-> FALSE, accepting |-> FALSE, abort |-> FALSE,
              rearm |-> FALSE, asked |-> FALSE]
    /\ gate = {} /\ generation = 0
    /\ setter = [s \in Sources |-> NoCall]
    /\ pass = [at |-> "sleep", generation |-> 0]
    /\ answer = FALSE /\ station = "down"

-----------------------------------------------------------------------------
(* The callers that close and open the gate *)

\* A closed gate is closed again on every pass of the caller.
Close(s) ==
    /\ setter[s] = NoCall
    /\ s \notin gate => generation < MaxToggles
    /\ gate' = gate \cup {s}
    /\ setter' = [setter EXCEPT ![s] = [at |-> "deafen", changed |-> s \notin gate]]
    /\ UNCHANGED <<clock, ntp, generation, pass, answer, station>>

Deafen(s) ==
    /\ setter[s].at = "deafen"
    /\ ntp' = [ntp EXCEPT !.accepting = FALSE]
    /\ setter' = [setter EXCEPT ![s].at = "ask"]
    /\ UNCHANGED <<clock, gate, generation, pass, answer, station>>

\* mutant: only the level is published
FaultyAskAbort(s) ==
    /\ setter[s].at = "ask"
    /\ setter' = [setter EXCEPT ![s] =
                     IF @.changed THEN [at |-> "count", changed |-> TRUE] ELSE NoCall]
    /\ UNCHANGED <<clock, ntp, gate, generation, pass, answer, station>>

AskAbort(s) ==
    /\ setter[s].at = "ask"
    /\ ntp' = [ntp EXCEPT !.abort = TRUE]
    /\ setter' = [setter EXCEPT ![s] =
                     IF @.changed THEN [at |-> "count", changed |-> TRUE] ELSE NoCall]
    /\ UNCHANGED <<clock, gate, generation, pass, answer, station>>

Count(s) ==
    /\ setter[s].at = "count"
    /\ generation' = generation + 1
    /\ setter' = [setter EXCEPT ![s] = NoCall]
    /\ UNCHANGED <<clock, ntp, gate, pass, answer, station>>

Open(s) ==
    /\ setter[s] = NoCall /\ s \in gate
    /\ gate' = gate \ {s}
    /\ setter' = [setter EXCEPT ![s] = [at |-> "count", changed |-> TRUE]]
    /\ UNCHANGED <<clock, ntp, generation, pass, answer, station>>

\* A start of a brew that finds the clock unset, or the user.
AskSync(user) ==
    /\ user \/ clock.state \in {"OFF", "FAILED"}
    /\ user => "control" \notin gate
    /\ ntp' = [ntp EXCEPT !.asked = TRUE]
    /\ UNCHANGED <<clock, gate, generation, setter, pass, answer, station>>

-----------------------------------------------------------------------------
(* The answer of the server: a check, and then the completion is queued *)

Answer ==
    /\ ntp.started /\ ntp.accepting /\ ~answer
    /\ answer' = TRUE
    /\ UNCHANGED <<clock, ntp, gate, generation, setter, pass, station>>

queueSyncFromCallback ==
    /\ answer
    /\ answer' = FALSE
    /\ clock' = [clock EXCEPT !.pending = TRUE]
    /\ UNCHANGED <<ntp, gate, generation, setter, pass, station>>

-----------------------------------------------------------------------------
(* A pass of the network task *)

GoTo(at) == pass' = [pass EXCEPT !.at = at]

Stopped(n) == [n EXCEPT !.started = FALSE, !.accepting = FALSE]

cancelSyncing ==
    [clock EXCEPT !.pending = FALSE,
                  !.state = IF clock.anchored THEN "SYNCED" ELSE "OFF"]

cancelPendingSync == [clock EXCEPT !.pending = FALSE]

markDisabled == [clock EXCEPT !.state = "OFF", !.pending = FALSE]

\* What a closed gate does to an attempt, in both places that look at it.
Aborted(n) ==
    IF n.started \/ clock.state = "SYNCING"
    THEN ntp' = [Stopped(n) EXCEPT !.rearm = TRUE] /\ clock' = cancelSyncing
    ELSE ntp' = n /\ clock' = cancelPendingSync

MustAbort == gate # {} \/ ntp.abort

abortNtpForRfGate ==
    LET heard == [ntp EXCEPT !.abort = FALSE] IN
    /\ pass.at = "sleep"
    /\ GoTo("station")
    /\ IF MustAbort THEN Aborted(heard) ELSE ntp' = heard /\ UNCHANGED clock
    /\ UNCHANGED <<gate, generation, setter, answer, station>>

\* serviceStaState() and the commands: a join, the end of the settling time, a
\* new configuration, or the end of the link.
ServiceStation ==
    /\ pass.at = "station"
    /\ GoTo("service")
    /\ \/ /\ station = "down" /\ station' = "settling"
          /\ ntp' = [ntp EXCEPT !.rearm = TRUE] /\ UNCHANGED clock
       \/ /\ station = "settling" /\ station' = "up"
          /\ UNCHANGED <<ntp, clock>>
       \/ /\ station # "down" /\ UNCHANGED <<station, clock>>
          /\ ntp' \in {ntp, [ntp EXCEPT !.rearm = TRUE]}
       \/ /\ station' = "down"
          /\ ntp' = Stopped(ntp) /\ clock' = markDisabled
    /\ UNCHANGED <<gate, generation, setter, answer>>

\* The server did not answer in time.
handleNtpFailure ==
    /\ ntp' = Stopped(ntp)
    /\ clock' = [clock EXCEPT !.state = "FAILED"]
    /\ GoTo("sleep")

\* A retry or a resynchronisation that is due is a choice.
ServiceAttempt ==
    IF clock.state = "SYNCING"
    THEN handleNtpFailure \/ (GoTo("sleep") /\ UNCHANGED <<ntp, clock>>)
    ELSE \/ /\ ntp' = [ntp EXCEPT !.rearm = FALSE, !.asked = FALSE]
            /\ pass' = [at |-> "check", generation |-> generation]
            /\ UNCHANGED clock
         \/ /\ ~ntp.rearm /\ ~ntp.asked
            /\ GoTo("sleep") /\ UNCHANGED <<ntp, clock>>

serviceNtp ==
    /\ pass.at = "service"
    /\ \/ /\ station = "up" /\ gate = {} /\ clock.pending
          /\ clock' = [state |-> "SYNCED", anchored |-> TRUE, pending |-> FALSE]
          /\ ntp' = Stopped(ntp) /\ GoTo("sleep")
       \/ /\ station = "up" /\ gate = {} /\ ~clock.pending
          /\ ServiceAttempt
       \/ /\ station = "settling" \/ (station = "up" /\ gate # {})
          /\ Aborted(ntp) /\ GoTo("sleep")
       \/ /\ station = "down"
          /\ ntp' = Stopped(ntp) /\ clock' = markDisabled /\ GoTo("sleep")
    /\ UNCHANGED <<gate, generation, setter, answer, station>>

(* armNtp() *)

gateStable == generation = pass.generation /\ gate = {}

Check ==
    /\ pass.at = "check"
    /\ GoTo(IF gateStable THEN "listen" ELSE "sleep")
    /\ ntp' = [ntp EXCEPT !.rearm = @ \/ ~gateStable]
    /\ UNCHANGED <<clock, gate, generation, setter, answer, station>>

Listen ==
    /\ pass.at = "listen"
    /\ clock' = [clock EXCEPT !.state = "SYNCING"]
    /\ ntp' = [ntp EXCEPT !.accepting = TRUE]
    /\ GoTo("recheck")
    /\ UNCHANGED <<gate, generation, setter, answer, station>>

\* Before and after SNTP is started, a gate that has moved stops the attempt.
Recheck ==
    /\ pass.at \in {"recheck", "confirm"}
    /\ IF gateStable
       THEN /\ GoTo(IF pass.at = "recheck" THEN "start" ELSE "sleep")
            /\ UNCHANGED <<ntp, clock>>
       ELSE /\ ntp' = [Stopped(ntp) EXCEPT !.rearm = TRUE]
            /\ clock' = cancelSyncing
            /\ GoTo("sleep")
    /\ UNCHANGED <<gate, generation, setter, answer, station>>

Start ==
    /\ pass.at = "start"
    /\ ntp' = [ntp EXCEPT !.started = TRUE]
    /\ GoTo("confirm")
    /\ UNCHANGED <<clock, gate, generation, setter, answer, station>>

ClockNext ==
    \/ \E s \in Sources : Close(s) \/ Deafen(s) \/ AskAbort(s) \/ Count(s) \/ Open(s)
    \/ \E user \in BOOLEAN : AskSync(user)
    \/ Answer \/ queueSyncFromCallback
    \/ abortNtpForRfGate \/ ServiceStation \/ serviceNtp
    \/ Check \/ Listen \/ Recheck \/ Start

ClockSpec == ClockInit /\ [][ClockNext]_clockVars

-----------------------------------------------------------------------------
(* Properties *)

\* When a pass has ended and no caller is half way, an attempt that is under way
\* can be answered and runs with the gate open, or the next pass ends it.
SyncingListens ==
    /\ pass.at = "sleep" /\ \A s \in Sources : setter[s] = NoCall
    /\ clock.state = "SYNCING" \/ ntp.started
    => ntp.abort \/ (ntp.started /\ ntp.accepting /\ gate = {})

-----------------------------------------------------------------------------
(* Why it holds *)

\* What a caller of the gate is about to do.
Calls == [at : {"none", "deafen", "ask", "count"}, changed : BOOLEAN]

\* A caller that has closed the gate and has not asked for the abort yet.
Asking == \E s \in Sources : setter[s].at \in {"deafen", "ask"}

\* How far the attempt of a pass has come.
Attempt ==
  CASE pass.at \in {"sleep", "station", "service"} ->
         clock.state = "SYNCING" \/ ntp.started
           => clock.state = "SYNCING" /\ ntp.started /\ ntp.accepting
    [] pass.at \in {"check", "listen"} ->
         clock.state # "SYNCING" /\ ~ntp.started
    [] pass.at \in {"recheck", "start"} ->
         clock.state = "SYNCING" /\ ~ntp.started /\ ntp.accepting
    [] OTHER -> clock.state = "SYNCING" /\ ntp.started /\ ntp.accepting

ClockTypes ==
  /\ clock \in [state : {"OFF", "SYNCING", "SYNCED", "FAILED"}, anchored : BOOLEAN,
               pending : BOOLEAN]
  /\ ntp \in [started : BOOLEAN, accepting : BOOLEAN, abort : BOOLEAN,
              rearm : BOOLEAN, asked : BOOLEAN]
  /\ setter \in [Sources -> Calls]
  /\ pass \in [at : {"sleep", "station", "service", "check", "listen", "recheck",
                     "start", "confirm"}, generation : Nat]
  /\ generation \in Nat

\* What SyncingListens rests on.  A gate that closed before the pass left
\* nothing under way and lets nothing begin; one that has closed since has asked,
\* or is about to ask, for an abort that only the next pass takes.
Answerable ==
  /\ ClockTypes
  /\ gate # {} => \/ ntp.abort \/ Asking
                  \/ /\ clock.state # "SYNCING" /\ ~ntp.started
                     /\ pass.at \in {"sleep", "station", "service"}
  /\ ntp.abort \/ Asking \/ Attempt
=============================================================================
