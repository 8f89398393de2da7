---------------------------- MODULE MomentaryView -----------------------------
(***************************************************************************)
(* What a momentary build knows of the group it switches: the view that a  *)
(* reed contact gives (ShotStopperMachineMomentaryReedState.h) or the one  *)
(* inferred from the weight (ShotStopperMachineMomentaryOnlyState.h).      *)
(*                                                                         *)
(* A machine is a record m.  Of it the view reads phys (the switch is      *)
(* pressed), run (a logical run is on) and edges (the events of this       *)
(* pass), and owns m.view, whose field kind says which build this is.      *)
(*                                                                         *)
(* Time and weight are what they make the code decide: a timeout is due or *)
(* not, and a reading is one of Signals, near the baseline of the shot or  *)
(* above it.                                                               *)
(***************************************************************************)
EXTENDS Integers, FiniteSets

\* "same" is a reading without news: a packet read before, a finger, a gap, or
\* neither low nor rising; "quiet" a pan at rest for MOMENTARY_QUIET_MS; "tare"
\* a drop to zero.
Signals == {"stale", "same", "quiet", "low", "rising", "tare"}

ReedView(on) == [kind |-> "reed", reed |-> on, sawOff |-> FALSE,
                 assume |-> "none", issued |-> FALSE]
WeightView == [kind |-> "weight", state |-> "CONFIRMED_OFF", scale |-> FALSE,
               fresh |-> FALSE, had |-> FALSE, coffee |-> FALSE,
               stopAck |-> FALSE, startAck |-> FALSE, orphan |-> FALSE,
               cut |-> FALSE, armed |-> FALSE, settling |-> FALSE,
               idle |-> FALSE, retry |-> FALSE]

HasReed(m) == m.view.kind = "reed"
\* m with the fields of f in its view
Seen(m, f) == [m EXCEPT !.view = [k \in DOMAIN @ |-> IF k \in DOMAIN f THEN f[k] ELSE @[k]]]

Running(m) ==
    LET v == m.view IN
    IF HasReed(m)
    THEN /\ v.assume # "grace_off"
         /\ v.assume \in {"grace_on", "on"} \/ v.reed \/ m.run
    ELSE m.run \/ v.stopAck \/ v.orphan \/ v.state \in {"CONFIRMED_ON", "ASSUMED_ON"}

\* machineAllowsFirmwareStopPulse
AllowsStop(m) ==
    LET v == m.view IN
    /\ ~m.phys
    /\ IF HasReed(m)
       THEN /\ ~v.issued \/ "user" \in m.edges
            /\ v.reed /\ v.sawOff /\ v.assume \notin {"off", "grace_off"}
       ELSE v.state = "CONFIRMED_ON"
            \/ (v.armed /\ v.coffee /\ v.state = "ASSUMED_ON")

-----------------------------------------------------------------------------
(* What the control code tells the view *)

SettledOff == [state |-> "CONFIRMED_OFF", had |-> FALSE, coffee |-> FALSE,
               stopAck |-> FALSE, startAck |-> FALSE, orphan |-> FALSE,
               cut |-> FALSE, armed |-> FALSE, settling |-> FALSE,
               idle |-> FALSE, retry |-> FALSE]
SettleOff(m) == Seen([m EXCEPT !.run = FALSE], SettledOff)

\* `given` is history: what toggled the group, the press itself ("press") or a
\* pulse, since the last reason to stop it.
Reason(m) == [m EXCEPT !.given = <<>>]

NoteStart(m) ==
    Reason(IF HasReed(m)
           THEN Seen(m, [issued |-> FALSE,
                         assume |-> IF m.view.reed THEN "none" ELSE "on"])
           ELSE Seen(Seen(m, [scale |-> m.view.scale \/ m.view.fresh]),
                     [SettledOff EXCEPT !.state = "ASSUMED_ON", !.startAck = TRUE]))

NoteStop(m) ==
    LET v == m.view IN
    CASE HasReed(m) /\ v.assume \in {"grace_on", "grace_off"} -> m
      [] HasReed(m) /\ v.assume \notin {"grace_on", "grace_off"} ->
           Seen(m, [issued |-> TRUE, assume |-> IF v.reed THEN "off" ELSE "none"])
      [] ~HasReed(m) /\ ~m.run /\ v.state = "CONFIRMED_OFF" /\ ~v.startAck -> m
      [] OTHER ->
           Seen(m, [retry |-> FALSE, startAck |-> FALSE, stopAck |-> v.fresh,
                    settling |-> v.fresh \/ v.armed,
                    state |-> CASE v.fresh \/ v.armed -> "ASSUMED_OFF"
                                [] ~v.fresh /\ ~v.armed /\ v.scale -> "UNKNOWN"
                                [] OTHER -> "CONFIRMED_OFF"])

NoteStartCanceled(m) ==
    Reason(IF HasReed(m)
           THEN Seen(m, [issued |-> FALSE, assume |-> "none"])
           ELSE Seen(m, [had |-> FALSE, stopAck |-> FALSE, retry |-> FALSE,
                         startAck |-> FALSE, orphan |-> FALSE,
                         settling |-> FALSE, idle |-> FALSE,
                         state |-> "CONFIRMED_OFF"]))

\* A press that turned out to be too long; pre is the state before it.
NoteDisqualified(m, restore, pre) ==
    Reason(CASE HasReed(m) ->
                  Seen(m, [issued |-> FALSE,
                           assume |-> IF restore THEN "grace_on" ELSE "grace_off"])
             [] ~HasReed(m) /\ restore ->
                  Seen(m, [stopAck |-> FALSE, retry |-> FALSE, startAck |-> FALSE,
                           orphan |-> FALSE, settling |-> FALSE,
                           state |-> IF pre = "CONFIRMED_OFF" THEN "ASSUMED_ON"
                                     ELSE pre])
             [] OTHER -> NoteStartCanceled(m))

ViewState(m) == IF HasReed(m) THEN "none" ELSE m.view.state

\* noteMomentaryEspressoConfirmed and the state it leads to
Confirmed(m) ==
    Reason(Seen([m EXCEPT !.run = TRUE],
                [had |-> TRUE, coffee |-> TRUE, settling |-> FALSE,
                 stopAck |-> FALSE, startAck |-> FALSE, state |-> "CONFIRMED_ON"]))

-----------------------------------------------------------------------------
(* The sensors, once a pass *)

SampleReed(m, on) ==
    IF HasReed(m) THEN Seen(m, [reed |-> on, sawOff |-> m.view.sawOff \/ ~on]) ELSE m

\* serviceReedAssumeWindow
ReedSense(m, due) ==
    LET v == m.view
        over == Seen(m, [assume |-> "none"])
    IN  CASE v.assume = "on" /\ v.reed -> over
          [] v.assume = "on" /\ ~v.reed /\ due ->
               [over EXCEPT !.run = FALSE, !.edges = @ \cup {"off"}]
          [] v.assume \in {"grace_on", "grace_off"} /\ due -> over
          [] v.assume = "off" /\ (due \/ ~v.reed) -> over
          [] OTHER -> m

\* No fresh weight: nothing is confirmed, and after a while nothing is known.
StaleSense(m, due) ==
    LET v == m.view
        settling == v.settling \/ v.armed
        lost == due /\ ~settling /\ (m.run \/ v.scale \/ (v.stopAck /\ v.scale))
    IN  Seen(m, [fresh |-> FALSE, stopAck |-> v.stopAck /\ ~due,
                 state |-> CASE lost -> "UNKNOWN"
                             [] ~lost /\ v.state = "CONFIRMED_ON" ->
                                  IF settling THEN "ASSUMED_OFF" ELSE "ASSUMED_ON"
                             [] OTHER -> v.state])

\* A tare moves the baseline: what was confirmed before it no longer counts.
AfterTare(m, signal) ==
    IF signal = "tare" /\ m.run /\ m.view.state = "CONFIRMED_ON"
    THEN Seen(m, [state |-> "ASSUMED_ON"]) ELSE m

\* A pan at rest
AfterQuiet(m, signal) ==
    LET v == m.view IN
    CASE signal # "quiet" -> m
      [] signal = "quiet" /\ (v.armed \/ v.settling) -> SettleOff(m)
      [] signal = "quiet" /\ ~v.armed /\ ~v.settling ->
           IF /\ ~v.startAck
              /\ \/ v.stopAck \/ v.orphan
                 \/ ~m.run /\ v.state = "UNKNOWN"
           THEN Seen(m, [stopAck |-> FALSE, orphan |-> FALSE,
                         state |-> "CONFIRMED_OFF"])
           ELSE m

\* A stop that waits to be seen in the weight
AfterStop(m, signal, due) ==
    LET v == m.view IN
    CASE ~v.stopAck -> m
      [] v.stopAck /\ signal = "quiet" -> SettleOff(m)
      [] v.stopAck /\ signal = "rising" /\ due /\ v.cut -> Seen(m, [retry |-> TRUE])
      [] v.stopAck /\ signal = "rising" /\ due /\ ~v.cut /\ ~v.armed ->
           Seen(Confirmed(m), [startAck |-> v.startAck])
      [] v.stopAck /\ signal # "rising" /\ signal # "quiet" /\ due ->
           Seen(m, [stopAck |-> FALSE])
      [] OTHER -> m

\* A start that waits to be seen in the weight
AfterStart(m, shot, due) ==
    IF m.view.startAck /\ ~m.view.stopAck /\ ~shot /\ due
    THEN Seen([m EXCEPT !.run = FALSE],
              [startAck |-> FALSE, orphan |-> FALSE, state |-> "ASSUMED_OFF"])
    ELSE m

\* The flow of a confirmed shot ceases; keep: its coffee is on the scale.
AfterLowFlow(m, signal, keep, due) ==
    IF /\ m.view.state = "CONFIRMED_ON" /\ ~m.view.stopAck
       /\ signal \in {"low", "quiet"} /\ due /\ ~keep
    THEN Seen(m, [state |-> "ASSUMED_ON"]) ELSE m

AfterFlow(m, signal, shot, due) ==
    LET v == m.view IN
    IF /\ m.run \/ v.state \in {"ASSUMED_ON", "ASSUMED_OFF"}
       /\ signal = "rising" /\ shot /\ due
       /\ ~v.stopAck /\ ~v.armed /\ v.state # "CONFIRMED_OFF"
    THEN [Confirmed(m) EXCEPT !.run = m.run \/ v.state = "ASSUMED_OFF"]
    ELSE m

\* A start without any coffee until the hard limit is given up.
AfterHardLimit(m, shot, limit) ==
    LET v == m.view IN
    IF /\ limit /\ ~shot /\ ~v.settling /\ ~v.armed /\ ~v.had
       /\ v.state \in {"ASSUMED_ON", "ASSUMED_OFF"}
    THEN Seen(SettleOff(m), [idle |-> TRUE]) ELSE m

\* The edges that settle the view before a reading is looked at
AfterEvents(m, event, active, drop) ==
    LET a == IF \/ event = "connected" /\ ~active
                \/ event = "cup removed" /\ m.view.state = "ASSUMED_OFF"
             THEN SettleOff(m) ELSE m
        b == IF /\ a.run /\ a.view.state = "CONFIRMED_OFF"
                /\ ~a.view.stopAck /\ ~a.view.settling /\ a.view.startAck
             THEN Seen(a, [state |-> "ASSUMED_ON"]) ELSE a
    IN  IF drop THEN Seen(b, [coffee |-> TRUE]) ELSE b

\* r is a reading: [signal, shot, due, limit, event, drop].
WeightSense(m, r, active) ==
    LET a == AfterEvents(m, r.event, active, r.drop)
        b == AfterTare(Seen(a, [fresh |-> TRUE, scale |-> TRUE]), r.signal)
        c == AfterStop(AfterQuiet(b, r.signal), r.signal, r.due)
        d == AfterLowFlow(AfterStart(c, r.shot, r.due), r.signal,
                          active /\ r.drop /\ r.shot, r.due)
    IN  IF r.signal = "stale" THEN StaleSense(a, r.due)
        ELSE AfterHardLimit(AfterFlow(d, r.signal, r.shot, r.due), r.shot, r.limit)

\* serviceMomentaryRunSensors
Sense(m, r, active) == IF HasReed(m) THEN ReedSense(m, r.due) ELSE WeightSense(m, r, active)
=============================================================================
