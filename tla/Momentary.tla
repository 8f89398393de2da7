------------------------------ MODULE Momentary -------------------------------
(***************************************************************************)
(* A machine with a momentary switch (ShotStopperMachineMomentary*.h)      *)
(* under the control loop.  Each press toggles the group, so K1 copies the *)
(* switch and the firmware speaks to the group in pulses of its own: one   *)
(* starts it, the next one stops it, and one too many undoes it.           *)
(*                                                                         *)
(* A pass of loop() is three steps: the switch, then serviceMachine, then  *)
(* stateMachineTask and the web commands.  The deadline timers open K1     *)
(* between any two of them.  The pulse, the press and the timeouts last as *)
(* long as they like: whether one is over is a choice.  A lockout of K1,   *)
(* which the next restart ends, is left to ControlLoop.                    *)
(***************************************************************************)
EXTENDS MomentaryView, Sequences

CONSTANTS
    Setups,     \* [kind, onPress, rinse]: the build and its two settings
    MaxPresses  \* bound on the presses of a behaviour

VARIABLES
    machine,    \* the switch, K1, the pulse and the view of the group
    session,    \* [state, web]: the stopper and what started its cycle
    step,       \* the step of the pass that is next
    setup,      \* one of Setups
    presses     \* how many presses there were

momentaryVars == <<machine, session, step, setup, presses>>

NoPress == [running |-> FALSE, state |-> "none"]
Active == session.state \in {"BREW", "RINSE"}

MomentaryInit ==
    /\ setup \in Setups
    /\ machine \in
         {[relay |-> "OPEN", tripped |-> FALSE, phys |-> FALSE, gesture |-> FALSE,
           pre |-> NoPress, fromIdle |-> FALSE, rinseSent |-> FALSE, edges |-> {},
           skip |-> FALSE, run |-> FALSE, pulse |-> FALSE, allowed |-> TRUE,
           suppressed |-> FALSE, rinsing |-> FALSE, given |-> <<>>, view |-> v] :
            v \in IF setup.kind = "reed" THEN {ReedView(on) : on \in BOOLEAN}
                  ELSE {WeightView}}
    /\ session = [state |-> "REQUIRES_OFF", web |-> FALSE]
    /\ step = "input" /\ presses = 0

-----------------------------------------------------------------------------
(* K1 (setMachineCircuitClosed, tripRelaySafety): a close forgets no trip  *)

Closed(m) == m.relay = "CLOSED"
Open(m) == IF Closed(m) THEN [m EXCEPT !.relay = "OPEN"] ELSE m
Close(m) == [m EXCEPT !.relay = "CLOSED"]
Trip(m) == [m EXCEPT !.relay = "TRIPPED", !.tripped = TRUE]

-----------------------------------------------------------------------------
(* The pulses and the copy of the switch (…MomentaryControl.h) *)

\* mutant: a pulse is given up with K1 closed
FaultyAbortPulse(m) == [m EXCEPT !.pulse = FALSE]

AbortPulse(m) ==
    CASE ~m.pulse -> m
      [] m.pulse /\ m.phys -> [m EXCEPT !.pulse = FALSE]
      [] OTHER -> Open([m EXCEPT !.pulse = FALSE])

\* serviceFirmwarePulseDrive
DrivePulse(m, over) ==
    CASE ~m.pulse -> Open(m)
      [] m.pulse /\ over -> Open([m EXCEPT !.pulse = FALSE])
      [] OTHER -> Close(m)

\* machineMayForwardActivatorOn and what follows from it
Forward(m) ==
    IF m.allowed /\ ~m.suppressed THEN Close(m)
    ELSE Open([m EXCEPT !.suppressed = TRUE])

\* applyMomentaryRelayDrive
Drive(m, over) ==
    LET free == [m EXCEPT !.suppressed = FALSE] IN
    CASE m.rinsing -> DrivePulse(m, over)
      [] ~m.rinsing /\ m.phys ->
           CASE ~m.suppressed -> Forward(AbortPulse(m))
             [] m.suppressed /\ m.pulse -> DrivePulse(m, over)
             [] OTHER -> Forward(m)
      [] OTHER -> DrivePulse(free, over)

\* emitFirmwarePulse, for a start or for a stop; why: what the stop is given for
MayEmit(m) == ~m.pulse /\ (m.rinsing \/ ~m.phys)
StartPulse(m) == IF MayEmit(m) THEN [Close(m) EXCEPT !.pulse = TRUE] ELSE m
StopPulse(m, why) ==
    LET p == [Close(m) EXCEPT !.pulse = TRUE, !.given = Append(@, why)] IN
    CASE ~MayEmit(m) -> m
      [] MayEmit(m) /\ HasReed(m) -> p
      [] OTHER -> Seen(p, [cut |-> TRUE])

MaybeStopPulse(m, why) == IF AllowsStop(m) THEN StopPulse(m, why) ELSE AbortPulse(m)

\* endMomentaryLogicalRunForWall, and its counterpart of the reed build
EndRun(m) ==
    LET ended == [m EXCEPT !.run = FALSE] IN
    CASE AllowsStop(m) -> NoteStop(MaybeStopPulse(ended, "wall"))
      [] ~AllowsStop(m) /\ ~HasReed(m) /\ m.view.state # "CONFIRMED_OFF" ->
           Seen(ended, [orphan |-> TRUE])
      [] OTHER -> ended

\* serviceLogicalRunWalls; wall is the limit that has been reached.
Wall(m, wall) ==
    CASE ~m.run \/ wall = "none" -> m
      [] /\ m.run /\ wall = "hard" /\ ~HasReed(m) /\ ~AllowsStop(m)
         /\ ~m.view.scale /\ ~m.view.fresh -> Seen(SettleOff(m), [idle |-> TRUE])
      [] OTHER -> EndRun(Trip(m))

RetryStop(m) ==
    IF ~HasReed(m) /\ m.view.retry THEN MaybeStopPulse(Seen(m, [retry |-> FALSE]), "retry") ELSE m

-----------------------------------------------------------------------------
(* What the control loop asks of the machine *)

RequestStart(m, remote) ==
    LET s == [NoteStart(m) EXCEPT !.run = TRUE] IN
    IF remote /\ s.relay # "TRIPPED" THEN StartPulse(s) ELSE s

\* mutant: forgets that the press itself has stopped the group
FaultyRequestStop(m, over) ==
    LET s == [m EXCEPT !.run = FALSE, !.skip = FALSE] IN
    CASE m.phys -> Drive(NoteStop(AbortPulse(s)), over)
      [] ~m.phys /\ m.pulse -> NoteStop(s)
      [] ~m.phys /\ ~m.pulse /\ ~AllowsStop(s) -> Drive(NoteStop(s), over)
      [] OTHER -> StopPulse(NoteStop(s), "stop")

RequestStop(m, over) ==
    LET s == [m EXCEPT !.run = FALSE, !.skip = FALSE] IN
    CASE m.phys \/ m.skip -> Drive(NoteStop(AbortPulse(s)), over)
      [] ~m.phys /\ ~m.skip /\ m.pulse -> NoteStop(s)
      [] ~m.phys /\ ~m.skip /\ ~m.pulse /\ ~AllowsStop(s) -> Drive(NoteStop(s), over)
      [] OTHER -> StopPulse(NoteStop(s), "stop")

BeginRinse(m) ==
    IF m.rinsing THEN m
    ELSE LET quiet == Open(AbortPulse([m EXCEPT !.rinsing = TRUE, !.suppressed = TRUE]))
         IN  StartPulse([NoteStart(quiet) EXCEPT !.run = TRUE])

EndRinse(m) ==
    LET ended == NoteStop([m EXCEPT !.run = FALSE, !.suppressed = TRUE])
    IN  [StopPulse(AbortPulse(ended), "rinse") EXCEPT !.rinsing = FALSE]

\* finalizeCycle as far as the machine goes; cut: brewWeightCutSettlesMachineOff
Finalize(m, rinse, cut, over) ==
    LET armed == IF HasReed(m) THEN m ELSE Seen(m, [armed |-> cut])
    IN  [(IF rinse THEN EndRinse(armed) ELSE RequestStop(armed, over))
         EXCEPT !.rinsing = FALSE]

-----------------------------------------------------------------------------
(* The switch (…MomentaryInput.h) *)

\* The press is on K1, so that the group has it.
Forwarded(m) == m.phys /\ Closed(m) /\ ~m.pulse

\* applyMomentaryStartStopEdge
StartStopEdge(m, forwarded) ==
    IF Running(m)
    THEN NoteStop([m EXCEPT !.edges = @ \cup {"off", "user"}, !.skip = TRUE,
                            !.run = FALSE, !.given = IF forwarded THEN <<"press">> ELSE <<>>])
    ELSE [NoteStart([m EXCEPT !.edges = @ \cup {"on", "start"}]) EXCEPT !.run = TRUE]

\* revertDisqualifiedSinglePress
Revert(m) ==
    IF m.pre.running
    THEN NoteDisqualified([m EXCEPT !.run = TRUE, !.edges = @ \ {"start"}], TRUE,
                          m.pre.state)
    ELSE NoteDisqualified([m EXCEPT !.run = FALSE, !.skip = TRUE,
                                    !.edges = (@ \ {"start"}) \cup {"off", "user"}],
                          FALSE, m.pre.state)

Pressed(m, forwarded) ==
    LET p == [m EXCEPT !.rinseSent = FALSE, !.fromIdle = ~Running(m)]
    IN  IF setup.onPress
        THEN [StartStopEdge([p EXCEPT !.pre = [running |-> Running(m),
                                               state |-> ViewState(m)]],
                            forwarded)
              EXCEPT !.gesture = TRUE]
        ELSE p

\* long: past the single press limit, or the rinse gesture of an idle hold
Held(m, long) ==
    LET idleHold == setup.rinse /\ m.fromIdle IN
    CASE idleHold /\ ~m.rinseSent /\ long ->
           [m EXCEPT !.edges = @ \cup {"rinse"}, !.rinseSent = TRUE, !.gesture = FALSE,
                     !.pre = NoPress]
      [] setup.onPress /\ m.gesture /\ ~idleHold /\ long ->
           [Revert(m) EXCEPT !.gesture = FALSE, !.pre = NoPress]
      [] OTHER -> m

Released(m, long, forwarded) ==
    LET r == [m EXCEPT !.gesture = FALSE, !.pre = NoPress, !.fromIdle = FALSE,
                       !.rinseSent = FALSE] IN
    IF setup.onPress \/ m.rinseSent \/ long THEN r ELSE StartStopEdge(r, forwarded)

\* updateActivatorInput
UpdateInput(m, on, long, over) ==
    LET d == Drive([m EXCEPT !.phys = on], over) IN
    CASE on /\ ~m.phys -> Pressed(d, Forwarded(d))
      [] on /\ m.phys -> Held(d, long)
      [] ~on /\ m.phys -> Released(d, long, Forwarded(m))
      [] OTHER -> d

-----------------------------------------------------------------------------
(* The pass *)

\* pushActivatorDrivePermission, machineSampleInput
Input(on, long, allowed, reed, over) ==
    /\ step = "input"
    /\ on /\ ~machine.phys => presses < MaxPresses
    /\ presses' = IF on /\ ~machine.phys THEN presses + 1 ELSE presses
    /\ machine' = UpdateInput(SampleReed([machine EXCEPT !.allowed = allowed], reed),
                              on, long, over)
    /\ step' = "service"
    /\ UNCHANGED <<session, setup>>

\* serviceMachine
Service(reading, wall, over) ==
    /\ step = "service"
    /\ machine' = RetryStop(Wall(Drive(Sense(machine, reading, Active), over), wall))
    /\ step' = "control"
    /\ UNCHANGED <<session, setup, presses>>

AfterHold(m) == IF m.phys THEN "REQUIRES_OFF" ELSE "READY"
\* What a control step makes of the machine and the session
To(m, state, web) ==
    [machine |-> m,
     session |-> [state |-> state, web |-> web /\ state \in {"BREW", "RINSE"}]]
End(m, cut, over, state) ==
    To(Finalize(m, session.state = "RINSE", cut, over), state, FALSE)

WantsRinse == "rinse" \in machine.edges
WantsStart == ~WantsRinse /\ "on" \in machine.edges
WantsStop == ~WantsRinse /\ ~WantsStart /\ "off" \in machine.edges

\* beginCycle: what its guards let pass
BeginBrew(m, web) ==
    To(RequestStart(m, web), IF m.relay = "TRIPPED" THEN "REQUIRES_OFF" ELSE "BREW", web)

\* stateMachineTask.  blocked: a guard refuses the start; ends: why the brew
\* may end without the user: "cut" by its weight or time, "other", or "none".
StatePass(blocked, ends, over) ==
    LET m == machine
        stay == To(m, session.state, session.web)
        idle == ~HasReed(m) /\ m.view.idle
        untripped == [m EXCEPT !.tripped = FALSE]
    IN
    CASE m.tripped /\ Active -> End(untripped, FALSE, over, "REQUIRES_OFF")
      [] m.tripped /\ ~Active -> To(untripped, "REQUIRES_OFF", FALSE)
      [] ~m.tripped /\ Active /\ session.web /\ m.edges \cap {"on", "off"} # {} ->
           End(m, FALSE, over, AfterHold(m))
      [] OTHER ->
         CASE session.state = "REQUIRES_OFF" -> To(m, AfterHold(m), FALSE)
           [] session.state = "READY" /\ WantsStart /\ ~blocked -> BeginBrew(m, FALSE)
           [] session.state = "READY" /\ WantsRinse /\ ~blocked ->
                To(BeginRinse(m), "RINSE", FALSE)
           [] session.state = "RINSE" /\ ends = "other" ->
                End(m, FALSE, over, AfterHold(m))
           [] session.state = "BREW" ->
                CASE WantsRinse -> To(BeginRinse(m), "RINSE", session.web)
                  [] WantsStop -> End(m, FALSE, over, "READY")
                  [] ~WantsRinse /\ ~WantsStop /\ idle ->
                       End(Seen(m, [idle |-> FALSE]), FALSE, over, AfterHold(m))
                  [] ~WantsRinse /\ ~WantsStop /\ ~idle /\ ends # "none" ->
                       End(m, ends = "cut", over, AfterHold(m))
                  [] OTHER -> stay
           [] OTHER -> stay

\* machineOnBrewOutcome
Outcome(m, active) ==
    IF "start" \in m.edges /\ ~active
    THEN NoteStartCanceled([m EXCEPT !.run = FALSE, !.gesture = FALSE]) ELSE m

\* processWebCommand: STOP, REMOTE_ON, RINSE, the overrides, or none
Obey(m, s, command, over) ==
    LET active == s.state \in {"BREW", "RINSE"}
        Ended(x) == To(Finalize(x, s.state = "RINSE", FALSE, over), AfterHold(x), FALSE)
        forced == [orphan |-> FALSE, cut |-> FALSE, armed |-> FALSE, retry |-> FALSE,
                   idle |-> FALSE]
    IN
    CASE command = "stop" /\ Running(m) ->
           LET asked == Reason([m EXCEPT !.skip = FALSE]) IN
           IF active THEN Ended(asked) ELSE To(RequestStop(asked, over), s.state, FALSE)
      [] command = "start" /\ s.state = "READY" -> BeginBrew(m, TRUE)
      [] command = "rinse" /\ s.state = "READY" /\ setup.rinse ->
           To(BeginRinse(m), "RINSE", TRUE)
      [] command = "off" /\ ~HasReed(m) ->
           IF active THEN Ended(SettleOff(m)) ELSE To(SettleOff(m), s.state, FALSE)
      [] command = "on" /\ ~HasReed(m) ->
           To(Seen(Confirmed(m), forced), s.state, s.web)
      [] OTHER -> To(m, s.state, s.web)

\* stateMachineTask, machineOnBrewOutcome, processWebCommands.  The edges and
\* the permission of the pass are read no more.
Control(blocked, ends, command, over) ==
    LET passed == StatePass(blocked, ends, over)
        after == Outcome(passed.machine, passed.session.state \in {"BREW", "RINSE"})
        obeyed == Obey(after, passed.session, command, over)
    IN  /\ step = "control"
        /\ machine' = [obeyed.machine EXCEPT !.edges = {}, !.allowed = TRUE]
        /\ session' = obeyed.session
        /\ step' = "input"
        /\ UNCHANGED <<setup, presses>>

\* A deadline timer opens K1 between two steps.
Timer ==
    /\ Closed(machine)
    /\ machine' = Trip(machine)
    /\ UNCHANGED <<session, step, setup, presses>>

-----------------------------------------------------------------------------
(* The choices of a pass, without those that make no difference *)

Choice(may) == IF may THEN BOOLEAN ELSE {FALSE}
NoReading == [signal |-> "same", shot |-> FALSE, due |-> FALSE, limit |-> FALSE,
              event |-> "none", drop |-> FALSE]
Readings ==
    IF HasReed(machine) THEN {NoReading, [NoReading EXCEPT !.due = TRUE]}
    ELSE {r \in [signal : Signals, shot : BOOLEAN, due : BOOLEAN, limit : {FALSE},
                 event : {"none"}, drop : BOOLEAN] :
             /\ r.drop => r.signal \in {"same", "low"} /\ r.shot /\ session.state = "BREW"
             /\ r.signal \in {"quiet", "tare", "stale"} => ~r.shot
             /\ r.signal = "tare" => ~r.due}
         \cup {[NoReading EXCEPT !.event = e] : e \in {"connected", "cup removed"}}
         \cup {[NoReading EXCEPT !.limit = TRUE]}
Walls(reading) ==
    IF machine.run /\ reading = NoReading
    THEN {"none", "hard", "operational"} ELSE {"none"}
Blocks == Choice(session.state = "READY" /\ (WantsStart \/ WantsRinse))
Ends ==
    CASE session.state = "BREW" -> {"none", "cut", "other"}
      [] session.state = "RINSE" -> {"none", "other"}
      [] OTHER -> {"none"}

MomentaryNext ==
    \/ \E on \in BOOLEAN, over \in Choice(machine.pulse), long \in Choice(machine.phys),
          allowed \in Choice(~Active) \cup {TRUE}, reed \in Choice(HasReed(machine)) :
          Input(on, long, allowed, reed, over)
    \/ \E reading \in Readings, over \in Choice(machine.pulse) :
       \E wall \in Walls(reading) : Service(reading, wall, over)
    \/ \E blocked \in Blocks, over \in Choice(machine.pulse), ends \in Ends,
          command \in {"none", "stop", "start", "rinse", "off", "on"} :
          Control(blocked, ends, command, over)
    \/ Timer

MomentarySpec == MomentaryInit /\ [][MomentaryNext]_momentaryVars

-----------------------------------------------------------------------------
(* Properties *)

\* K1 is closed only for a reason: once the switch is read, for a press that is
\* forwarded or a pulse that is not over; and no pass leaves it closed with the
\* switch released and no pulse.  (A retry that gives up under a press that is
\* not forwarded leaves K1 to the next pass.)
ClosedIsExplained ==
    Closed(machine) =>
        /\ step = "service" => machine.pulse \/ (machine.phys /\ ~machine.suppressed)
        /\ step = "input" => machine.pulse \/ machine.phys

\* One stop toggles the group once: no second pulse, and no pulse on top of
\* the press by which the user stopped it, which would start it again.  But for
\* one corner of the code: a limit that is reached in a rinse gives a pulse and
\* trips, and the trip ends the rinse, which gives another.
StopsOnce == Len(machine.given) <= 1 \/ machine.given = <<"wall", "rinse">>
=============================================================================
