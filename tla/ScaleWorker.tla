---------------------------- MODULE ScaleWorker -----------------------------
(***************************************************************************)
(* The scale worker task: it alone owns the Bluetooth client (module       *)
(* ScaleClient, of which the worker sees only whether it searches,         *)
(* connects or is up), and it meets the control task in what both write:   *)
(* the choice of the preferred scale, the snapshot of the link, the queue  *)
(* of commands and the mailboxes of results, weights and beeps.  A pass of *)
(* the worker takes several steps, between which the control task runs.    *)
(***************************************************************************)
EXTENDS Integers, Sequences, FiniteSets

CONSTANTS
    Scales,             \* scales in reach, by their address
    WorkerCycles,       \* the identifiers of brew cycles
    CommandLength,      \* SCALE_COMMAND_QUEUE_LENGTH
    EventLength,        \* SCALE_EVENT_QUEUE_LENGTH
    MaxUnread,          \* bounds of the model: results not yet read,
    MaxConnections,     \*   connections, and
    MaxChoices          \*   choices made by the user

VARIABLES
    ble,        \* the client: its phase, filter and scale
    link,       \* the snapshot: connected, generation, stalled
    choice,     \* preferred scale, mode, pause, and the resets they ask for
    step,       \* how far the worker is in its pass, and the reasons it took
    commands,   \* scaleCommandQueue
    results,    \* the queue of results and its two fallback slots
    unread,     \* the results the control task has not read, lost or not
    beeps,      \* beeps asked for
    stored,     \* the control task: the preferred scale as it was last given
                \*   to a save, the save under way, and a copy not decided on
    changing,   \* the control task: a new mode whose reset is to follow
    load        \* a bound of the model: the user chooses (and what was chosen
                \*   is persisted), brews (and weights are read), or is beeped

workerVars == <<ble, link, choice, step, commands, results, unread, beeps,
                stored, changing, load>>

Nobody == "nobody"
Phases == {"Idle", "Scanning", "Connecting", "Up"}
Modes == {"FIRST", "PREFER", "ONLY"}
NoMode == "none"
NoResult == [type |-> "none"]
NoCopy == [mac |-> "none", saved |-> FALSE]

\* setScaleLinkState: a link newly shown is a new generation.
Mark(l, up) ==
    IF l.connected = up THEN l
    ELSE [l EXCEPT !.connected = up,
                   !.generation = IF up THEN @ + 1 ELSE @]

\* notePreferredScale: unless any scale is welcome, the first that connects
\* becomes the preferred one.  What connected is worth remembering.
Note(c, peer) ==
    [c EXCEPT !.dirty = TRUE,
              !.mac = IF c.mode # "FIRST" /\ ~c.paused /\ c.mac = Nobody
                      THEN peer ELSE @]

\* scale.disconnect.  The worker remembers that it watched a connection
\* being made (logged) until it has polled how that ended.
Off(b) == [b EXCEPT !.phase = "Idle", !.filter = Nobody, !.peer = Nobody]
Ended(b) == [Off(b) EXCEPT !.logged = FALSE]

\* The scales that may answer; who answers matters to the choice only.
Near == IF load = "choices" THEN Scales ELSE {CHOOSE p \in Scales : TRUE}

\* What the client may have become when it is polled: the library moves only
\* inside the worker's calls.  A connection that was not established leaves it
\* scanning as before.
Polled(b) ==
    CASE b.phase = "Idle" -> {b}
      [] b.phase = "Scanning" ->
           {b, Off(b)} \cup
           {[b EXCEPT !.phase = "Connecting", !.peer = p] :
              p \in IF b.filter = Nobody THEN Near ELSE {b.filter}}
      [] b.phase = "Connecting" ->
           {b, Off(b), [b EXCEPT !.phase = "Up"],
            [b EXCEPT !.phase = "Scanning", !.peer = Nobody]}
      [] b.phase = "Up" ->
           {b, Off(b)}

Up(b) == b.phase = "Up"

GoOn(next) == step' = [at |-> next, reasons |-> {}]
Resetting(next) == step' = [at |-> next, reasons |-> choice.reasons]

\* takeScalePreferenceResetReasons
Taken == choice' = [choice EXCEPT !.reasons = {}]

-----------------------------------------------------------------------------
(* The worker's pass *)

\* The live check of the link; one that is gone is no longer shown.  A
\* connection the worker is watching may be found up here, before it is shown.
Top ==
    /\ step.at = "top"
    /\ \E b \in Polled(ble) :
          /\ Up(b) => (Up(ble) \/ ble.logged)
          /\ Up(b) /\ ~Up(ble) => link.generation < MaxConnections
          /\ ble' = b
          /\ IF Up(b)
             THEN /\ Taken /\ Resetting("linkReset")
                  /\ UNCHANGED link
             ELSE /\ link' = Mark(link, FALSE)
                  /\ GoOn("work")
                  /\ UNCHANGED choice
    /\ UNCHANGED <<commands, results, unread, beeps, stored, changing, load>>

\* applyScalePreferenceReset: the reasons were taken before the choice is
\* looked at.  A link stays up only if the choice allows it.
FaultyMustEnd(reasons, b) ==
    /\ reasons # {}
    /\ IF Up(b)
       THEN \/ choice.paused
            \/ "IDENTITY" \in reasons /\ choice.mac = Nobody
            \/ choice.mode # "FIRST" /\ choice.mac \notin {Nobody, b.peer}
       ELSE b.phase = "Scanning"
MustEnd(reasons, b) ==
    /\ reasons # {}
    /\ IF Up(b)
       THEN \/ choice.paused
            \/ "IDENTITY" \in reasons /\ choice.mac = Nobody
            \/ choice.mode # "FIRST" /\ choice.mac \notin {Nobody, b.peer}
       ELSE b.phase # "Idle" \/ b.logged

LinkReset ==
    /\ step.at = "linkReset"
    /\ IF MustEnd(step.reasons, ble)
       THEN ble' = Ended(ble) /\ link' = Mark(link, FALSE) /\ GoOn("work")
       ELSE GoOn("adopt") /\ UNCHANGED <<ble, link>>
    /\ UNCHANGED <<choice, commands, results, unread, beeps, stored, changing, load>>

\* A scale that is already linked is adopted like one that has just connected.
Adopt ==
    /\ step.at = "adopt"
    /\ choice' = IF choice.mode # "FIRST" /\ choice.mac = Nobody
                    /\ ~choice.paused
                 THEN Note(choice, ble.peer) ELSE choice
    /\ GoOn("serve")
    /\ UNCHANGED <<ble, link, commands, results, unread, beeps, stored,
                   changing, load>>

\* publishPendingScaleWeightEvent: the mailbox holds the last weight, stamped
\* with the connection it belongs to.
Published(r) ==
    IF load = "commands" THEN [r EXCEPT !.weight = link.generation] ELSE r

\* The heartbeat and the weight of a linked scale, either of which may find
\* that it is gone.  Only then is the state of the link brought up to date.
Serve ==
    /\ step.at = "serve"
    /\ \/ \E b \in Polled(ble) \ {ble} :
             /\ ble' = b /\ link' = Mark(link, FALSE)
             /\ GoOn("work")
             /\ UNCHANGED results
       \/ /\ results' = Published(results)
          /\ GoOn("show")
          /\ UNCHANGED <<ble, link>>
       \/ GoOn("work") /\ UNCHANGED <<ble, link, results>>
    /\ UNCHANGED <<choice, commands, unread, beeps, stored, changing, load>>

Show ==
    /\ step.at = "show"
    /\ link' = Mark(link, TRUE)
    /\ GoOn("work")
    /\ UNCHANGED <<ble, choice, commands, results, unread, beeps, stored,
                   changing, load>>

\* publishScaleEvent for a result: the queue, or the slot that START results
\* and the others have for themselves, over what it held.
Delivered(r, result) ==
    IF Len(r.queue) < EventLength
    THEN [r EXCEPT !.queue = Append(@, result)]
    ELSE IF result.type = "START" THEN [r EXCEPT !.start = result]
    ELSE [r EXCEPT !.other = result]

\* A connection being made comes before everything else.
Watching == ble.phase = "Connecting" \/ ble.logged

\* The worker takes the oldest command that waits.
FaultyNextCommand(waiting) ==
    IF \E i \in 1..Len(waiting) : waiting[i].type = "STOP"
    THEN CHOOSE c \in {waiting[i] : i \in 1..Len(waiting)} : c.type = "STOP"
    ELSE Head(waiting)
NextCommand(waiting) == Head(waiting)

\* executeScaleCommand.  A write the scale does not take ends the client's
\* link, which is noticed in the next pass; a start falls back from the
\* combined command to single ones.
Command ==
    /\ step.at = "work" /\ ~Watching /\ commands # <<>>
    /\ ~link.stalled /\ Cardinality(unread) < MaxUnread
    /\ commands' = Tail(commands)
    /\ \E ok, combined \in BOOLEAN, b \in Polled(ble) :
          LET next == NextCommand(commands)
              result == [type |-> next.type, cycle |-> next.cycle,
                         ok |-> ok, combined |-> combined]
          IN  /\ ok => Up(ble)
              /\ combined => ok /\ next.type = "START"
              /\ Up(ble) \/ b = ble
              /\ ble' = b
              /\ results' \in {Delivered(r, result) :
                    r \in {results} \cup
                          (IF Up(ble) THEN {Published(results)} ELSE {})}
              /\ unread' = unread \cup {result}
    /\ GoOn("top")
    /\ UNCHANGED <<link, choice, beeps, stored, changing, load>>

\* One beep in a pass.  A beep for a scale that is not there is gone.
Beep ==
    /\ step.at = "work" /\ ~Watching /\ commands = <<>>
    /\ beeps # {}
    /\ \E b \in beeps : beeps' = beeps \ {b}
    /\ \E b \in Polled(ble) : (Up(ble) \/ b = ble) /\ ble' = b
    /\ GoOn("top")
    /\ UNCHANGED <<link, choice, commands, results, unread, stored, changing, load>>

\* Nothing else to do: look for a scale, unless one is up or the search is
\* paused, which ends what there is.
Searching ==
    \/ Watching
    \/ commands = <<>> /\ beeps = {} /\ ~Up(ble)

Search ==
    /\ step.at = "work" /\ Searching
    /\ IF ~Watching /\ choice.paused
       THEN /\ ble' = Off(ble) /\ link' = Mark(link, FALSE) /\ GoOn("top")
            /\ UNCHANGED choice
       ELSE Taken /\ Resetting("findReset") /\ UNCHANGED <<ble, link>>
    /\ UNCHANGED <<commands, results, unread, beeps, stored, changing, load>>

Rest ==
    /\ step.at = "work" /\ ~Watching /\ commands = <<>> /\ beeps = {} /\ Up(ble)
    /\ GoOn("top")
    /\ UNCHANGED <<ble, link, choice, commands, results, unread, beeps, stored,
                   changing, load>>

FindReset ==
    /\ step.at = "findReset"
    /\ LET b == IF MustEnd(step.reasons, ble) THEN Ended(ble) ELSE ble
           l == IF b.phase \in {"Idle", "Scanning"} THEN Mark(link, FALSE)
                ELSE link
       IN  IF choice.paused
           THEN /\ ble' = IF b.phase \in {"Scanning", "Up"} THEN Off(b) ELSE b
                /\ link' = IF b.phase = "Up" THEN Mark(l, FALSE) ELSE l
                /\ GoOn("top")
           ELSE ble' = b /\ link' = l /\ GoOn("find")
    /\ UNCHANGED <<choice, commands, results, unread, beeps, stored, changing,
                   load>>

\* startScaleDiscoveryScan: only the preferred scale, if there is one and the
\* mode asks for it; with PREFER, after a while, any.
Filter == IF choice.mode = "FIRST" THEN Nobody ELSE choice.mac

Scanned(filter) ==
    [phase |-> "Scanning", filter |-> filter, peer |-> Nobody, logged |-> FALSE]

\* serviceScaleWorkerDiscovery: a scale that has connected is shown and noted.
Watched ==
    \E b \in Polled(ble) :
       /\ Up(b) => link.generation < MaxConnections
       /\ ble' = [b EXCEPT !.logged = b.phase = "Connecting"]
       /\ link' = IF Up(b) THEN Mark(link, TRUE) ELSE link
       /\ choice' = IF Up(b) THEN Note(choice, b.peer) ELSE choice

Scanning ==
    /\ \/ ble' \in Polled(ble) \cup {Scanned(Filter)}
       \/ choice.mode = "PREFER" /\ ble' = Scanned(Nobody)
    /\ UNCHANGED <<link, choice>>

Find ==
    /\ step.at = "find"
    /\ CASE Watching -> Watched
         [] ~Watching /\ ble.phase = "Scanning" -> Scanning
         [] ~Watching /\ ble.phase = "Idle" ->
              ble' \in {ble, Scanned(Filter)} /\ UNCHANGED <<link, choice>>
    /\ GoOn("top")
    /\ UNCHANGED <<commands, results, unread, beeps, stored, changing, load>>

\* The worker is held up inside a radio operation, or comes back from it.
Stalling ==
    /\ load = "commands"
    /\ link' = [link EXCEPT !.stalled = ~@]
    /\ UNCHANGED <<ble, choice, step, commands, results, unread, beeps, stored,
                   changing, load>>

WorkerStep ==
    \/ Top \/ LinkReset \/ Adopt \/ Serve \/ Show \/ Command \/ Beep \/ Search \/ Rest
    \/ FindReset \/ Find \/ Stalling

-----------------------------------------------------------------------------
(* The control task *)

\* Every choice asks the worker to look again.
Asked(c, reason) == [c EXCEPT !.reasons = @ \cup {reason}, !.made = @ + 1]

Choose(c) ==
    /\ load = "choices" /\ choice.made < MaxChoices /\ stored.copy = NoCopy
    /\ choice' = c
    /\ UNCHANGED <<ble, link, step, commands, results, unread, beeps, stored,
                   load>>

\* selectPreferredScale and clearPreferredScaleSelectionOnly
Select ==
    /\ changing = NoMode
    /\ \E m \in (Scales \cup {Nobody}) \ {choice.mac} :
          Choose(Asked([choice EXCEPT !.mac = m, !.dirty = TRUE,
                                      !.paused = FALSE], "IDENTITY"))
    /\ UNCHANGED changing

\* clearPreferredScaleCache
Forget ==
    /\ changing = NoMode
    /\ Choose(Asked([choice EXCEPT !.mac = Nobody, !.dirty = TRUE,
                                   !.paused = TRUE], "IDENTITY"))
    /\ UNCHANGED changing

\* A new mode is published before the worker is asked to apply it.
PublishMode(m) ==
    Choose([choice EXCEPT !.mode = m]) /\ changing' = m

ChangeMode ==
    /\ changing = NoMode
    /\ \E m \in Modes \ {choice.mode} : PublishMode(m)

RequestReset ==
    /\ changing # NoMode
    /\ choice' = Asked(choice, "MODE")
    /\ changing' = NoMode
    /\ UNCHANGED <<ble, link, step, commands, results, unread, beeps, stored,
                   load>>

PauseOver ==
    /\ choice.paused
    /\ choice' = [choice EXCEPT !.paused = FALSE]
    /\ UNCHANGED <<ble, link, step, commands, results, unread, beeps, stored,
                   changing, load>>

\* dispatchSettingsPersist: whatever a save is for, it takes the preferred
\* scale along as it is then.  The save may fail, and is then tried again.
Dispatch ==
    /\ load = "choices" /\ ~stored.saving /\ stored.copy = NoCopy
    /\ stored' = [stored EXCEPT !.mac = choice.mac, !.saving = TRUE]
    /\ UNCHANGED <<ble, link, choice, step, commands, results, unread, beeps,
                   changing, load>>

SaveFails ==
    /\ stored.saving /\ stored.copy = NoCopy
    /\ stored' = [stored EXCEPT !.saving = FALSE]
    /\ UNCHANGED <<ble, link, choice, step, commands, results, unread, beeps,
                   changing, load>>

\* A copy of the preferred scale, which the worker may change meanwhile: when a
\* save has ended (serviceSettingsPersistResult), or because it is marked as
\* changed (servicePreferredScaleMacPersistence).
Copy ==
    /\ load = "choices" /\ stored.copy = NoCopy
    /\ \E saved \in BOOLEAN :
          /\ IF saved THEN stored.saving ELSE choice.dirty
          /\ stored' = [stored EXCEPT !.copy = [mac |-> choice.mac,
                                               saved |-> saved],
                                     !.saving = @ /\ ~saved]
    /\ UNCHANGED <<ble, link, choice, step, commands, results, unread, beeps,
                   changing, load>>

\* What is decided from the copy: the mark goes if the copy is what was given
\* to a save last; if not, it stays, and the copy is queued for a save only by
\* the service, and not over a link or a save under way.
Decide ==
    /\ stored.copy # NoCopy
    /\ choice' = [choice EXCEPT !.dirty = @ /\ stored.copy.mac # stored.mac]
    /\ stored' \in
          {[stored EXCEPT !.copy = NoCopy]} \cup
          {[stored EXCEPT !.copy = NoCopy, !.mac = m] :
             m \in IF stored.copy.saved \/ link.connected \/ stored.saving THEN {}
                   ELSE {stored.copy.mac}}
    /\ UNCHANGED <<ble, link, step, commands, results, unread, beeps, changing,
                   load>>

\* enqueueScaleCommand.  A tare is executed like a stop.
Enqueue ==
    /\ load = "commands" /\ Len(commands) < CommandLength
    /\ \E c \in [type : {"START", "STOP"}, cycle : WorkerCycles] :
          commands' \in {Append(commands, c), <<c>> \o commands}
    /\ UNCHANGED <<ble, link, choice, step, results, unread, beeps, stored,
                   changing, load>>

AskBeep ==
    /\ load = "beeps"
    /\ beeps' \in {beeps \cup {"brew"}, {}}
    /\ UNCHANGED <<ble, link, choice, step, commands, results, unread, stored,
                   changing, load>>

\* processScaleWorkerEvents: the slots, the weight, then the queue.
Read(result) == unread' = unread \ {result}

TakeEvent ==
    /\ \/ /\ results.other # NoResult
          /\ Read(results.other)
          /\ results' = [results EXCEPT !.other = NoResult]
       \/ /\ results.other = NoResult /\ results.start # NoResult
          /\ Read(results.start)
          /\ results' = [results EXCEPT !.start = NoResult]
       \/ /\ results.other = NoResult /\ results.start = NoResult
          /\ results.weight # 0
          /\ results' = [results EXCEPT !.weight = 0]
          /\ UNCHANGED unread
       \/ /\ results.other = NoResult /\ results.start = NoResult
          /\ results.weight = 0 /\ results.queue # <<>>
          /\ Read(Head(results.queue))
          /\ results' = [results EXCEPT !.queue = Tail(@)]
    /\ UNCHANGED <<ble, link, choice, step, commands, beeps, stored, changing, load>>

ControlStep ==
    \/ Select \/ Forget \/ ChangeMode \/ RequestReset \/ PauseOver
    \/ Dispatch \/ SaveFails \/ Copy \/ Decide \/ Enqueue \/ AskBeep \/ TakeEvent

WorkerInit ==
    /\ ble = [phase |-> "Idle", filter |-> Nobody, peer |-> Nobody,
              logged |-> FALSE]
    /\ link = [connected |-> FALSE, generation |-> 0, edge |-> FALSE,
               chime |-> FALSE, stalled |-> FALSE]
    /\ stored = [mac |-> Nobody, copy |-> NoCopy, saving |-> FALSE]
    /\ choice \in [mac : {Nobody}, mode : Modes, paused : {FALSE},
                   dirty : {FALSE}, reasons : {{}}, made : {0}]
    /\ step = [at |-> "top", reasons |-> {}]
    /\ commands = <<>> /\ unread = {} /\ beeps = {}
    /\ results = [queue |-> <<>>, start |-> NoResult, other |-> NoResult,
                  weight |-> 0]
    /\ changing = NoMode
    /\ load \in {"choices", "commands", "beeps"}
    /\ load # "choices" => choice.mode = "FIRST"

WorkerNext == WorkerStep \/ ControlStep
WorkerSpec == WorkerInit /\ [][WorkerNext]_workerVars

-----------------------------------------------------------------------------
(* Properties *)

\* Once the worker has looked at the last choice, it holds: while the search
\* is paused nothing is searched, connected or up, and with ONLY no other
\* scale than the preferred one stays up, whatever the worker was doing when
\* the user chose.
ChoiceHeld ==
    (choice.reasons = {} /\ changing = NoMode
       /\ step.at \notin {"linkReset", "findReset"}) =>
       /\ choice.paused => ble.phase = "Idle"
       /\ choice.mode = "ONLY" /\ choice.mac # Nobody /\ Up(ble) =>
             ble.peer = choice.mac

\* The worker keeps what the brew cycle counts on (module ScaleLink): every
\* connection has a generation of its own, commands are taken in order, each
\* is answered at most once, and none succeeds on a scale that is not linked.
Promised == INSTANCE ScaleLink WITH
    CycleIds <- WorkerCycles, QueueLength <- CommandLength,
    MaxAnswers <- MaxUnread,
    connected <- link.connected, generation <- link.generation,
    stalled <- link.stalled, requests <- commands, answers <- unread
PromisedStep == [Promised!LinkNext]_(Promised!linkVars)
KeepsPromise == Promised!InitLink /\ [][PromisedStep]_workerVars
=============================================================================
