------------------------------- MODULE History --------------------------------
(***************************************************************************)
(* The history of the shots: the log, the curves and the last shot         *)
(* (ShotStopperShotLog.h, ShotStopperShotCurve.h, ShotStopperLastShot.h).  *)
(* Each is a store in memory with a copy in flash.  The control loop adds  *)
(* a shot to all three and writes what is dirty whenever the machine is    *)
(* idle; the web server changes them on request and writes at once.  Only  *)
(* the writing is under the lock of the flash: a save computes the         *)
(* checksum, yields, and only then copies the memory, which the other task *)
(* may have changed.                                                       *)
(*                                                                         *)
(* A key of NVS changes as a whole or not at all.  A sector of the curve   *)
(* partition is erased, then written, and torn by a crash in between.      *)
(***************************************************************************)
EXTENDS Integers, Sequences, SequencesExt

CONSTANTS
    Capacity,       \* shots that a store holds
    MaxShots,       \* bound on the shots of a behaviour
    MaxChanges,     \* bound on the requests of the web server
    MaxFailures,    \* bound on the failed writes and late locks
    MaxCrashes      \* bound on the restarts

VARIABLES
    ram,        \* the stores in memory; [curves].slot is activeSlot_
    dirty,      \* the stores whose memory is newer than their flash
    flash,      \* [log, curves, last]
    writing,    \* the save under way, and whose it is
    flush,      \* the stores that this pass of the loop has still to look at
    http,       \* what the web server has still to do for a request
    used,       \* [shots, changes, failures, crashes]
    accepted,   \* history: the contents a reader may find, for each store
    setBack,    \* history: the generation of the curves was set back
    torn        \* history: the stores whose last save was one of a torn copy

historyVars ==
    <<ram, dirty, flash, writing, flush, http, used, accepted, setBack, torn>>

Stores == {"log", "curves", "last"}
Order == <<"log", "curves", "last">>
Idle == [by |-> "none"]
Nothing == [valid |-> FALSE]
Valid(data) == [valid |-> TRUE, data |-> data]

NoLog == [shots |-> <<>>, next |-> 1]
NoCurves == [ids |-> <<>>, generation |-> 1]
NoLast == [shot |-> 0, rating |-> 0]
Empty == [log |-> NoLog, curves |-> NoCurves, last |-> NoLast]

HistoryInit ==
    /\ ram = [log |-> NoLog, curves |-> NoCurves, last |-> NoLast, slot |-> 0]
    /\ dirty = {} /\ writing = Idle /\ flush = <<>> /\ http = <<>>
    /\ flash = [log |-> [active |-> 2, slots |-> [s \in 0..1 |-> Nothing]],
                curves |-> [s \in 0..1 |-> Nothing], last |-> Nothing]
    /\ used = [shots |-> 0, changes |-> 0, failures |-> 0, crashes |-> 0]
    /\ accepted = [store \in Stores |-> {Empty[store]}]
    /\ setBack = FALSE /\ torn = {}

-----------------------------------------------------------------------------
(* What load() finds *)

\* The slot that the pointer names, else slot A, else slot B
LogSlot ==
    LET valid == {s \in 0..1 : flash.log.slots[s].valid} IN
    CASE flash.log.active \in valid -> flash.log.active
      [] flash.log.active \notin valid /\ 0 \in valid -> 0
      [] flash.log.active \notin valid /\ 0 \notin valid /\ 1 \in valid -> 1
      [] OTHER -> 2

\* The slot with the newer generation
CurveSlot ==
    LET valid == {s \in 0..1 : flash.curves[s].valid}
        newer == \/ 0 \notin valid
                 \/ /\ 1 \in valid
                    /\ flash.curves[1].data.generation > flash.curves[0].data.generation
    IN  IF newer /\ 1 \in valid THEN 1 ELSE 0

Kept(store) ==
    CASE store = "log" -> IF LogSlot = 2 THEN Nothing ELSE flash.log.slots[LogSlot]
      [] store = "curves" -> flash.curves[CurveSlot]
      [] OTHER -> flash.last
Found(store) == IF Kept(store).valid THEN Kept(store).data ELSE Empty[store]

\* load(): without the lock the store in memory is reset.
Reload(store, locked) ==
    [ram EXCEPT ![store] = IF locked THEN Found(store) ELSE Empty[store],
                !.slot = IF store = "curves" /\ locked THEN CurveSlot ELSE @]

\* load() of a log that it does not find where the pointer says saves what it found.
Rewritten(store) ==
    {flash} \cup
    IF store = "log" /\ flash.log.active # 2 /\ LogSlot \notin {2, flash.log.active}
    THEN {[flash EXCEPT !.log.active = LogSlot]} ELSE {}

-----------------------------------------------------------------------------
(* Changes of a store in memory *)

Bounded(seq) == IF Len(seq) > Capacity THEN Tail(seq) ELSE seq
LoggedIds == {ram.log.shots[i].id : i \in 1..Len(ram.log.shots)}
CurveIds == ToSet(ram.curves.ids)

Appended(log, rating) ==
    [shots |-> Bounded(Append(log.shots, [id |-> log.next, rating |-> rating])),
     next |-> log.next + 1]

\* c is [change, id]: "rate", "remove", "clear", or "none".
Changed(store, c) ==
    CASE c.change = "clear" -> Empty[store]
      [] c.change = "rate" /\ store = "log" ->
           [ram.log EXCEPT !.shots =
               [i \in DOMAIN @ |-> IF @[i].id = c.id THEN [@[i] EXCEPT !.rating = 1]
                                   ELSE @[i]]]
      [] c.change = "rate" /\ store = "last" -> [ram.last EXCEPT !.rating = 1]
      [] c.change = "remove" /\ store = "log" ->
           [ram.log EXCEPT !.shots = SelectSeq(@, LAMBDA r : r.id # c.id)]
      [] c.change = "remove" /\ store = "curves" ->
           [ram.curves EXCEPT !.ids = SelectSeq(@, LAMBDA i : i # c.id)]
      [] OTHER -> ram[store]

-----------------------------------------------------------------------------
(* Saving *)

\* A save counts the generation of the curves up.
Prepared(store, data) ==
    IF store = "curves" THEN [data EXCEPT !.generation = @ + 1] ELSE data

\* mutant: the curves are written over the slot they were loaded from
FaultyTarget(store) ==
    IF store = "curves" THEN ram.slot
    ELSE 1 - (IF flash.log.active = 2 THEN 0 ELSE flash.log.active)

\* The slot that is not the active one
Target(store) ==
    IF store = "curves" THEN 1 - ram.slot
    ELSE 1 - (IF flash.log.active = 2 THEN 0 ELSE flash.log.active)

FirstStep(store) == IF store = "curves" THEN "erase" ELSE "put"

\* The checksum is computed under the lock.
Begin(by, store, data) ==
    /\ ram' = [ram EXCEPT ![store] = Prepared(store, data)]
    /\ writing' = [by |-> by, store |-> store, data |-> Prepared(store, data),
                   slot |-> IF store = "last" THEN 0 ELSE Target(store),
                   step |-> "copy", whole |-> TRUE]

\* The copy is of the memory as it is now.  A change since the checksum shows in it,
\* except that a reset and a new last shot compute the checksum again.
Copy ==
    LET now == ram[writing.store]
        whole == writing.store = "last" \/ now \in {writing.data, Empty[writing.store]}
    IN
    /\ writing # Idle /\ writing.step = "copy"
    /\ writing' = [writing EXCEPT !.data = now, !.whole = whole,
                                  !.step = FirstStep(writing.store)]
    /\ accepted' = [accepted EXCEPT ![writing.store] = @ \cup {now}]
    /\ UNCHANGED <<ram, dirty, flash, flush, http, used, setBack, torn>>

\* What a reader finds of the copy
Copied == IF writing.whole THEN Valid(writing.data) ELSE Nothing

\* A step of the save that succeeds; the last one ends it.
InFlash ==
    LET w == writing IN
    CASE w.step = "erase" -> [flash EXCEPT !.curves[w.slot] = Nothing]
      [] w.step = "write" -> [flash EXCEPT !.curves[w.slot] = Copied]
      [] w.step = "put" /\ w.store = "log" -> [flash EXCEPT !.log.slots[w.slot] = Copied]
      [] w.step = "put" /\ w.store = "last" -> [flash EXCEPT !.last = Copied]
      [] OTHER -> [flash EXCEPT !.log.active = w.slot]

MoreSteps ==
    \/ writing.step = "erase"
    \/ writing.step = "put" /\ writing.store = "log"

TornNow == IF writing.whole THEN torn \ {writing.store} ELSE torn \cup {writing.store}

\* The save takes a torn copy for a good one.
WriteStep ==
    /\ writing # Idle /\ writing.step # "copy"
    /\ flash' = InFlash
    /\ IF MoreSteps
       THEN /\ writing' = [writing EXCEPT !.step = IF @ = "erase" THEN "write" ELSE "point"]
            /\ UNCHANGED <<ram, dirty, flush, http, accepted, torn>>
       ELSE /\ writing' = Idle
            /\ dirty' = dirty \ {writing.store}
            /\ ram' = [ram EXCEPT !.slot = IF writing.store = "curves" THEN writing.slot ELSE @]
            /\ accepted' = [accepted EXCEPT ![writing.store] = {writing.data}]
            /\ torn' = TornNow
            /\ flush' = IF writing.by = "loop" THEN Tail(flush) ELSE flush
            /\ http' = IF writing.by = "http" THEN Tail(http) ELSE http
    /\ UNCHANGED <<used, setBack>>

\* A save of the web server that failed: the store is loaded again, the rest of
\* the request is dropped.  The last shot stays dirty instead.
Failed(store, locked) ==
    /\ http' = <<>>
    /\ IF store = "last"
       THEN /\ dirty' = IF Head(http).change = "rate" THEN dirty \cup {store} ELSE dirty
            /\ UNCHANGED <<ram, setBack>>
       ELSE /\ dirty' = dirty \ {store}
            /\ ram' = Reload(store, locked)
            /\ setBack' = (setBack \/ (store = "curves" /\ ~locked))

OneFailure ==
    /\ used.failures < MaxFailures
    /\ used' = [used EXCEPT !.failures = @ + 1]

WriteFails(locked) ==
    /\ writing # Idle /\ OneFailure
    /\ writing' = Idle
    /\ IF writing.by = "http"
       THEN Failed(writing.store, locked) /\ UNCHANGED flush
       ELSE /\ flush' = Tail(flush)
            /\ UNCHANGED <<ram, dirty, http, setBack>>
    /\ IF writing.step = "write"
       THEN flash' = [flash EXCEPT !.curves[writing.slot] = Nothing]
       ELSE IF writing.by = "http" /\ locked THEN flash' \in Rewritten(writing.store)
       ELSE UNCHANGED flash
    /\ UNCHANGED <<accepted, torn>>

-----------------------------------------------------------------------------
(* The control loop *)

\* pendingShotFinalizeTask: the last shot, then the log, then the curve
RecordShot(curve) ==
    LET id == ram.log.next IN
    /\ flush = <<>> /\ used.shots < MaxShots
    /\ used' = [used EXCEPT !.shots = @ + 1]
    /\ ram' = [ram EXCEPT !.last = [shot |-> id, rating |-> 0],
                          !.log = Appended(@, 0),
                          !.curves.ids = IF curve THEN Bounded(Append(@, id)) ELSE @]
    /\ dirty' = dirty \cup {"log", "last"} \cup (IF curve THEN {"curves"} ELSE {})
    /\ UNCHANGED <<flash, writing, flush, http, accepted, setBack, torn>>

\* serviceShotStorePersistence, store by store; a store whose lock is taken is
\* left for the next pass.
BeginFlush ==
    /\ flush = <<>> /\ dirty # {}
    /\ flush' = Order
    /\ UNCHANGED <<ram, dirty, flash, writing, http, used, accepted, setBack, torn>>

FlushNext ==
    /\ flush # <<>> /\ writing.by # "loop"
    /\ \/ /\ writing = Idle /\ Head(flush) \in dirty
          /\ Begin("loop", Head(flush), ram[Head(flush)])
          /\ UNCHANGED <<flush, used>>
       \/ /\ writing # Idle \/ Head(flush) \notin dirty
          /\ flush' = Tail(flush)
          /\ UNCHANGED <<ram, writing, used>>
       \/ /\ writing = Idle /\ Head(flush) \in dirty /\ OneFailure
          /\ flush' = Tail(flush)
          /\ UNCHANGED <<ram, writing>>
    /\ UNCHANGED <<dirty, flash, http, accepted, setBack, torn>>

-----------------------------------------------------------------------------
(* The web server *)

\* made: the memory holds the change; a removal is made under the lock.
Task(store, change, id) ==
    [store |-> store, change |-> change, id |-> id, made |-> change \notin {"rate", "clear"}]
TaskIf(may, task) == IF may THEN <<task>> ELSE <<>>
Made(t) == [store |-> t.store, change |-> t.change, id |-> t.id, made |-> TRUE]

\* deleteShotRecord, clearShotLog, clearLastShot, rateShotRecord, rateLastShot,
\* and the history part of resetAllDurableStores
Requests ==
    {TaskIf(i \in CurveIds, Task("curves", "remove", i))
       \o TaskIf(i \in LoggedIds, Task("log", "remove", i)) :
         i \in CurveIds \cup LoggedIds}
    \cup {<<Task("curves", "clear", 0), Task("log", "clear", 0)>>,
          <<Task("last", "clear", 0)>>,
          <<Task("log", "erase", 0), Task("last", "erase", 0), Task("log", "clear", 0),
            Task("curves", "clear", 0), Task("last", "clear", 0), Task("log", "verify", 0),
            Task("curves", "verify", 0), Task("last", "verify", 0)>>}
    \cup {<<Task("log", "rate", i)>> \o TaskIf(ram.last.shot = i, Task("last", "rate", i)) :
            i \in LoggedIds}
    \cup {<<Task("last", "rate", i)>> : i \in {ram.last.shot} \ (LoggedIds \cup {0})}

Request(tasks) ==
    /\ http = <<>> /\ used.changes < MaxChanges
    /\ http' = tasks
    /\ used' = [used EXCEPT !.changes = @ + 1]
    /\ UNCHANGED <<ram, dirty, flash, writing, flush, accepted, setBack, torn>>

\* The shot has left the store since the request.
Gone(t) ==
    \/ t.store = "log" /\ t.change \in {"rate", "remove"} /\ t.id \notin LoggedIds
    \/ t.store = "curves" /\ t.change = "remove" /\ t.id \notin CurveIds

\* updateRating, clear and adopt change the memory without the lock.
Make ==
    LET t == Head(http) IN
    /\ http # <<>> /\ ~t.made /\ writing.by # "http"
    /\ IF Gone(t)
       THEN http' = <<>> /\ UNCHANGED <<ram, dirty, setBack>>
       ELSE /\ http' = [http EXCEPT ![1] = Made(t)]
            /\ ram' = [ram EXCEPT ![t.store] = Changed(t.store, t)]
            /\ dirty' = IF t.store = "last" /\ t.change = "clear" THEN dirty \ {"last"} ELSE dirty
            /\ setBack' = (setBack \/ (t.store = "curves" /\ t.change = "clear"))
    /\ UNCHANGED <<flash, writing, flush, used, accepted, torn>>

\* erasePersisted and load() do not save; locked: the lock came in time.
Erase(store) ==
    /\ flash' = IF store = "log"
                THEN [flash EXCEPT !.log = [active |-> 2, slots |-> [s \in 0..1 |-> Nothing]]]
                ELSE [flash EXCEPT !.last = Nothing]
    /\ ram' = [ram EXCEPT ![store] = Empty[store]]
    /\ accepted' = [accepted EXCEPT ![store] = {Empty[store]}]
    /\ torn' = torn \ {store}
    /\ dirty' = IF store = "log" THEN dirty \ {store} ELSE dirty
    /\ http' = Tail(http)
    /\ UNCHANGED writing

Verify(store) ==
    /\ ram' = Reload(store, TRUE)
    /\ flash' \in Rewritten(store)
    /\ dirty' = IF store = "last" THEN dirty ELSE dirty \ {store}
    /\ http' = Tail(http)
    /\ UNCHANGED <<writing, accepted, torn>>

Serve ==
    LET t == Head(http) IN
    /\ http # <<>> /\ t.made /\ writing = Idle
    /\ CASE t.change = "erase" -> Erase(t.store)
         [] t.change = "verify" -> Verify(t.store)
         [] t.change = "remove" /\ Gone(t) ->
              /\ http' = <<>>
              /\ UNCHANGED <<ram, dirty, flash, writing, accepted, torn>>
         [] OTHER ->
              /\ Begin("http", t.store,
                       IF t.change = "remove" THEN Changed(t.store, t) ELSE ram[t.store])
              /\ UNCHANGED <<dirty, flash, http, accepted, torn>>
    /\ UNCHANGED <<flush, used, setBack>>

\* The lock does not come in time: a removal gives up, an erase goes on, and the
\* others have changed the memory by then.
ServeLate(locked) ==
    LET t == Head(http) IN
    /\ http # <<>> /\ t.made /\ writing.by # "http"
    /\ locked => writing = Idle
    /\ OneFailure
    /\ CASE t.change = "erase" ->
              /\ http' = Tail(http) /\ UNCHANGED <<ram, dirty, flash, setBack>>
         [] t.change = "remove" ->
              /\ http' = <<>> /\ UNCHANGED <<ram, dirty, flash, setBack>>
         [] OTHER ->
              /\ Failed(t.store, locked)
              /\ IF locked THEN flash' \in Rewritten(t.store) ELSE UNCHANGED flash
    /\ UNCHANGED <<writing, flush, accepted, torn>>

-----------------------------------------------------------------------------
(* A restart: the stores are loaded and the log is saved with its new boot id. *)

\* What the flash holds after a crash in the middle of a step
AfterCrash(done) ==
    CASE writing = Idle -> flash
      [] writing # Idle /\ writing.step = "write" ->
           [flash EXCEPT !.curves[writing.slot] = IF done THEN Copied ELSE Nothing]
      [] OTHER -> IF done THEN InFlash ELSE flash

Crash(done) ==
    /\ used.crashes < MaxCrashes
    /\ done => writing # Idle /\ writing.step # "copy"
    /\ flash' = AfterCrash(done)
    /\ used' = [used EXCEPT !.crashes = @ + 1]
    /\ writing' = [by |-> "boot"]
    /\ dirty' = {} /\ flush' = <<>> /\ http' = <<>>
    /\ torn' = IF done /\ ~MoreSteps THEN TornNow ELSE torn
    /\ UNCHANGED <<ram, accepted, setBack>>

\* No other task runs yet, so that the copy is whole.
Boot ==
    LET loaded == [log |-> Found("log"), curves |-> Found("curves"),
                   last |-> Found("last"), slot |-> CurveSlot] IN
    /\ writing = [by |-> "boot"]
    /\ ram' = loaded
    /\ flush' = <<"log">>
    /\ flash' \in Rewritten("log")
    /\ writing' = [by |-> "loop", store |-> "log", data |-> loaded.log,
                   slot |-> Target("log")', step |-> "put", whole |-> TRUE]
    /\ accepted' = [accepted EXCEPT !["log"] = @ \cup {loaded.log}]
    /\ UNCHANGED <<dirty, http, used, setBack, torn>>

Booted == writing # [by |-> "boot"]

HistoryNext ==
    \/ /\ Booted
       /\ \/ \E curve \in BOOLEAN : RecordShot(curve)
          \/ BeginFlush \/ FlushNext \/ Copy \/ WriteStep \/ Make \/ Serve
          \/ \E locked \in BOOLEAN : WriteFails(locked) \/ ServeLate(locked)
          \/ \E tasks \in Requests : Request(tasks)
          \/ \E done \in BOOLEAN : Crash(done)
    \/ Boot

HistorySpec == HistoryInit /\ [][HistoryNext]_historyVars

-----------------------------------------------------------------------------
(* Properties *)

\* Whatever fails or is cut short, a store that is loaded is the one saved last
\* or one whose save was attempted since.  (Clearing the curves sets their
\* generation back, after which the older slot may win: see `setBack`.  A save that
\* another task overtook reports a torn copy as saved: see `torn`.)
LoadFindsLastSave ==
    \A store \in Stores :
        \/ store = "curves" /\ setBack
        \/ store \in torn
        \/ Found(store) \in accepted[store]
-----------------------------------------------------------------------------
(* What LoadFindsLastSave rests on: the invariant of its proof *)

IsCurves(data) ==
    /\ data = [ids |-> data.ids, generation |-> data.generation]
    /\ data.generation \in Int

\* What a slot of the flash may be
IsSlot(kept) == kept = Nothing \/ \E data : kept = Valid(data)
IsCurveSlot(kept) == kept = Nothing \/ \E data : kept = Valid(data) /\ IsCurves(data)

MemoryShaped ==
    /\ ram = [log |-> ram.log, curves |-> ram.curves, last |-> ram.last, slot |-> ram.slot]
    /\ ram.slot \in 0..1
    /\ IsCurves(ram.curves)
    /\ accepted = [store \in Stores |-> accepted[store]]
    /\ setBack \in BOOLEAN /\ torn \subseteq Stores

FlashShaped ==
    /\ flash = [log |-> flash.log, curves |-> flash.curves, last |-> flash.last]
    /\ flash.log = [active |-> flash.log.active, slots |-> flash.log.slots]
    /\ flash.log.active \in 0..2
    /\ flash.log.slots = [s \in 0..1 |-> flash.log.slots[s]]
    /\ flash.curves = [s \in 0..1 |-> flash.curves[s]]
    /\ \A s \in 0..1 : IsSlot(flash.log.slots[s]) /\ IsCurveSlot(flash.curves[s])
    /\ IsSlot(flash.last)

\* The curves in slot s are the newer ones, and those in the other one, if any, older.
Newer(s) ==
    flash.curves[1 - s].valid =>
       /\ flash.curves[s].valid
       /\ flash.curves[1 - s].data.generation < flash.curves[s].data.generation

\* A save changes the slot that is not read, a reader may find its data, and of the
\* curves it is newer than what is read.
SaveShaped ==
    /\ writing = [by |-> writing.by, store |-> writing.store, data |-> writing.data,
                  slot |-> writing.slot, step |-> writing.step, whole |-> writing.whole]
    /\ writing.by \in {"loop", "http"} /\ writing.whole \in BOOLEAN
    /\ writing.by = "http" => http # <<>>
    /\ writing.step # "copy" => writing.data \in accepted[writing.store]
    /\ \/ writing.store = "last" /\ writing.step \in {"copy", "put"} /\ writing.whole
       \/ /\ writing.store = "log" /\ writing.step \in {"copy", "put", "point"}
          /\ writing.slot = Target("log")
          /\ writing.step = "point" => flash.log.slots[writing.slot] = Copied
       \/ /\ writing.store = "curves" /\ writing.step \in {"copy", "erase", "write"}
          /\ writing.slot = 1 - ram.slot
          /\ IsCurves(writing.data)
          /\ ~setBack =>
                /\ writing.data.generation <= ram.curves.generation
                /\ flash.curves[ram.slot].valid =>
                      flash.curves[ram.slot].data.generation < writing.data.generation

\* Nothing erases the curves but a save.
TasksShaped ==
    /\ dirty \subseteq Stores
    /\ \E tasks :
          /\ http \in Seq(tasks)
          /\ \A t \in tasks :
                /\ t = [store |-> t.store, change |-> t.change, id |-> t.id, made |-> t.made]
                /\ t.store \in Stores /\ (t.change = "erase" => t.store # "curves")

\* The pointer names a slot that can be read, or there has been no whole log yet.
LogKept ==
    /\ flash.log.active = 2 => Empty["log"] \in accepted["log"]
    /\ "log" \notin torn =>
          /\ Found("log") \in accepted["log"]
          /\ flash.log.active # 2 => flash.log.slots[flash.log.active].valid

HistoryKept ==
    /\ MemoryShaped /\ FlashShaped /\ TasksShaped
    /\ LogKept /\ Found("last") \in accepted["last"] /\ "last" \notin torn
    /\ ~setBack /\ "curves" \notin torn => Found("curves") \in accepted["curves"]
    /\ writing = Idle \/ ~Booted \/ SaveShaped
    /\ ~setBack /\ Booted =>
          /\ "curves" \notin torn => Newer(ram.slot)
          /\ flash.curves[ram.slot].valid =>
                flash.curves[ram.slot].data.generation <= ram.curves.generation
    /\ ~setBack /\ ~Booted /\ "curves" \notin torn => Newer(0) \/ Newer(1)
=============================================================================
