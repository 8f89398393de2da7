--------------------------- MODULE ServicesInvariants --------------------------
(***************************************************************************)
(* What the proofs about the services rest on: the inductive invariants,   *)
(* each over the variables as its subject means them, and the relations of *)
(* a state to the next that their steps are made of.  Those of services    *)
(* with a proof module of their own are stated there.                      *)
(***************************************************************************)
EXTENDS MCServices

-----------------------------------------------------------------------------
\* The buzzer (SoundHolds).

\* What QueuedIsHeard rests on: a sound waits only behind one that ends by itself, since a
\* looping one gives way at once.
WaitsBehindFinite ==
  /\ v1 = [playing |-> v1.playing, queued |-> v1.queued, tone |-> v1.tone,
           over |-> v1.over, armed |-> v1.armed]
  /\ v1.playing \in Sound!Sounds \cup {Sound!None}
  /\ v1.queued \in Sound!Sounds \cup {Sound!None}
  /\ v1.queued # Sound!None => v1.playing \notin Sound!Looping \cup {Sound!None}
  /\ v4 \in {"set", "unset"}

-----------------------------------------------------------------------------
\* The machine with a momentary switch: what closes K1 (ExplainedHolds).

\* The fields of a machine with a momentary switch
Shaped(m) ==
  /\ m = [relay |-> m.relay, tripped |-> m.tripped, phys |-> m.phys,
          gesture |-> m.gesture, pre |-> m.pre, fromIdle |-> m.fromIdle,
          rinseSent |-> m.rinseSent, edges |-> m.edges, skip |-> m.skip, run |-> m.run,
          pulse |-> m.pulse, allowed |-> m.allowed, suppressed |-> m.suppressed,
          rinsing |-> m.rinsing, given |-> m.given, view |-> m.view]
  /\ m.phys \in BOOLEAN /\ m.pulse \in BOOLEAN /\ m.suppressed \in BOOLEAN

\* K1, the switch and the pulse of n are those of m.
Untouched(m, n) ==
  /\ Shaped(n)
  /\ n.relay = m.relay /\ n.phys = m.phys
  /\ n.pulse = m.pulse /\ n.suppressed = m.suppressed

\* K1 is closed for a press or a pulse; as the switch is read, for a press that is forwarded.
Explained(m) == Switch!Closed(m) => m.pulse \/ m.phys
Forwarding(m) == Switch!Closed(m) => m.pulse \/ (m.phys /\ ~m.suppressed)

\* What is asked of the machine between two readings of the switch closes K1 for nothing.
Keeps(m, n) ==
  /\ Shaped(n) /\ n.phys = m.phys
  /\ Explained(m) => Explained(n)

\* What ClosedIsExplained rests on, at each step of a pass
K1Explained ==
  /\ Shaped(v1)
  /\ IF v3 = "service" THEN Forwarding(v1) ELSE Explained(v1)

-----------------------------------------------------------------------------
\* The machine with a momentary switch: how often the group is toggled (StopsOnceHolds).

\* Of a machine n that m becomes: the fields outside of F are those of m.
MachineFields ==
  {"relay", "tripped", "phys", "gesture", "pre", "fromIdle", "rinseSent", "edges", "skip",
   "run", "pulse", "allowed", "suppressed", "rinsing", "given", "view"}
Alters(m, n, F) ==
  /\ DOMAIN n = MachineFields
  /\ \A k \in MachineFields \ F : n[k] = m[k]
SameBuild(m, n) == DOMAIN n.view = DOMAIN m.view /\ n.view.kind = m.view.kind

Formed(m) ==
  /\ DOMAIN m = MachineFields
  /\ "kind" \in DOMAIN m.view
  /\ ~Switch!HasReed(m) => {"state", "stopAck", "retry", "cut"} \subseteq DOMAIN m.view

\* What toggles the group since the last reason to stop it: the press or one pulse, and
\* the pulse of a limit in a rinse with the one that ends the rinse.
Toggles ==
  {<<>>, <<"press">>, <<"stop">>, <<"rinse">>, <<"wall">>, <<"wall", "rinse">>}

\* A group that was toggled since the last reason to stop it does not run, and a stop that
\* waits to be seen in the weight leaves the view off.
Tallied(m) ==
  /\ Formed(m)
  /\ m.given \in Toggles /\ (m.run => m.given = <<>>)
  /\ ~Switch!HasReed(m) /\ m.view.stopAck =>
       m.view.state \in {"CONFIRMED_OFF", "ASSUMED_OFF", "UNKNOWN"}
\* No retry is asked for; or one of a stop that waits and had a pulse.
Calm(m) == ~Switch!HasReed(m) => ~m.view.retry
Owed(m) == ~Switch!HasReed(m) /\ m.view.retry => m.view.stopAck /\ m.view.cut
Uncut(m) == ~Switch!HasReed(m) => ~m.view.cut

\* What a note of the control code leaves of m
Noted(m, n) ==
  /\ Formed(n) /\ SameBuild(m, n) /\ Alters(m, n, {"run", "given", "view"})
  /\ Calm(m) => Calm(n)
  /\ Uncut(m) => Uncut(n)
\* What the sensors leave of m
Sensed(m, n) ==
  /\ Tallied(n) /\ SameBuild(m, n) /\ Alters(m, n, {"run", "given", "edges", "view"})
  /\ n.edges \in {m.edges, m.edges \cup {"off"}}
  /\ n.given \in {<<>>, m.given}
  /\ Uncut(m) => Uncut(n)

\* What StopsOnce rests on: no run and no rinse begins with a toggle behind it, and a brew
\* in which the group has been toggled ends in the pass of that toggle, by a step that
\* knows of it: by the press, or by a pulse that is still under way.  So does a rinse: its
\* limit has tripped, and the end of the rinse is what follows.
Counted(m, state) ==
  /\ Tallied(m) /\ Calm(m)
  /\ m.rinsing <=> state = "RINSE"
  /\ m.rinsing => /\ Switch!Closed(m) => m.pulse
                  /\ \/ m.given = <<>> /\ Uncut(m)
                     \/ m.given = <<"wall">> /\ m.tripped
StopCounted ==
  /\ Counted(v1, v2.state)
  /\ v3 = "input" => v1.edges = {}
  /\ v2.state = "RINSE" /\ v1.given # <<>> => v3 = "control"
  /\ v2.state = "BREW" /\ v1.given # <<>> =>
       /\ v3 # "input"
       /\ \/ v1.skip = TRUE /\ "off" \in v1.edges /\ v1.edges \cap {"on", "rinse"} = {}
          \/ v3 = "control" /\ v1.tripped /\ v1.pulse

-----------------------------------------------------------------------------
\* The link of the scale worker (PromiseHolds).

\* A client of the scale library as the worker sees it.
ShapedBle(b) ==
  /\ b = [phase |-> b.phase, filter |-> b.filter, peer |-> b.peer, logged |-> b.logged]
  /\ b.phase \in {"Idle", "Scanning", "Connecting", "Up"}
  /\ b.logged \in BOOLEAN

\* What the promise of the worker rests on: a scale that is up is shown as connected,
\* or the worker still watches it coming up, and between the live check of the link and
\* the next pass nothing else can have brought one up.
LinkShown ==
  /\ v2 = [connected |-> v2.connected, generation |-> v2.generation,
           edge |-> v2.edge, chime |-> v2.chime, stalled |-> v2.stalled]
  /\ v2.connected \in BOOLEAN
  /\ ShapedBle(v1)
  /\ Worker!Up(v1) /\ ~v1.logged => v2.connected
  /\ v4.at \in {"linkReset", "adopt", "serve"} => Worker!Up(v1)
  /\ v4.at \in {"findReset", "find"} /\ Worker!Up(v1) => v1.logged

-----------------------------------------------------------------------------
\* The choice of a scale (ChoiceHolds).

\* What the user's choice is.
ShapedChoice(c) ==
  c = [mac |-> c.mac, mode |-> c.mode, paused |-> c.paused, dirty |-> c.dirty,
       reasons |-> c.reasons, made |-> c.made]

\* The client does what the choice asks for: searching or connecting as well as up.
Fits(b, c) ==
  /\ c.paused => b.phase = "Idle"
  /\ c.mode = "ONLY" /\ c.mac # Worker!Nobody =>
       /\ b.phase \in {"Scanning", "Connecting"} => b.filter = c.mac
       /\ b.phase \in {"Connecting", "Up"} => b.peer = c.mac

\* What ChoiceHeld rests on: the client fits the choice unless the worker still has to
\* look at it, because its reasons wait, have been taken but not applied, or are to follow
\* a mode; and a search never begins on a choice that was paused before.
ChoiceKept ==
  /\ ShapedChoice(v3)
  /\ (/\ v3.reasons = {} /\ v10 = Worker!NoMode
      /\ v4.at \in {"linkReset", "findReset"} => v4.reasons = {}) => Fits(v1, v3)
  /\ v4.at = "find" /\ v3.paused => v3.reasons # {}

-----------------------------------------------------------------------------
\* The client of the scale library (EndHolds).

\* The world of the client as its steps see it: w.c is the client, w.m what is left for it,
\* w.r the radio; k is the callback in progress.
ClientFields ==
  {"state", "live", "generation", "last", "scan", "link", "gatt", "handle", "peer",
   "filter", "waited", "queued", "cooling", "commanding", "rejected", "sync"}
MailFields == {"critical", "candidate", "control", "rx", "answer", "flags"}
RadioFields == {"ready", "sync", "scanning", "connecting", "links", "gatt"}
Joined == Client!Procedures \cup {"Ready"}
Reports ==
  [generation : Int, type : {"ScanComplete", "Connected", "Disconnected"}, op : Int,
   status : {"ended", "ok", "failed", "unestablished", "lost"}, handle : 0 .. 2]

\* An event that tells the client c that its link is up, or that it is down
Opens(e, c) == e.type = "Connected" /\ e.status = "ok" /\ e.op = c.link
Closes(e, c) == e.type = "Disconnected" /\ e.op = c.link
Carries(e, c) == Opens(e, c) \/ Closes(e, c)
\* The client knows the handle of its link, or learns it before event n.
Met(w, n) ==
  \/ w.c.handle # 0 \/ "critical" \in w.m.flags
  \/ \E i \in DOMAIN w.m.critical : i < n /\ Opens(w.m.critical[i], w.c)
Tells(w, k, type, op) ==
  \/ k.type = type /\ k.op = op
  \/ \E i \in DOMAIN w.m.critical : w.m.critical[i].type = type /\ w.m.critical[i].op = op
  \/ "critical" \in w.m.flags

\* The event of callback k as it is queued
Marked(k, generation) ==
  [f \in DOMAIN k \cup {"generation"} |-> IF f = "generation" THEN generation ELSE k[f]]

\* The shape of the world, and that operations are numbered as they begin
Fields(w) ==
  /\ DOMAIN w = {"c", "m", "r"}
  /\ DOMAIN w.c = ClientFields /\ DOMAIN w.m = MailFields /\ DOMAIN w.r = RadioFields
Numbered(w) ==
  /\ w.c.last \in Nat /\ w.c.generation \in Int
  /\ w.c.scan \in 0 .. w.c.last /\ w.c.link \in 0 .. w.c.last
  /\ w.c.handle \in 0 .. 2
  /\ w.c.sync \in Int /\ w.r.sync \in Int /\ w.c.sync <= w.r.sync
Posted(m, last) ==
  /\ m.critical \in Seq(Reports)
  /\ \A i \in DOMAIN m.critical : m.critical[i].op \in 1 .. last
  /\ m.candidate = Client!NoCall \/ m.candidate.type = "Candidate"
Calling(k, last) ==
  \/ k.type \notin {"Candidate", "ScanComplete", "Connected", "Disconnected"}
  \/ k.type = "Candidate" /\ k = [type |-> k.type, op |-> k.op, peer |-> k.peer]
  \/ /\ k.type # "Candidate"
     /\ k = [type |-> k.type, op |-> k.op, status |-> k.status, handle |-> k.handle]
     /\ k.op \in 1 .. last /\ k.handle \in 0 .. 2
     /\ k.status \in {"ended", "ok", "failed", "unestablished", "lost"}
OnAir(r, last) ==
  /\ r.scanning \in 0 .. last
  /\ \/ r.connecting = Client!NoCall
     \/ r.connecting.type = "connect" /\ r.connecting.op \in 1 .. last
  /\ \A l \in r.links : /\ l = [op |-> l.op, handle |-> l.handle]
                        /\ l.op \in 1 .. last /\ l.handle \in 1 .. 2
Formal(w, k) ==
  /\ Fields(w) /\ Numbered(w)
  /\ Posted(w.m, w.c.last) /\ Calling(k, w.c.last) /\ OnAir(w.r, w.c.last)
\* What the state of the client says of its link
Staged(w) ==
  /\ w.c.state \in {"Idle", "Connecting"} \cup Client!Searching \cup Joined
  /\ w.c.live <=> w.c.state # "Idle"
  /\ w.c.state \in Client!Searching \cup {"Idle"} => w.c.link = 0
  /\ w.c.state \in {"Connecting"} \cup Joined => w.c.link # 0
  /\ w.c.state \in Joined <=> w.c.handle # 0

\* A search that goes on has its scan, the end of it, or the candidate it chose.
Searched(w) ==
  w.c.state \in Client!Searching =>
    /\ w.c.scan # 0
    /\ w.c.queued => w.m.candidate # Client!NoCall
    /\ w.m.candidate # Client!NoCall =>
         /\ w.m.candidate.generation = w.c.generation /\ w.m.candidate.op = w.c.scan
         /\ w.c.state = "Backoff" => w.m.candidate.peer = w.c.waited
    /\ \A i \in DOMAIN w.m.critical :
         w.m.critical[i].type = "ScanComplete" /\ w.m.critical[i].op = w.c.scan =>
           w.m.critical[i].generation = w.c.generation

\* One operation gets one handle, and its beginning is reported before its end.
Stamps(w) ==
  \A i \in DOMAIN w.m.critical :
    w.m.critical[i].type # "ScanComplete" /\ w.m.critical[i].op = w.c.link =>
      w.m.critical[i].generation = w.c.generation
OneHandle(w, k) ==
  \E h \in 1 .. 2 :
    /\ \A l \in w.r.links : l.op = w.c.link => l.handle = h
    /\ \A i \in DOMAIN w.m.critical :
         Carries(w.m.critical[i], w.c) => w.m.critical[i].handle = h
    /\ Carries(k, w.c) => k.handle = h
    /\ w.c.handle \in {0, h}
Untaken(w, k) ==
  w.r.connecting # Client!NoCall /\ w.r.connecting.op = w.c.link =>
    /\ \A l \in w.r.links : l.op # w.c.link
    /\ \A i \in DOMAIN w.m.critical : ~Carries(w.m.critical[i], w.c)
    /\ ~Carries(k, w.c) /\ w.c.handle = 0
Learns(w, k) ==
  /\ \A i \in DOMAIN w.m.critical : Closes(w.m.critical[i], w.c) => Met(w, i)
  /\ Closes(k, w.c) => Met(w, Len(w.m.critical) + 1)
  /\ \A l \in w.r.links :
       l.op = w.c.link => Met(w, Len(w.m.critical) + 1) \/ Opens(k, w.c)
Ordered(w, k) == Stamps(w) /\ OneHandle(w, k) /\ Untaken(w, k) /\ Learns(w, k)

\* What EndIsAnnounced says, and of a link that the client has still to hear of
Pending(w) == ~w.r.ready \/ w.c.sync # w.r.sync
Opened(w, k) ==
  \/ w.c.handle # 0
  \/ \E i \in DOMAIN w.m.critical : Opens(w.m.critical[i], w.c)
  \/ Opens(k, w.c)
Announced(w, k) ==
  /\ ~Pending(w) /\ w.c.state \in Client!Searching =>
       w.r.scanning = w.c.scan \/ Tells(w, k, "ScanComplete", w.c.scan)
  /\ ~Pending(w) /\ w.c.state = "Connecting" =>
       \/ w.r.connecting # Client!NoCall /\ w.r.connecting.op = w.c.link
       \/ Tells(w, k, "Connected", w.c.link)
LinkTold(w, k) ==
  ~Pending(w) /\ Opened(w, k) =>
    \/ \E l \in w.r.links : l.op = w.c.link
    \/ Tells(w, k, "Disconnected", w.c.link)

Based(w, k) == Formal(w, k) /\ Staged(w)
Informed(w, k) ==
  Based(w, k) /\ Searched(w) /\ Ordered(w, k) /\ Announced(w, k) /\ LinkTold(w, k)

\* Nothing that matters to it changes from w, k to v, j.
Like(w, k, v, j) ==
  /\ Fields(v) /\ v.c.last \in Nat /\ w.c.last <= v.c.last
  /\ \A f \in {"live", "generation", "scan", "link", "handle", "queued", "sync"} :
       v.c[f] = w.c[f]
  /\ v.m.critical = w.m.critical
  /\ "critical" \in w.m.flags => "critical" \in v.m.flags
  /\ v.m.candidate \in {w.m.candidate, Client!NoCall}
  /\ \A f \in {"ready", "sync", "scanning", "connecting", "links"} : v.r[f] = w.r[f]
  /\ \/ j = k
     \/ /\ Calling(j, v.c.last)
        /\ {j.type, k.type} \cap {"ScanComplete", "Connected", "Disconnected"} = {}
\* And the search goes on as it was.
StillSearching(w, v) ==
  /\ v.c.state = w.c.state \/ (v.c.state = "Scanning" /\ w.c.state = "Backoff")
  /\ v.m.candidate = w.m.candidate \/ v.c.state \notin Client!Searching
  /\ \/ v.c.waited = w.c.waited \/ v.m.candidate = Client!NoCall
     \/ v.c.state # "Backoff"
=============================================================================
