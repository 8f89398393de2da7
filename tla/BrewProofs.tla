------------------------------ MODULE BrewProofs ------------------------------
(***************************************************************************)
(* Proofs of the properties of the brew cycle, for every configuration,    *)
(* every number of cycles and every length of the windows: one invariant,  *)
(* BrewInvariant, that every step keeps, and what each step does to the    *)
(* shot and to the record it owes.                                         *)
(***************************************************************************)
EXTENDS BrewCycle, SequenceTheorems, TLAPS

\* The fields of a session.
Fields ==
  {"id", "active", "web", "withScale", "control", "automatic", "calibration",
   "owned", "disconnects", "limit", "elapsed", "anchored", "anchor",
   "anchorAge", "awaiting", "recovery", "direct", "pending", "points",
   "expected", "holding", "protected", "protectionEnded", "retareEnded",
   "retared", "dropped", "cupRemoved", "armed", "enforced", "extended", "slow",
   "lost", "automaticBrew", "startQueued", "settled", "started",
   "stopRequested", "stopQueued", "stopResult", "attempts", "retryLeft", "end"}

\* Of them, those that a stop of the timer changes.
TimerFields == {"stopRequested", "stopQueued", "stopResult", "attempts", "retryLeft"}

\* The fields of the records, as sets: what a step of a proof needs of them when it
\* compares a record before and after an assignment to some fields.
LEMMA SessionFields ==
  /\ DOMAIN NoSession = Fields /\ DOMAIN (NoSession)' = Fields
  /\ DOMAIN NoRun = {"n", "age", "next", "w", "gen"}
  /\ DOMAIN NoDrip = {"cycle", "left", "logged", "learns"} /\ ~NoDrip.learns
  /\ DOMAIN Unseen = {"seen", "age", "gen"}
  /\ TimerFields \subseteq Fields
  /\ {"id", "active", "end", "startQueued", "settled", "lost"} \subseteq Fields \ TimerFields
<1>1. NoSession = [f \in Fields |-> NoSession[f]]
  BY DEF NoSession, Fields
<1>2. (NoSession)' = [f \in Fields |-> (NoSession)'[f]]
  BY DEF NoSession, Fields
<1>3. NoRun = [f \in {"n", "age", "next", "w", "gen"} |-> NoRun[f]]
  BY DEF NoRun
<1>4. NoDrip = [f \in {"cycle", "left", "logged", "learns"} |-> NoDrip[f]]
  BY DEF NoDrip
<1>5. ~NoDrip.learns
  BY DEF NoDrip
<1>6. DOMAIN Unseen = {"seen", "age", "gen"}
  BY DEF Unseen
<1>7. /\ TimerFields \subseteq Fields
      /\ {"id", "active", "end", "startQueued", "settled", "lost"}
           \subseteq Fields \ TimerFields
  BY DEF Fields, TimerFields
<1> HIDE DEF NoSession, NoRun, NoDrip
<1> QED
  BY <1>1, <1>2, <1>3, <1>4, <1>5, <1>6, <1>7

\* What the weight path never changes.
SameShot(s, u) ==
  /\ u.id = s.id /\ u.active = s.active /\ u.end = s.end
  /\ u.startQueued = s.startQueued /\ u.settled = s.settled
  /\ u.stopRequested = s.stopRequested /\ u.stopQueued = s.stopQueued
  /\ u.stopResult = s.stopResult /\ u.attempts = s.attempts
  /\ u.protected = s.protected /\ u.elapsed = s.elapsed

\* The weight control listens on the connection it listened on, or not at all.
SameLink(s, u) ==
  /\ u.owned = s.owned
  /\ u.control \in {"ACTIVE", "VALIDATING"} => s.control \in {"ACTIVE", "VALIDATING"}

\* What the weight path keeps throughout; that a confirmed stop is its own holds again when
\* the sample has been dealt with.
WeightOpen(s) ==
  /\ SessionShape(s) /\ ConnectionOwned(s) /\ ProtectionKept(s)
  /\ LostIsNotLearned(s)

\* setWeightControlState changes what belongs to the control only; what the weight path
\* does to a session on its own keeps what the brew needs of it, and leaves the shot alone
\* (suspendWeightControl, resetDirectStopConfirmation, acceptWeightIntoTrajectory,
\* enterFastExtractionExtended, enterSlowExtractionExtended).
LEMMA SessionOps ==
  ASSUME NEW s, SessionShape(s)
  PROVE  /\ \A c : LET u == SetControl(s, c) IN
                   /\ DOMAIN u = DOMAIN s /\ u.control = c
                   /\ (u.lost => s.lost \/ c = "SUSPENDED")
                   /\ (u.automatic => c = "ACTIVE")
                   /\ \A f \in Fields \ {"control", "lost", "automatic", "enforced"} :
                         u[f] = s[f]
         /\ WeightKept(s) =>
               \A w, expected :
                  /\ WeightKept(Suspend(s)) /\ SameShot(s, Suspend(s))
                  /\ WeightKept(ResetDirectStop(s)) /\ SameShot(s, ResetDirectStop(s))
                  /\ WeightKept(Accept(s, w, expected)) /\ SameShot(s, Accept(s, w, expected))
                  /\ WeightKept(EnterFast(s, expected)) /\ SameShot(s, EnterFast(s, expected))
                  /\ WeightKept(EnterSlow(s, expected)) /\ SameShot(s, EnterSlow(s, expected))
                  /\ SameLink(s, ResetDirectStop(s)) /\ SameLink(s, Accept(s, w, expected))
                  /\ SameLink(s, EnterFast(s, expected))
<1>Control. ASSUME NEW c
            PROVE  LET u == SetControl(s, c) IN
                   /\ DOMAIN u = DOMAIN s /\ u.control = c
                   /\ (u.lost => s.lost \/ c = "SUSPENDED")
                   /\ (u.automatic => c = "ACTIVE")
                   /\ \A f \in Fields \ {"control", "lost", "automatic", "enforced"} :
                         u[f] = s[f]
  <2> USE SessionFields DEF Fields, SessionShape, SetControl
  <2>1. SetControl(s, c).control = c
    OBVIOUS
  <2>2. SetControl(s, c).lost => s.lost \/ c = "SUSPENDED"
    OBVIOUS
  <2>3. SetControl(s, c).automatic => c = "ACTIVE"
    OBVIOUS
  <2> QED
    BY <2>1, <2>2, <2>3
<1>Weight. ASSUME WeightKept(s), NEW w, NEW expected
           PROVE  /\ WeightKept(Suspend(s)) /\ SameShot(s, Suspend(s))
                  /\ WeightKept(ResetDirectStop(s)) /\ SameShot(s, ResetDirectStop(s))
                  /\ WeightKept(Accept(s, w, expected)) /\ SameShot(s, Accept(s, w, expected))
                  /\ WeightKept(EnterFast(s, expected)) /\ SameShot(s, EnterFast(s, expected))
                  /\ WeightKept(EnterSlow(s, expected)) /\ SameShot(s, EnterSlow(s, expected))
                  /\ SameLink(s, ResetDirectStop(s)) /\ SameLink(s, Accept(s, w, expected))
                  /\ SameLink(s, EnterFast(s, expected))
  <2> USE <1>Weight, SessionFields DEF Fields, WeightKept, SessionShape, SameShot
  <2>1. WeightKept(Suspend(s))
    BY DEF Suspend, SetControl, ResetTrend, ConnectionOwned, Listens, Tracks,
       ProtectionKept, ConfirmedIsOwn, LostIsNotLearned, Inhibited, NoRun
  <2>2. SameShot(s, Suspend(s))
    BY DEF Suspend, SetControl, ResetTrend
  <2>3. WeightKept(ResetDirectStop(s))
    BY DEF ResetDirectStop, NoRun, ConnectionOwned, Listens, Tracks, ProtectionKept,
       ConfirmedIsOwn, LostIsNotLearned, Inhibited
  <2>4. SameShot(s, ResetDirectStop(s))
    BY DEF ResetDirectStop
  <2>5. WeightKept(Accept(s, w, expected)) /\ SameShot(s, Accept(s, w, expected))
    BY DEF Accept, ConnectionOwned, Listens, Tracks, ProtectionKept, ConfirmedIsOwn,
       LostIsNotLearned, Inhibited
  <2>6. WeightKept(EnterFast(s, expected)) /\ SameShot(s, EnterFast(s, expected))
    BY DEF EnterFast, ConnectionOwned, Listens, Tracks, ProtectionKept,
       ConfirmedIsOwn, LostIsNotLearned, Inhibited
  <2>7. WeightKept(EnterSlow(s, expected)) /\ SameShot(s, EnterSlow(s, expected))
    BY DEF EnterSlow, ConnectionOwned, Listens, Tracks, ProtectionKept,
       ConfirmedIsOwn, LostIsNotLearned, Inhibited
  <2>8. SameLink(s, ResetDirectStop(s)) /\ SameLink(s, Accept(s, w, expected))
    BY DEF SameLink, ResetDirectStop, Accept
  <2>9. SameLink(s, EnterFast(s, expected))
    BY DEF SameLink, EnterFast
  <2> QED
    BY <2>1, <2>2, <2>3, <2>4, <2>5, <2>6, <2>7, <2>8, <2>9
<1> QED
  BY <1>Control, <1>Weight

\* Only the stop of the timer differs.
SameButStop(s, u) ==
  /\ DOMAIN u = DOMAIN s
  /\ \A f \in Fields \ TimerFields : u[f] = s[f]

\* The stop of a cycle is in the queue.
AsksToStop(q, cycle) ==
  \E i \in DOMAIN q : q[i] = [type |-> "STOP", cycle |-> cycle]

\* An attempt to stop the timer keeps the commands in order, and is queued when it
\* may be made and there is room (tryQueueRemoteTimerStop).  So does a request, which is
\* made once, and is queued at once when the scale is there (requestRemoteTimerStop).
LEMMA StopKept ==
  ASSUME NEW s, NEW t, NEW q, s.id \in Nat, DOMAIN s = Fields
  PROVE  /\ TimerKept(s, t, q) =>
              LET r == TryStop(s, t, q)
              IN  /\ TimerKept(r.s, r.t, r.q) /\ r.t = t /\ SameButStop(s, r.s)
                  /\ r.s.stopRequested = s.stopRequested
                  /\ MayTryStop(s) /\ HasRoom(q)
                       => AsksToStop(r.q, s.id)
         /\ (\E t1 : TimerKept(s, t1, q)) =>
              LET r == RequestStop(s, t, q)
              IN  /\ TimerKept(r.s, r.t, r.q) /\ r.t = t /\ SameButStop(s, r.s)
                  /\ s.startQueued => r.s.stopRequested
                  /\ s.startQueued /\ ~s.stopRequested /\ Available /\ HasRoom(q)
                       => AsksToStop(r.q, s.id)
<1>Try. ASSUME NEW x, x.id \in Nat, DOMAIN x = Fields, TimerKept(x, t, q)
        PROVE  LET r == TryStop(x, t, q)
               IN  /\ TimerKept(r.s, r.t, r.q) /\ r.t = t /\ SameButStop(x, r.s)
                   /\ r.s.stopRequested = x.stopRequested
                   /\ MayTryStop(x) /\ HasRoom(q)
                        => AsksToStop(r.q, x.id)
  \* A stop that is appended, or put before a queue without starts, keeps the order.
  <2>StopIsQueued. ASSUME NEW queue \in Seq(Commands), NEW owner,
                          StopsInOrder(queue), StartsInOrder(owner, queue),
                          owner.id \in Nat, NEW p, p = owner.settled
                   PROVE  LET r == Queued(queue, [type |-> "STOP", cycle |-> owner.id], p)
                          IN  r \in Seq(Commands) /\ StopsInOrder(r) /\ StartsInOrder(owner, r)
    <3> USE <2>StopIsQueued
    <3> DEFINE c == [type |-> "STOP", cycle |-> owner.id]
    <3>1. c \in Commands /\ c.type = "STOP" /\ c.cycle = owner.id
      BY DEF Commands
    <3> HIDE DEF c
    <3>0. \A i \in DOMAIN queue : queue[i].cycle \in Nat
      <4>1. \A i \in DOMAIN queue : queue[i] \in Commands
        OBVIOUS
      <4> QED
        BY <4>1 DEF Commands
    <3>2. ASSUME NEW r, r = Append(queue, c)
          PROVE  r \in Seq(Commands) /\ StopsInOrder(r) /\ StartsInOrder(owner, r)
      <4>1. /\ r \in Seq(Commands) /\ DOMAIN r = 1 .. Len(queue) + 1 /\ DOMAIN queue = 1 .. Len(queue)
            /\ r[Len(queue) + 1] = c /\ \A i \in DOMAIN queue : r[i] = queue[i]
            /\ Len(queue) \in Nat
        BY <3>1, <3>2
      <4>2. StopsInOrder(r)
        BY <4>1, <3>0, <3>1, SMTT(30) DEF StopsInOrder, StartsInOrder
      <4>3. StartsInOrder(owner, r)
        <5>1. ASSUME NEW i \in DOMAIN r, r[i].type = "START"
              PROVE  i \in DOMAIN queue /\ r[i] = queue[i]
          BY <4>1, <3>1, <5>1
        <5> QED
          BY <4>1, <5>1, <3>0, <3>1 DEF StartsInOrder
      <4> QED
        BY <4>1, <4>2, <4>3
    <3>3. ASSUME NEW r, r = <<c>> \o queue, owner.settled
          PROVE  r \in Seq(Commands) /\ StopsInOrder(r) /\ StartsInOrder(owner, r)
      <4>1. /\ r \in Seq(Commands) /\ DOMAIN r = 1 .. Len(queue) + 1 /\ DOMAIN queue = 1 .. Len(queue)
            /\ r[1] = c /\ \A i \in DOMAIN r \ {1} : i - 1 \in DOMAIN queue /\ r[i] = queue[i - 1]
            /\ Len(queue) \in Nat
        BY <3>1, <3>3
      <4>2. \A i \in DOMAIN r : r[i].type # "START"
        BY <4>1, <3>3, <3>1 DEF StartsInOrder
      <4>3. StopsInOrder(r)
        BY <4>2 DEF StopsInOrder
      <4>4. StartsInOrder(owner, r)
        BY <4>1, <4>2, <3>0, <3>1 DEF StartsInOrder
      <4> QED
        BY <4>1, <4>3, <4>4
    <3> QED
      BY <3>2, <3>3 DEF Queued, c
  <2> USE <1>Try
  <2> DEFINE R == TryStop(x, t, q)
             full == [x EXCEPT !.attempts = @ + 1, !.stopResult = "NOT_ATTEMPTED"]
             sent == [x EXCEPT !.attempts = @ + 1, !.stopResult = "PENDING",
                               !.stopQueued = TRUE]
             c == [type |-> "STOP", cycle |-> x.id]
             p == Queued(q, c, ToFront(x))
  <2>1. /\ SameButStop(x, x) /\ SameButStop(x, full) /\ SameButStop(x, sent)
        /\ full.stopRequested = x.stopRequested /\ sent.stopRequested = x.stopRequested
    BY SessionFields DEF SameButStop, TimerFields
  <2>2. ASSUME MayTryStop(x), NEW u \in {full, sent}, NEW r \in Seq(Commands),
               StopsInOrder(r), StartsInOrder(x, r)
        PROVE  TimerKept(u, t, r)
    <3>1. SameButStop(x, u) /\ u.stopRequested
      BY <2>1, <2>2 DEF MayTryStop
    <3> HIDE DEF full, sent
    <3>2. u.id = x.id /\ u.active = x.active /\ u.end = x.end
                      /\ u.startQueued = x.startQueued
          /\ u.settled = x.settled
      BY <3>1, SessionFields DEF SameButStop
    <3> QED
      BY <3>1, <3>2, <2>2 DEF TimerKept, StopIsDeferred, StartsInOrder
  <2>3. p \in Seq(Commands) /\ StopsInOrder(p) /\ StartsInOrder(x, p)
    BY <2>StopIsQueued DEF TimerKept, ToFront
  <2>4. \E i \in DOMAIN p : p[i] = c
    <3>1. c \in Commands /\ q \in Seq(Commands)
      BY DEF Commands, TimerKept
    <3> HIDE DEF c
    <3>2. CASE ToFront(x)
      <4>1. p = <<c>> \o q /\ 1 \in DOMAIN p /\ p[1] = c
        BY <3>1, <3>2 DEF Queued
      <4> QED
        BY <4>1
    <3>3. CASE ~ToFront(x)
      <4>1. Len(q) + 1 \in DOMAIN p /\ p[Len(q) + 1] = c
        BY <3>1, <3>3 DEF Queued
      <4> QED
        BY <4>1
    <3> QED
      BY <3>2, <3>3
  <2>5. TimerKept(x, t, q) /\ q \in Seq(Commands) /\ StopsInOrder(q)
                           /\ StartsInOrder(x, q)
    BY DEF TimerKept
  <2>6. R = IF ~MayTryStop(x) THEN Timer(x, t, q)
            ELSE IF ~HasRoom(q) THEN Timer(full, t, q) ELSE Timer(sent, t, p)
    BY DEF TryStop
  <2> HIDE DEF R, full, sent, p
  <2> QED
    BY <2>1, <2>2, <2>3, <2>4, <2>5, <2>6 DEF R, Timer, AsksToStop
<1>Request. ASSUME NEW t1, TimerKept(s, t1, q)
            PROVE  LET r == RequestStop(s, t, q)
                   IN  /\ TimerKept(r.s, r.t, r.q) /\ r.t = t /\ SameButStop(s, r.s)
                       /\ s.startQueued => r.s.stopRequested
                       /\ s.startQueued /\ ~s.stopRequested /\ Available /\ HasRoom(q)
                            => AsksToStop(r.q, s.id)
  <2> USE <1>Request
  <2> DEFINE u == [s EXCEPT !.stopRequested = TRUE, !.retryLeft = RetryWindow]
             R == TryStop(u, t, q)
  <2>1. CASE ~s.startQueued \/ s.stopRequested
    <3>1. TimerKept(s, t, q) /\ SameButStop(s, s)
      BY <2>1 DEF TimerKept, StopIsDeferred, SameButStop
    <3> QED
      BY <2>1, <3>1 DEF RequestStop, Timer
  <2>2. CASE s.startQueued /\ ~s.stopRequested
    <3>1. /\ DOMAIN u = Fields /\ u.stopRequested /\ u.retryLeft = RetryWindow
          /\ \A f \in Fields \ {"stopRequested", "retryLeft"} : u[f] = s[f]
      BY SessionFields DEF TimerFields
    <3> HIDE DEF u
    <3>2. SameButStop(s, u)
      BY <3>1 DEF SameButStop, TimerFields
    <3>3. /\ u.id = s.id /\ u.active = s.active /\ u.end = s.end
          /\ u.startQueued = s.startQueued /\ u.settled = s.settled
          /\ u.stopQueued = s.stopQueued /\ u.stopResult = s.stopResult
          /\ u.attempts = s.attempts
      BY <3>1, SessionFields DEF TimerFields
    <3>4. TimerKept(u, t, q)
      BY <3>1, <3>3 DEF TimerKept, StopIsDeferred, StartsInOrder
    <3>5. Available => MayTryStop(u)
      BY <2>2, <3>1, <3>3, WindowsAssumption
         DEF MayTryStop, TimerKept, StopIsDeferred
    <3>6. /\ TimerKept(R.s, R.t, R.q) /\ R.t = t /\ SameButStop(u, R.s)
          /\ R.s.stopRequested
          /\ MayTryStop(u) /\ HasRoom(q)
               => AsksToStop(R.q, s.id)
      BY <3>1, <3>3, <3>4, <1>Try
    <3>7. RequestStop(s, t, q) = R
      BY <2>2 DEF RequestStop, u
    <3> HIDE DEF R
    <3>8. SameButStop(s, R.s)
      BY <3>2, <3>6 DEF SameButStop
    <3> QED
      BY <3>5, <3>6, <3>7, <3>8
  <2> QED
    BY <2>1, <2>2
<1> QED
  BY <1>Try, <1>Request

\* A cycle began.
Begun ==
  /\ BrewInvariant' /\ drip' = NoDrip /\ session'.id = session.id + 1
  /\ drip # NoDrip => recorded'[drip.cycle] = 1
  /\ session.startQueued /\ session.end # "NONE" /\ ~session.stopRequested
       /\ Available /\ HasRoom(requests)
       => AsksToStop(requests', session.id)

\* What a pass of the state machine does before it looks at the weight: the windows
\* that end, and the suspension when the scale is gone (serviceBbwProtectionPhases,
\* scaleAutomationUnavailableForSession).
LEMMA PhasesKept ==
  ASSUME BrewInvariant
  PROVE  LET p == Phases(session)
             s == SuspendIfGone(p)
         IN  /\ WeightKept(p) /\ SameShot(session, p)
             /\ p.control = session.control /\ p.owned = session.owned
             /\ p.disconnects = session.disconnects
             /\ WeightKept(s) /\ SameShot(session, s)
             /\ s.control \in {"ACTIVE", "VALIDATING"} => s = p /\ ~Unavailable(p)
<1> DEFINE p == Phases(session)
           s == SuspendIfGone(p)
           ends == session.protected /\ ~session.protectionEnded
                                     /\ session.elapsed >= Protection
           t == [session EXCEPT
                  !.awaiting = IF @ = 0 THEN -1 ELSE @,
                  !.retareEnded = @ \/ (/\ session.protected /\ ~session.retared
                                        /\ session.elapsed >= RetareWindow)]
           u == [t EXCEPT !.protectionEnded = TRUE]
           Kept(v) == /\ WeightKept(v) /\ SameShot(session, v)
                      /\ v.control = session.control
                      /\ v.owned = session.owned /\ v.disconnects = session.disconnects
<1> USE SessionFields DEF Fields, SessionShape, SameShot
<1>0. WeightKept(session)
  BY DEF BrewInvariant
<1>1. Kept(t)
  BY <1>0 DEF WeightKept, ConnectionOwned, Listens, Tracks, ProtectionKept,
     ConfirmedIsOwn, LostIsNotLearned, Inhibited
<1> HIDE DEF t
<1>2. ends => Kept(ResetDirectStop(u))
  <2>1. DOMAIN u = DOMAIN t /\ u.protectionEnded
        /\ \A f \in Fields \ {"protectionEnded"} : u[f] = t[f]
    BY <1>1 DEF WeightKept
  <2> HIDE DEF u
  <2>a. /\ u.active = t.active /\ u.protected = t.protected /\ u.elapsed = t.elapsed
        /\ u.control = t.control /\ u.owned = t.owned /\ u.disconnects = t.disconnects
        /\ u.direct = t.direct /\ u.pending = t.pending /\ u.awaiting = t.awaiting
        /\ u.lost = t.lost /\ u.calibration = t.calibration /\ u.automatic = t.automatic
        /\ u.automaticBrew = t.automaticBrew
    BY <2>1
  <2>b. SameShot(session, u) /\ SessionShape(u) /\ ConnectionOwned(u)
                             /\ ConfirmedIsOwn(u) /\ LostIsNotLearned(u)
    BY <1>1, <2>1, <2>a
       DEF WeightKept, ConnectionOwned, Listens, Tracks, ConfirmedIsOwn,
           LostIsNotLearned
  <2>c. ends => ProtectionKept(u)
    BY <1>1, <2>1, <2>a DEF WeightKept, ProtectionKept, Inhibited
  <2>2. ends => Kept(u)
    BY <1>1, <2>a, <2>b, <2>c DEF WeightKept
  <2>3. ASSUME Kept(u) PROVE Kept(ResetDirectStop(u))
    <3>1. WeightKept(ResetDirectStop(u)) /\ SameShot(u, ResetDirectStop(u))
      BY <2>3, SessionOps DEF WeightKept
    <3>2. /\ ResetDirectStop(u).control = u.control
          /\ ResetDirectStop(u).owned = u.owned
          /\ ResetDirectStop(u).disconnects = u.disconnects
      BY <2>3 DEF ResetDirectStop, WeightKept
    <3> QED
      BY <2>3, <3>1, <3>2
  <2> QED
    BY <2>2, <2>3
<1>3. p = IF ends THEN ResetDirectStop(u) ELSE t
  BY DEF Phases, t
<1> HIDE DEF p
<1>4. Kept(p)
  BY <1>1, <1>2, <1>3
<1>5. WeightKept(s) /\ SameShot(p, s)
  BY <1>4, SessionOps DEF SuspendIfGone, WeightKept
<1>6. s.control \in {"ACTIVE", "VALIDATING"} => s = p /\ ~Unavailable(p)
  <2>1. Suspend(p).control \notin {"ACTIVE", "VALIDATING"}
    BY <1>4 DEF Suspend, SetControl, ResetTrend, WeightKept
  <2> QED
    BY <2>1 DEF SuspendIfGone
<1> HIDE DEF s
<1>7. SameShot(session, s)
  BY <1>4, <1>5
<1> QED
  BY <1>4, <1>5, <1>6, <1>7 DEF p, s

\* What holds of every step that neither ends a shot nor begins a cycle.
Calm == BrewInvariant' /\ session'.id = session.id /\ session'.active = session.active

\* What ends a shot: the weight, in a pass of the state machine, or one of the
\* reasons that have nothing to do with it.
Ended ==
  /\ BrewInvariant' /\ session'.id = session.id /\ session.active /\ ~session'.active
  /\ recorded' = recorded /\ drip = NoDrip

\* A pass of the machine ended the shot for a reason that the weight gave.
ByWeight ==
  LET s == SuspendIfGone(Phases(session))
  IN  state = "BREW" /\ StopReason(s) # "NONE" /\ session'.end = StopReason(s)

\* The record that is owed is not forgotten.
Recorded == drip # NoDrip /\ drip'.cycle # drip.cycle => recorded'[drip.cycle] = 1

\* The reasons to end a cycle that are not the weight.
Elsewhere ==
  {"CONFIGURED_WALL_LIMIT", "GLOBAL_LIMIT", "PHYSICAL_OVERRIDE", "RINSE_COMPLETE",
   "RELAY_SAFETY_FAILURE", "ACTIVATOR", "UNCONFIRMED_START", "CUP_REMOVED",
   "AUTO_TO_MANUAL_GUARD", "WEB_STOP"}

\* Every step keeps the invariant, and is a calm one, begins a cycle, or ends one for a
\* reason that is not the weight or that a pass of the machine found; a record owed
\* is written before it is forgotten, and a shot that the weight ends is ended by a pass.
LEMMA BrewStep ==
  ASSUME BrewInvariant, [Next]_vars
  PROVE  /\ Recorded
         /\ Calm \/ Begun \/ (Ended /\ (session'.end \in Elsewhere \/ ByWeight))
         /\ EndsBy(Reasons) => ByWeight
\* A sample that is new is of the connection that the session listens on.
<1> DEFINE Shown(s) == \/ observed' = observed
                       \/ /\ observed' = [seen |-> TRUE, age |-> 0, gen |-> generation]
                          /\ Listens(s) => s.owned = generation
\* A step that changes nothing but the session's weight control.
<1>QuietStep. ASSUME BrewInvariant, WeightKept(session'), SameShot(session, session'),
                     session.active \/ session'.lost = session.lost,
                     config' = config, state' = state, timerStop' = timerStop,
                     drip' = drip, recorded' = recorded, requests' = requests,
                     answers' = answers, connected' = connected, generation' = generation,
                     Shown(session')
              PROVE  BrewInvariant'
  <2>1. WeightKept(session)'
    BY <1>QuietStep, SessionFields
       DEF WeightKept, SessionShape, ConnectionOwned, Listens, Tracks,
           ProtectionKept, ConfirmedIsOwn, LostIsNotLearned, Inhibited, Uses
  <2>2. BrewShape'
    BY <1>QuietStep, SessionFields DEF BrewInvariant, BrewShape, SameShot
  <2>3. OwedByLast'
    BY <1>QuietStep, SessionFields DEF BrewInvariant, OwedByLast, SameShot
  <2>4. TimerKept(session, timerStop, requests)'
    BY <1>QuietStep
       DEF BrewInvariant, TimerKept, StopIsDeferred, StartsInOrder, StopsInOrder, SameShot
  <2> QED
    BY <2>1, <2>2, <2>3, <2>4 DEF BrewInvariant
\* The deferred stop either still waits or has been requested
\* (servicePendingScaleTimerStop).
<1>ServiceStopKept. ASSUME NEW s, NEW t, NEW q, NEW shown, TimerKept(s, t, q), s.id \in Nat,
                           DOMAIN s = Fields, DOMAIN t = DOMAIN NoTimerStop
                    PROVE  LET r == ServiceStop(s, t, q, shown)
                           IN  /\ TimerKept(r.s, r.t, r.q) /\ SameButStop(s, r.s)
                               /\ DOMAIN r.t = DOMAIN NoTimerStop
                               /\ t.phase # "NONE" /\ s.startQueued /\ ~r.s.stopRequested
                                    => r.t.phase # "NONE"
  <2> DEFINE later == [phase |-> "EXTRA", left |-> config.extra]
             r1 == RequestStop(s, NoTimerStop, q)
             r2 == Timer(s, later, q)
             R == ServiceStop(s, t, q, shown)
  <2>0. /\ DOMAIN NoTimerStop = {"phase", "left"} /\ NoTimerStop.phase = "NONE"
        /\ DOMAIN later = {"phase", "left"} /\ later.phase = "EXTRA"
    <3>1. /\ NoTimerStop = [f \in {"phase", "left"} |-> NoTimerStop[f]]
          /\ later = [f \in {"phase", "left"} |-> later[f]]
      BY DEF NoTimerStop
    <3> QED
      BY <3>1 DEF NoTimerStop
  <2> HIDE DEF later
  <2>1. /\ TimerKept(r1.s, r1.t, r1.q) /\ r1.t = NoTimerStop /\ SameButStop(s, r1.s)
        /\ s.startQueued => r1.s.stopRequested
    BY <1>ServiceStopKept, StopKept
  <2>2. TimerKept(s, later, q) /\ SameButStop(s, s)
    BY <1>ServiceStopKept, <2>0 DEF TimerKept, StopIsDeferred, SameButStop
  <2>3. R \in {Timer(s, t, q), r1, r2}
    BY DEF ServiceStop, later
  <2> HIDE DEF r1, R
  <2>4. CASE R = r1
    BY <2>1, <2>4 DEF R
  <2>5. CASE R = r2
    BY <1>ServiceStopKept, <2>0, <2>2, <2>5 DEF R, Timer
  <2>6. CASE R = Timer(s, t, q)
    BY <1>ServiceStopKept, <2>2, <2>6 DEF R, Timer
  <2> QED
    BY <2>3, <2>4, <2>5, <2>6
\* A cycle that begins, a rinse as well, writes the record owed, asks for the stop of
\* the last timer before it asks for its start, and keeps the invariant
\* (beginCycle, beginRinseCycle).
<1>BeginStep. ASSUME BrewInvariant,
                     answers' = answers, connected' = connected, generation' = generation
              PROVE  \A web \in BOOLEAN : BeginCycle(web) \/ BeginRinse(web) => Begun
  <2> USE <1>BeginStep
  <2>FlushStopKept. /\ TimerKept(CloseLast.s, CloseLast.t, CloseLast.q)
                    /\ DOMAIN CloseLast.t = DOMAIN NoTimerStop
                    /\ CloseLast.s.id = session.id
                    /\ session.startQueued /\ session.end # "NONE" /\ ~session.stopRequested
                         /\ Available /\ HasRoom(requests)
                         => AsksToStop(CloseLast.q, session.id)
    <3>1. /\ TimerKept(session, timerStop, requests) /\ session.id \in Nat
          /\ DOMAIN session = Fields /\ DOMAIN timerStop = DOMAIN NoTimerStop
      BY SessionFields DEF BrewInvariant, BrewShape, WeightKept, SessionShape
    <3> DEFINE r == RequestStop(session, NoTimerStop, requests)
    <3>2. /\ TimerKept(r.s, r.t, r.q) /\ r.t = NoTimerStop /\ SameButStop(session, r.s)
          /\ session.startQueued /\ ~session.stopRequested /\ Available /\ HasRoom(requests)
               => AsksToStop(r.q, session.id)
      BY <3>1, StopKept
    <3> HIDE DEF r
    <3>3. r.s.id = session.id
      BY <3>2, SessionFields DEF SameButStop
    <3>4. CloseLast = IF timerStop.phase = "NONE" THEN Timer(session, timerStop, requests) ELSE r
      BY DEF CloseLast, FlushStop, r
    <3>5. CASE timerStop.phase = "NONE"
      <4>1. CloseLast.s = session /\ CloseLast.t = timerStop /\ CloseLast.q = requests
        BY <3>4, <3>5 DEF Timer
      <4>2. ~(session.startQueued /\ session.end # "NONE" /\ ~session.stopRequested)
        BY <3>1, <3>5 DEF TimerKept, StopIsDeferred
      <4> QED
        BY <3>1, <4>1, <4>2
    <3>6. CASE timerStop.phase # "NONE"
      <4>1. CloseLast = r /\ DOMAIN CloseLast.t = DOMAIN NoTimerStop
        BY <3>2, <3>4, <3>6
      <4> QED
        BY <3>2, <3>3, <4>1
    <3> QED
      BY <3>5, <3>6
  <2>ReplaceStep. ASSUME CancelDrip, session.id < config.cycles,
                         timerStop' = CloseLast.t, session'.id = session.id + 1,
                         ~session'.stopRequested, ~session'.stopQueued, ~session'.settled,
                         session'.stopResult = "NOT_ATTEMPTED", session'.attempts = 0,
                         \/ session'.end = "NONE" /\ requests' = CloseLast.q \o StartRequest(session')
                         \/ /\ ~session'.active /\ ~session'.startQueued
                            /\ requests' = CloseLast.q,
                         WeightKept(session)',
                         config' = config, answers' = answers,
                         connected' = connected, generation' = generation, observed' = observed
                  PROVE  /\ BrewInvariant' /\ drip' = NoDrip
                         /\ drip # NoDrip => recorded'[drip.cycle] = 1
    <3> USE <2>ReplaceStep
    <3> DEFINE q == CloseLast.q
    <3>1. /\ TimerKept(CloseLast.s, CloseLast.t, q)
          /\ DOMAIN CloseLast.t = DOMAIN NoTimerStop
          /\ CloseLast.s.id = session.id
      BY <2>FlushStopKept
    <3> HIDE DEF q
    <3>2. /\ session.id \in Nat /\ config \in Configs /\ config.cycles \in Nat
          /\ 1 .. config.cycles \subseteq CycleIds /\ CycleIds \subseteq Nat
          /\ session.id \in 0 .. config.cycles
      BY ConfigsAssumption DEF BrewInvariant, BrewShape
    <3>3. /\ drip' = NoDrip
          /\ recorded' \in [CycleIds -> Nat]
          /\ \A c \in CycleIds : recorded'[c] <= 1 /\ (c > session.id => recorded'[c] = 0)
          /\ drip # NoDrip => recorded'[drip.cycle] = 1
      <4>1. \A c \in CycleIds : recorded[c] \in Nat /\ recorded[c] <= 1
                                  /\ (c > session.id => recorded[c] = 0)
        BY DEF BrewInvariant, BrewShape, OwedByLast
      <4>2. CASE drip = NoDrip
        BY <4>1, <4>2 DEF CancelDrip, BrewInvariant, BrewShape
      <4>3. CASE drip # NoDrip
        <5>1. drip.cycle = session.id /\ session.id \in CycleIds
                                      /\ recorded[session.id] = 0
          BY <3>2, <4>3 DEF BrewInvariant, OwedByLast
        <5>2. recorded' = [recorded EXCEPT ![session.id] = 1]
          BY <4>3, <5>1 DEF CancelDrip
        <5> QED
          BY <3>2, <4>1, <5>1, <5>2 DEF CancelDrip, BrewInvariant, BrewShape
      <4> QED
        BY <4>2, <4>3
    <3>4. BrewShape'
      BY <3>1, <3>2, <3>3, SessionFields DEF BrewInvariant, BrewShape, NoTimerStop
    <3>5. OwedByLast'
      BY <3>2, <3>3, SessionFields DEF OwedByLast
    <3>6. /\ q \in Seq(Commands) /\ StopsInOrder(q) /\ StartsInOrder(CloseLast.s, q)
          /\ \A i \in DOMAIN q : q[i].cycle <= session.id /\ q[i].cycle \in Nat
          /\ \A a \in answers : a.cycle \in Nat /\ a.cycle <= session.id
      <4>1. q \in Seq(Commands) /\ StopsInOrder(q) /\ StartsInOrder(CloseLast.s, q)
        BY <3>1 DEF TimerKept
      <4>2. \A i \in DOMAIN q : q[i] \in Commands
        BY <4>1
      <4> QED
        BY <3>1, <4>1, <4>2 DEF StartsInOrder, Commands
    <3> DEFINE c == [type |-> "START", cycle |-> session'.id]
    <3>7. c \in Commands /\ c.type = "START" /\ c.cycle = session.id + 1
      BY <3>2 DEF Commands
    <3> HIDE DEF c
    <3>8. ASSUME requests' = Append(q, c), session'.end = "NONE"
          PROVE  TimerKept(session, timerStop, requests)'
      <4>1. /\ requests' \in Seq(Commands) /\ DOMAIN requests' = 1 .. Len(q) + 1
            /\ DOMAIN q = 1 .. Len(q) /\ Len(q) \in Nat
            /\ requests'[Len(q) + 1] = c /\ \A i \in DOMAIN q : requests'[i] = q[i]
        BY <3>6, <3>7, <3>8
      <4>2. StopIsDeferred(session, timerStop, requests)'
        <5>1. \A i \in DOMAIN requests' :
                ~(requests'[i].type = "STOP" /\ requests'[i].cycle = session'.id)
          <6>1. \A i \in DOMAIN q : q[i].cycle # session'.id
            BY <3>2, <3>6
          <6>2. \A i \in DOMAIN requests' : i \in DOMAIN q \/ i = Len(q) + 1
            BY <4>1
          <6> QED
            BY <3>7, <4>1, <6>1, <6>2
        <5>2. \A a \in answers' : a.cycle # session'.id
          BY <3>2, <3>6
        <5> QED
          BY <3>8, <5>1, <5>2 DEF StopIsDeferred
      <4>3. StopsInOrder(requests)'
        <5>1. StopsInOrder(q)
          BY <3>6
        <5>2. \A i \in DOMAIN requests' :
                \/ i \in DOMAIN q /\ requests'[i] = q[i]
                \/ i = Len(q) + 1 /\ requests'[i] = c
          BY <4>1
        <5>3. ASSUME NEW i \in DOMAIN requests', NEW j \in DOMAIN requests',
                     requests'[i].type = "STOP", requests'[j].type = "START"
              PROVE  IF requests'[j].cycle <= requests'[i].cycle THEN j < i ELSE i < j
          <6>1. i \in DOMAIN q /\ requests'[i] = q[i]
            BY <3>7, <5>2, <5>3
          <6>2. CASE j \in DOMAIN q /\ requests'[j] = q[j]
            BY <5>1, <5>3, <6>1, <6>2, Zenon DEF StopsInOrder
          <6>3. CASE j = Len(q) + 1 /\ requests'[j] = c
            <7>1. i < j
              BY <4>1, <6>1, <6>3
            <7>2. ~(requests'[j].cycle <= requests'[i].cycle)
              BY <3>2, <3>6, <3>7, <6>1, <6>3
            <7> QED
              BY <7>1, <7>2
          <6> QED
            BY <5>2, <5>3, <6>2, <6>3
        <5> QED
          BY <5>3, Zenon DEF StopsInOrder
      <4>4. StartsInOrder(session, requests)'
        <5>1. \A i, j \in DOMAIN q :
                q[i].type = "START" /\ q[j].type = "START"
                                    /\ i < j => q[i].cycle < q[j].cycle
          BY <3>6 DEF StartsInOrder
        <5>2. \A a \in answers, i \in DOMAIN q :
                a.type = "START" /\ q[i].type = "START" => a.cycle < q[i].cycle
          BY <3>6 DEF StartsInOrder
        <5>3. \A i \in DOMAIN requests' : i \in DOMAIN q \/ i = Len(q) + 1
          BY <4>1
        <5>4. \A i \in DOMAIN requests' : requests'[i].cycle <= session'.id
          BY <3>2, <3>6, <3>7, <4>1, <5>3
        <5>5. \A i, j \in DOMAIN requests' :
                requests'[i].type = "START" /\ requests'[j].type = "START" /\ i < j
                  => requests'[i].cycle < requests'[j].cycle
          BY <3>2, <3>6, <3>7, <4>1, <5>1, <5>3
        <5>6. \A a \in answers, i \in DOMAIN requests' :
                a.type = "START" /\ requests'[i].type = "START" => a.cycle < requests'[i].cycle
          BY <3>2, <3>6, <3>7, <4>1, <5>2, <5>3
        <5>7. \A a \in answers : a.cycle \in Nat /\ a.cycle <= session'.id
          BY <3>2, <3>6
        <5> QED
          BY <5>4, <5>5, <5>6, <5>7 DEF StartsInOrder
      <4> QED
        BY <4>1, <4>2, <4>3, <4>4 DEF TimerKept
    <3>9. ASSUME requests' = q, session'.end = "NONE" \/ (~session'.active /\ ~session'.startQueued)
          PROVE  TimerKept(session, timerStop, requests)'
      <4>2. StopIsDeferred(session, timerStop, requests)'
        BY <3>2, <3>6, <3>9 DEF StopIsDeferred
      <4>3. StopsInOrder(requests)'
        BY <3>6, <3>9 DEF StopsInOrder
      <4>4. StartsInOrder(session, requests)'
        BY <3>1, <3>2, <3>6, <3>9 DEF StartsInOrder
      <4> QED
        BY <3>6, <3>9, <4>2, <4>3, <4>4 DEF TimerKept
    <3>10. ASSUME session'.end = "NONE", requests' = q \o StartRequest(session')
           PROVE  requests' = q \/ requests' = Append(q, c)
      BY <3>6, <3>10, <3>7 DEF StartRequest, c
    <3> QED
      BY <3>3, <3>4, <3>5, <3>8, <3>9, <3>10 DEF BrewInvariant, q
  <2>NewSessionFields. ASSUME NEW web, NEW withScale, NEW weight, withScale \in BOOLEAN
                       PROVE  LET f == NewSession(web, withScale, weight)
                                  weighs == withScale /\ ~Uses("timerOnly")
                              IN  /\ DOMAIN f = Fields /\ f.id = session.id + 1 /\ f.active /\ f.withScale = withScale
                                  /\ f.control = (IF weighs THEN "ACTIVE" ELSE "INACTIVE")
                                  /\ f.automatic = weighs /\ f.calibration = weighs
                                  /\ f.owned = generation /\ f.disconnects = Disconnects
                                  /\ f.awaiting \in Int /\ f.elapsed = 0
                                  /\ f.direct = NoRun /\ f.pending = "NONE"
                                  /\ f.protected = weighs /\ f.protectionEnded = ~weighs
                                  /\ ~f.startQueued /\ ~f.stopRequested /\ ~f.stopQueued
                                  /\ ~f.settled
                                  /\ f.stopResult = "NOT_ATTEMPTED" /\ f.attempts = 0
                                  /\ f.end = "NONE"
    <3> USE <2>NewSessionFields
    <3> DEFINE f == NewSession(web, withScale, weight)
    <3> USE DEF Fields
    <3>0. /\ NoSession.elapsed = 0 /\ NoSession.direct = NoRun
          /\ NoSession.pending = "NONE"
          /\ ~NoSession.startQueued /\ ~NoSession.stopRequested /\ ~NoSession.stopQueued
          /\ ~NoSession.settled /\ NoSession.stopResult = "NOT_ATTEMPTED"
          /\ NoSession.attempts = 0 /\ NoSession.end = "NONE"
      BY DEF NoSession
    <3>1. /\ DOMAIN f = Fields /\ f.id = session.id + 1 /\ f.active /\ f.withScale = withScale
          /\ f.owned = generation /\ f.disconnects = Disconnects
      BY SessionFields, ZenonT(40) DEF NewSession
    <3>2. /\ f.control = (IF withScale /\ ~Uses("timerOnly") THEN "ACTIVE" ELSE "INACTIVE")
          /\ f.awaiting \in Int
      BY SessionFields, WindowsAssumption DEF NewSession
    <3>3. /\ f.automatic = (withScale /\ ~Uses("timerOnly"))
          /\ f.calibration = (withScale /\ ~Uses("timerOnly"))
          /\ f.protected = (withScale /\ ~Uses("timerOnly"))
          /\ f.protectionEnded = ~(withScale /\ ~Uses("timerOnly"))
      BY SessionFields DEF NewSession
    <3>4. /\ f.elapsed = 0 /\ f.direct = NoRun /\ f.pending = "NONE"
          /\ ~f.startQueued /\ ~f.stopRequested /\ ~f.stopQueued /\ ~f.settled
          /\ f.stopResult = "NOT_ATTEMPTED" /\ f.attempts = 0 /\ f.end = "NONE"
      BY <3>0, SessionFields DEF NewSession
    <3> QED
      BY <3>1, <3>2, <3>3, <3>4
  <2>AskStays. ASSUME NEW q, NEW r, q \in Seq(Commands), r \in Seq(Commands), NEW id, AsksToStop(q, id)
               PROVE  AsksToStop(q \o r, id)
    <3> USE <2>AskStays
    <3>1. PICK i \in DOMAIN q : q[i] = [type |-> "STOP", cycle |-> id]
      BY DEF AsksToStop
    <3>2. i \in DOMAIN (q \o r) /\ (q \o r)[i] = q[i]
      OBVIOUS
    <3> QED
      BY <3>1, <3>2 DEF AsksToStop
  <2>BeginCycleStep. ASSUME NEW web \in BOOLEAN, BeginCycle(web)
                     PROVE  Begun
    <3> USE <2>BeginCycleStep
    <3>1. PICK weight :
           LET withScale == Available /\ IsFresh(current)
               fresh     == NewSession(web, withScale, weight)
               s         == Started(fresh, CloseLast.q)
           IN  /\ timerStop' = CloseLast.t
               /\ \/ /\ session' = s
                     /\ requests' = CloseLast.q \o StartRequest(s)
                     /\ state' = AfterStart(s)
                  \/ /\ session' = [fresh EXCEPT !.active = FALSE,
                                                 !.end = "RELAY_SAFETY_FAILURE"]
                     /\ requests' = CloseLast.q
                     /\ state' = "REQUIRES_OFF"
      BY DEF BeginCycle
    <3> DEFINE withScale == Available /\ IsFresh(current)
               fresh     == NewSession(web, withScale, weight)
               s         == Started(fresh, CloseLast.q)
               failed    == [fresh EXCEPT !.active = FALSE,
                                          !.end = "RELAY_SAFETY_FAILURE"]
               weighs == withScale /\ ~Uses("timerOnly")
    <3>2. withScale \in BOOLEAN /\ (withScale => connected /\ generation \in Nat \ {0})
      BY DEF Available, BrewInvariant, BrewShape
    <3> HIDE DEF withScale
    <3>3. /\ DOMAIN fresh = Fields /\ fresh.id = session.id + 1 /\ fresh.active /\ fresh.withScale = withScale
                 /\ fresh.control = (IF weighs THEN "ACTIVE" ELSE "INACTIVE")
                 /\ fresh.automatic = weighs /\ fresh.calibration = weighs
                 /\ fresh.owned = generation /\ fresh.disconnects = Disconnects
                 /\ fresh.awaiting \in Int /\ fresh.elapsed = 0 /\ fresh.direct = NoRun
                 /\ fresh.pending = "NONE"
                 /\ fresh.protected = weighs /\ fresh.protectionEnded = ~weighs
                 /\ ~fresh.startQueued /\ ~fresh.stopRequested /\ ~fresh.stopQueued
                 /\ ~fresh.settled
                 /\ fresh.stopResult = "NOT_ATTEMPTED" /\ fresh.attempts = 0
                 /\ fresh.end = "NONE"
      BY <3>2, <2>NewSessionFields
    <3>a. NoRun.n = 0
      BY DEF NoRun
    <3> HIDE DEF fresh
    <3>4. CASE /\ session' = failed
               /\ requests' = CloseLast.q
               /\ state' = "REQUIRES_OFF"
      <4>1. /\ \A f \in Fields \ {"active", "end"} : session'[f] = fresh[f]
            /\ ~session'.active /\ session'.end # "NONE" /\ DOMAIN session' = Fields
        BY <3>3, <3>4 DEF Fields
      <4>2. WeightKept(session)'
        BY <3>2, <3>3, <3>a, <4>1, SessionFields DEF Fields, WeightKept,
           SessionShape, ConnectionOwned, Listens, Tracks, ProtectionKept,
           ConfirmedIsOwn, LostIsNotLearned, Inhibited, Disconnects
      <4>3. /\ session'.id = session.id + 1
            /\ ~session'.stopRequested /\ ~session'.stopQueued /\ ~session'.settled
            /\ session'.stopResult = "NOT_ATTEMPTED" /\ session'.attempts = 0
            /\ ~session'.startQueued
        BY <3>3, <4>1 DEF Fields
      <4>4. BrewInvariant' /\ drip' = NoDrip
                           /\ (drip # NoDrip => recorded'[drip.cycle] = 1)
        BY <3>1, <3>4, <4>1, <4>2, <4>3, <2>ReplaceStep DEF BeginCycle
      <4> QED
        BY <3>4, <4>3, <4>4, <2>FlushStopKept DEF Begun
    <3>5. CASE /\ session' = s
               /\ requests' = CloseLast.q \o StartRequest(s)
               /\ state' = AfterStart(s)
      <4> DEFINE queued == fresh.withScale /\ HasRoom(CloseLast.q)
                 automatic == fresh.automatic /\ queued
      <4>1. /\ \A f \in Fields \ {"startQueued", "automatic", "lost", "automaticBrew", "armed",
                                  "retareEnded", "protectionEnded"} : session'[f] = fresh[f]
            /\ DOMAIN session' = Fields
            /\ session'.startQueued = queued /\ session'.automatic = automatic
            /\ session'.lost = (fresh.withScale /\ ~queued)
            /\ session'.automaticBrew = automatic
            /\ session'.protectionEnded = (fresh.protectionEnded \/ ~automatic)
        BY <3>3, <3>5 DEF Fields, Started
      <4>2. /\ session'.id = session.id + 1 /\ session'.end = "NONE"
            /\ ~session'.stopRequested /\ ~session'.stopQueued /\ ~session'.settled
            /\ session'.stopResult = "NOT_ATTEMPTED" /\ session'.attempts = 0
            /\ session'.withScale = withScale
        BY <3>3, <4>1 DEF Fields
      <4>3. state' = "BREW" => automatic \/ (Uses("timerOnly") /\ withScale)
        BY <3>5, <4>1, <4>2 DEF AfterStart
      <4>a. /\ session'.control = fresh.control /\ session'.owned = generation
            /\ session'.disconnects = Disconnects /\ session'.active = fresh.active
            /\ session'.elapsed = 0 /\ session'.direct = NoRun
            /\ session'.pending = "NONE"
            /\ session'.awaiting \in Int /\ session'.protected = weighs
            /\ session'.calibration = weighs
        <5>1. /\ session'.control = fresh.control /\ session'.owned = fresh.owned
              /\ session'.disconnects = fresh.disconnects
              /\ session'.active = fresh.active
              /\ session'.elapsed = fresh.elapsed /\ session'.direct = fresh.direct
              /\ session'.pending = fresh.pending /\ session'.awaiting = fresh.awaiting
              /\ session'.protected = fresh.protected
              /\ session'.calibration = fresh.calibration
          BY <4>1 DEF Fields
        <5> HIDE DEF weighs
        <5> QED
          BY <3>3, <5>1
      <4>b. config' = config
        BY DEF BeginCycle
      <4>c. SessionShape(session)'
        BY <3>a, <4>1, <4>a, SessionFields DEF SessionShape
      <4>d. ConnectionOwned(session)'
        BY <3>2, <3>3, <4>a DEF ConnectionOwned, Listens, Tracks, Disconnects
      <4>e. ProtectionKept(session)'
        BY <3>3, <4>1, <4>3, <4>a, <4>b DEF ProtectionKept, Uses
      <4>f. ConfirmedIsOwn(session)'
        BY <4>a DEF ConfirmedIsOwn
      <4>g. LostIsNotLearned(session)'
        BY <3>3, <4>1, <4>3, <4>a DEF LostIsNotLearned
      <4>4. WeightKept(session)'
        BY <4>c, <4>d, <4>e, <4>f, <4>g DEF WeightKept
      <4>5. BrewInvariant' /\ drip' = NoDrip
                           /\ (drip # NoDrip => recorded'[drip.cycle] = 1)
        BY <3>1, <3>5, <4>2, <4>4, <2>ReplaceStep DEF BeginCycle
      <4>6. StartRequest(session') \in Seq(Commands) /\ CloseLast.q \in Seq(Commands)
        <5>1. session'.id \in Nat
          BY <4>2, ConfigsAssumption DEF BrewInvariant, BrewShape
        <5>2. [type |-> "START", cycle |-> session'.id] \in Commands
          BY <5>1 DEF Commands
        <5> QED
          BY <5>2, <2>FlushStopKept DEF StartRequest, TimerKept
      <4> QED
        BY <3>5, <4>2, <4>5, <4>6, <2>FlushStopKept, <2>AskStays DEF Begun
    <3> QED
      BY <3>1, <3>4, <3>5 DEF withScale, fresh
  <2>BeginRinseStep. ASSUME NEW web \in BOOLEAN, BeginRinse(web)
                     PROVE  Begun
    <3> USE <2>BeginRinseStep
    <3> DEFINE queued == Available /\ HasRoom(CloseLast.q)
               s == [NoSession EXCEPT !.id = session.id + 1, !.active = TRUE,
                                      !.web = web, !.withScale = queued,
                                      !.startQueued = queued, !.limit = Wall,
                                      !.lost = Available /\ ~queued]
               failed == [s EXCEPT !.active = FALSE, !.startQueued = FALSE,
                                   !.end = "RELAY_SAFETY_FAILURE"]
    <3>1. /\ NoSession.elapsed = 0 /\ NoSession.direct = NoRun
          /\ NoSession.pending = "NONE"
          /\ ~NoSession.stopRequested /\ ~NoSession.stopQueued
          /\ ~NoSession.settled /\ NoSession.stopResult = "NOT_ATTEMPTED"
          /\ NoSession.attempts = 0 /\ NoSession.end = "NONE"
          /\ NoSession.control = "INACTIVE"
          /\ ~NoSession.protected /\ ~NoSession.calibration /\ NoSession.awaiting = -1
          /\ NoRun.n = 0
      BY DEF NoSession, NoRun
    <3>2. /\ DOMAIN s = Fields /\ s.id = session.id + 1
          /\ \A f \in Fields \ {"id", "active", "web", "withScale", "startQueued", "limit", "lost"} :
                s[f] = NoSession[f]
      BY SessionFields DEF Fields
    <3>3. /\ DOMAIN failed = Fields /\ ~failed.active /\ ~failed.startQueued
          /\ \A f \in Fields \ {"active", "startQueued", "end"} : failed[f] = s[f]
      BY <3>2 DEF Fields
    <3> HIDE DEF s, failed
    <3>4. /\ timerStop' = CloseLast.t
          /\ \/ /\ session' = s
                /\ requests' = CloseLast.q \o StartRequest(s)
                /\ state' = "RINSE"
             \/ /\ session' = failed
                /\ requests' = CloseLast.q
                /\ state' = "REQUIRES_OFF"
      BY DEF BeginRinse, s, failed
    <3>5. /\ DOMAIN session' = Fields /\ session'.id = session.id + 1
          /\ session'.elapsed = 0 /\ session'.direct = NoRun /\ session'.pending = "NONE"
          /\ ~session'.stopRequested /\ ~session'.stopQueued /\ ~session'.settled
          /\ session'.stopResult = "NOT_ATTEMPTED" /\ session'.attempts = 0
          /\ session'.control = "INACTIVE"
          /\ ~session'.protected /\ ~session'.calibration /\ session'.awaiting = -1
      BY <3>1, <3>2, <3>3, <3>4 DEF Fields
    <3>6. state' # "BREW"
      BY <3>4
    <3>7. WeightKept(session)'
      BY <3>1, <3>5, <3>6, SessionFields DEF WeightKept, SessionShape,
         ConnectionOwned, Listens, Tracks, ProtectionKept, ConfirmedIsOwn,
         LostIsNotLearned, Inhibited
    <3>8. \/ session'.end = "NONE" /\ requests' = CloseLast.q \o StartRequest(session')
          \/ /\ ~session'.active /\ ~session'.startQueued
             /\ requests' = CloseLast.q
      <4>1. CASE session' = s /\ requests' = CloseLast.q \o StartRequest(s)
        <5>1. s.end = "NONE"
          BY <3>1, <3>2 DEF Fields
        <5> QED
          BY <4>1, <5>1
      <4>2. CASE session' = failed /\ requests' = CloseLast.q
        BY <3>3, <4>2
      <4> QED
        BY <3>4, <4>1, <4>2
    <3>9. BrewInvariant' /\ drip' = NoDrip /\ (drip # NoDrip => recorded'[drip.cycle] = 1)
      BY <3>4, <3>5, <3>7, <3>8, <2>ReplaceStep DEF BeginRinse
    <3>10. StartRequest(session') \in Seq(Commands) /\ CloseLast.q \in Seq(Commands)
      <4>1. session'.id \in Nat
        BY <3>5, ConfigsAssumption DEF BrewInvariant, BrewShape
      <4>2. [type |-> "START", cycle |-> session'.id] \in Commands
        BY <4>1 DEF Commands
      <4> QED
        BY <4>2, <2>FlushStopKept DEF StartRequest, TimerKept
    <3> QED
      BY <3>5, <3>8, <3>9, <3>10, <2>FlushStopKept, <2>AskStays DEF Begun
  <2> QED
    BY <2>BeginCycleStep, <2>BeginRinseStep
\* An answer of the scale settles the command it is about, of the shot under way, and
\* keeps the invariant: the weight it may wait for again is a new baseline
\* (processScaleWorkerEvents).
<1>AnswerStep. ASSUME BrewInvariant, TakeAnswer
               PROVE  BrewInvariant' /\ session'.id = session.id
                                     /\ session'.active = session.active /\ drip' = drip
                                     /\ recorded' = recorded
  <2> USE <1>AnswerStep
  <2>ResetKept. ASSUME NEW s, WeightOpen(s)
                PROVE  /\ WeightKept(ResetDirectStop(s)) /\ SameShot(s, ResetDirectStop(s))
                       /\ ResetDirectStop(s).lost = s.lost
    BY <2>ResetKept, SessionFields DEF ResetDirectStop, NoRun, Fields, WeightOpen,
       SessionShape, SameShot, ConnectionOwned, Listens, Tracks, ProtectionKept,
       ConfirmedIsOwn, LostIsNotLearned, Inhibited, WeightKept
  <2>ArmKept. ASSUME NEW s, WeightKept(s), s.active, state = "BREW"
              PROVE  LET u == ArmBaseline(s)
                     IN  /\ WeightOpen(u) /\ SameShot(s, u)
                         /\ u.pending = s.pending /\ u.direct = s.direct
    <3> USE <2>ArmKept
    <3> DEFINE t == ResetTrend([s EXCEPT !.awaiting = Grace, !.anchored = FALSE,
                                      !.recovery = NoRun])
               u == SetControl(t, "ACTIVE")
    <3>1. /\ SessionShape(t)
          /\ \A f \in Fields \ {"awaiting", "anchored", "recovery", "expected", "points", "holding"} :
                t[f] = s[f]
      <4> DEFINE r == [s EXCEPT !.awaiting = Grace, !.anchored = FALSE, !.recovery = NoRun]
      <4>1. /\ DOMAIN r = Fields /\ r.awaiting = Grace /\ DOMAIN s = Fields
            /\ \A f \in Fields \ {"awaiting", "anchored", "recovery"} : r[f] = s[f]
        BY SessionFields, ZenonT(40) DEF Fields, WeightKept, SessionShape
      <4> HIDE DEF r
      <4>2. /\ DOMAIN t = Fields
            /\ \A f \in Fields \ {"expected", "points", "holding"} : t[f] = r[f]
        BY <4>1 DEF ResetTrend, Fields, r
      <4> HIDE DEF t
      <4>3. t.awaiting = Grace /\ t.elapsed = s.elapsed /\ t.direct = s.direct
        BY <4>1, <4>2 DEF Fields
      <4>4. SessionShape(t)
        BY <4>2, <4>3, SessionFields, WindowsAssumption
           DEF WeightKept, SessionShape
      <4> QED
        BY <4>1, <4>2, <4>4
    <3> HIDE DEF t
    <3>2. /\ DOMAIN u = DOMAIN t /\ u.control = "ACTIVE" /\ (u.lost => t.lost)
          /\ \A f \in Fields \ {"control", "lost", "automatic", "enforced"} : u[f] = t[f]
      BY <3>1, SessionOps
    <3> HIDE DEF u
    <3>3. ASSUME s.control = "VALIDATING"
          PROVE  /\ WeightOpen(u) /\ SameShot(s, u)
                 /\ u.pending = s.pending /\ u.direct = s.direct
      <4>1. /\ u.active = s.active /\ u.protected = s.protected /\ u.elapsed = s.elapsed
            /\ u.owned = s.owned /\ u.disconnects = s.disconnects
            /\ u.direct = s.direct /\ u.pending = s.pending /\ u.awaiting = t.awaiting
            /\ u.calibration = s.calibration /\ u.protectionEnded = s.protectionEnded
            /\ (u.lost => s.lost) /\ SameShot(s, u)
        BY <3>1, <3>2, ZenonT(40) DEF Fields, SameShot
      <4>2. SessionShape(u)
        BY <3>1, <3>2, <4>1 DEF WeightKept, SessionShape
      <4>3. ConnectionOwned(u)
        BY <2>ArmKept, <3>2, <3>3, <4>1 DEF WeightKept, ConnectionOwned, Listens, Tracks
      <4>4. ProtectionKept(u) /\ LostIsNotLearned(u)
        BY <3>3, <4>1 DEF WeightKept, ProtectionKept, LostIsNotLearned, Inhibited
      <4> QED
        BY <4>1, <4>2, <4>3, <4>4 DEF WeightOpen
    <3>4. WeightOpen(t) /\ SameShot(s, t) /\ t.pending = s.pending /\ t.direct = s.direct
      <4>1. /\ t.active = s.active /\ t.protected = s.protected /\ t.elapsed = s.elapsed
            /\ t.control = s.control /\ t.owned = s.owned /\ t.disconnects = s.disconnects
            /\ t.direct = s.direct /\ t.pending = s.pending
            /\ t.lost = s.lost /\ t.calibration = s.calibration
            /\ t.automatic = s.automatic
            /\ t.automaticBrew = s.automaticBrew /\ t.protectionEnded = s.protectionEnded
            /\ SameShot(s, t)
        BY <3>1, ZenonT(40) DEF Fields, SameShot
      <4>2. ConnectionOwned(t)
        BY <4>1 DEF WeightKept, ConnectionOwned, Listens, Tracks
      <4>3. ProtectionKept(t) /\ LostIsNotLearned(t)
        BY <4>1 DEF WeightKept, ProtectionKept, LostIsNotLearned, Inhibited
      <4> QED
        BY <3>1, <4>1, <4>2, <4>3 DEF WeightOpen
    <3>5. ArmBaseline(s) = IF s.control = "VALIDATING" THEN u ELSE t
      BY DEF ArmBaseline, t, u
    <3> QED
      BY <3>3, <3>4, <3>5
  <2>StartSettledKept. ASSUME BrewInvariant, NEW answer
                       PROVE  LET u == StartSettled(session, answer)
                              IN  /\ WeightKept(u) /\ u.settled
                                  /\ \A f \in {"id", "active", "end", "startQueued", "stopRequested",
                                               "stopQueued", "stopResult", "attempts"} : u[f] = session[f]
                                  /\ session.active \/ u.lost = session.lost
    <3> USE <2>StartSettledKept
    <3> DEFINE t == [session EXCEPT !.started = answer.ok, !.settled = TRUE]
               arms == /\ answer.ok /\ Uses("autoTare") /\ session.withScale
                       /\ session.active /\ state = "BREW"
                       /\ session.awaiting >= 0
                       /\ answer.combined => ~session.retared
               a == ArmBaseline(t)
               v == [a EXCEPT !.awaiting = Grace]
    <3>1. /\ DOMAIN t = Fields /\ DOMAIN session = Fields /\ t.settled
          /\ \A f \in Fields \ {"started", "settled"} : t[f] = session[f]
      BY SessionFields, ZenonT(40)
         DEF Fields, BrewInvariant, WeightKept, SessionShape
    <3> HIDE DEF t
    <3>2. WeightKept(t)
      BY <3>1 DEF Fields, BrewInvariant, WeightKept, SessionShape, ConnectionOwned,
         Listens, Tracks, ProtectionKept, ConfirmedIsOwn, LostIsNotLearned,
         Inhibited
    <3>3. ASSUME arms
          PROVE  WeightKept(v) /\ SameShot(t, v)
      <4>1. /\ WeightOpen(a) /\ SameShot(t, a)
            /\ a.pending = t.pending /\ a.direct = t.direct
        BY <3>1, <3>2, <3>3, <2>ArmKept DEF Fields
      <4> HIDE DEF a
      <4>2. DOMAIN v = Fields /\ v.awaiting = Grace
                              /\ \A f \in Fields \ {"awaiting"} : v[f] = a[f]
        BY <4>1, SessionFields DEF WeightOpen, SessionShape, Fields
      <4> HIDE DEF v
      <4>3. v.pending = session.pending /\ v.direct = session.direct /\ Grace \in Nat
        BY <3>1, <4>1, <4>2, WindowsAssumption DEF Fields
      <4>4. ConfirmedIsOwn(v)
        BY <3>3, <4>3 DEF ConfirmedIsOwn, BrewInvariant, WeightKept, SessionShape
      <4>5. WeightOpen(v) /\ SameShot(a, v)
        BY <4>1, <4>2, <4>3, SessionFields DEF Fields, SameShot, WeightOpen,
           SessionShape, ConnectionOwned, Listens, Tracks, ProtectionKept,
           LostIsNotLearned, Inhibited
      <4> QED
        BY <4>1, <4>4, <4>5 DEF SameShot, WeightOpen, WeightKept
    <3>4. StartSettled(session, answer) = IF arms THEN v ELSE t
      BY DEF StartSettled, t
    <3> HIDE DEF v, arms
    <3>5. t.settled /\ \A f \in {"id", "active", "end", "startQueued", "stopRequested",
                              "stopQueued", "stopResult", "attempts", "lost"} : t[f] = session[f]
      BY <3>1 DEF Fields
    <3>6. arms => session.active
      BY DEF arms
    <3> QED
      BY <3>2, <3>3, <3>4, <3>5, <3>6 DEF SameShot
  <2>1. PICK answer \in answers :
          /\ answers' = answers \ {answer}
          /\ session' =
                  CASE ~Own(answer) -> session
                    [] Own(answer) /\ answer.type = "START"
                         -> StartSettled(session, answer)
                    [] Own(answer) /\ answer.type = "TARE"
                         -> Tared(session, answer)
                    [] Own(answer) /\ answer.type = "STOP"
                         -> StopAnswered(session, answer)
    BY DEF TakeAnswer, ReadAnswer
  <2>2. /\ config' = config /\ state' = state /\ timerStop' = timerStop /\ drip' = drip
        /\ recorded' = recorded /\ connected' = connected /\ generation' = generation
        /\ observed' = observed
        /\ requests' = requests /\ answers' \subseteq answers
    BY <2>1 DEF TakeAnswer
  <2>3. /\ WeightKept(session) /\ TimerKept(session, timerStop, requests)
        /\ DOMAIN session = Fields
    BY SessionFields DEF BrewInvariant, WeightKept, SessionShape
  <2>a. \A i \in DOMAIN requests : requests[i].cycle \in Nat
    <3>1. \A i \in DOMAIN requests : requests[i] \in Commands
      BY <2>3 DEF TimerKept
    <3> QED
      BY <3>1 DEF Commands
  \* What each answer leaves
  <2> DEFINE Result(u) ==
        /\ WeightKept(u) /\ u.id = session.id /\ u.active = session.active
        /\ u.end = session.end /\ u.startQueued = session.startQueued
        /\ u.stopRequested = session.stopRequested
        /\ session.active \/ u.lost = session.lost
        /\ u.settled => session.settled \/ \A i \in DOMAIN requests : requests[i].type # "START"
        /\ ~u.stopRequested => /\ u.stopQueued = session.stopQueued
                               /\ u.stopResult = session.stopResult
                               /\ u.attempts = session.attempts
  <2>4. Result(session)
    BY <2>3
  <2>5. ASSUME Own(answer), answer.type = "START"
        PROVE  Result(StartSettled(session, answer))
    <3>1. \A i \in DOMAIN requests : requests[i].type # "START"
      BY <2>3, <2>5, <2>a
         DEF TimerKept, StartsInOrder, Own, BrewInvariant, BrewShape
    <3> QED
      BY <3>1, <2>StartSettledKept
  <2>6. ASSUME Own(answer), answer.type = "TARE"
        PROVE  Result(Tared(session, answer))
    <3>1. CASE answer.ok /\ session.withScale /\ session.active /\ state = "BREW"
      <4> DEFINE a == ArmBaseline(session)
      <4>1. WeightOpen(a) /\ SameShot(session, a)
        BY <2>3, <3>1, <2>ArmKept
      <4> HIDE DEF a
      <4>2. WeightKept(ResetDirectStop(a)) /\ SameShot(a, ResetDirectStop(a))
        BY <4>1, <2>ResetKept
      <4>3. Tared(session, answer) = ResetDirectStop(a)
        BY <3>1 DEF Tared, a
      <4> QED
        BY <3>1, <4>1, <4>2, <4>3 DEF SameShot
    <3>2. CASE ~(answer.ok /\ session.withScale /\ session.active /\ state = "BREW")
      BY <2>4, <3>2 DEF Tared
    <3> QED
      BY <3>1, <3>2
  <2>7. ASSUME Own(answer), answer.type = "STOP"
        PROVE  Result(StopAnswered(session, answer))
    <3> DEFINE u == StopAnswered(session, answer)
    <3>1. /\ DOMAIN u = Fields
          /\ \A f \in Fields \ {"stopQueued", "stopResult"} : u[f] = session[f]
      BY <2>3 DEF StopAnswered, Fields
    <3> HIDE DEF u
    <3>2. session.stopRequested
      BY <2>3, <2>7 DEF TimerKept, StopIsDeferred, Own
    <3>3. WeightKept(u)
      BY <2>3, <3>1, SessionFields DEF Fields, WeightKept, SessionShape,
         ConnectionOwned, Listens, Tracks, ProtectionKept, ConfirmedIsOwn,
         LostIsNotLearned, Inhibited
    <3>4. Result(u)
      BY <3>1, <3>2, <3>3 DEF Fields
    <3> QED
      BY <3>4 DEF u
  <2>8. Result(session')
    <3> HIDE DEF Result
    <3> QED
      BY <2>1, <2>3, <2>4, <2>5, <2>6, <2>7 DEF BrewInvariant, BrewShape
  <2>9. WeightKept(session)'
    BY <2>2, <2>8, SessionFields DEF WeightKept, SessionShape, ConnectionOwned,
       Listens, Tracks, ProtectionKept, ConfirmedIsOwn, LostIsNotLearned, Inhibited,
       Uses
  <2>10. BrewShape' /\ OwedByLast'
    BY <2>2, <2>8, SessionFields
       DEF BrewInvariant, BrewShape, OwedByLast, NoTimerStop
  <2>11. TimerKept(session, timerStop, requests)'
    BY <2>2, <2>3, <2>8 DEF TimerKept, StopIsDeferred, StartsInOrder, StopsInOrder
  <2> QED
    BY <2>2, <2>8, <2>9, <2>10, <2>11 DEF BrewInvariant
\* A sample keeps the invariant, the shot and what is owed of the last one
\* (recordWeightSampleWithProvenance).
<1>WeightStep. ASSUME BrewInvariant, TakeWeight
               PROVE  Calm /\ drip' = drip /\ recorded' = recorded
             \* A sample that is over the target, or out of range, makes the confirmation grow, sets
             \* the reason to stop or gives up; the reason is its own (considerDirectStopSample).
  <2> USE <1>WeightStep
  <2>ConsiderKept. ASSUME NEW s, NEW w, NEW inRow, NEW expected, WeightOpen(s),
                          ConfirmedIsOwn(s) \/ (Tracks(s) /\ s.control = "ACTIVE"),
                          s.control \in {"ACTIVE", "VALIDATING"} => s.owned = generation,
                          s.awaiting < 0 \/ w = Overload
                   PROVE  /\ WeightKept(Consider(s, w, inRow, expected))
                          /\ SameShot(s, Consider(s, w, inRow, expected))
                          /\ SameLink(s, Consider(s, w, inRow, expected))
    <3> USE <2>ConsiderKept
    <3> DEFINE run == [n |-> IF inRow THEN 2 ELSE 1, age |-> 0, next |-> TRUE,
                       w |-> 0, gen |-> generation]
               t == [s EXCEPT !.direct = run]
               Kept(v) == WeightKept(v) /\ SameShot(s, v) /\ SameLink(s, v)
               listens == s.control = "ACTIVE" \/ (w = Overload /\ s.control = "VALIDATING")
               u == Consider(s, w, inRow, expected)
    <3> HIDE DEF Kept
    <3>1. ConfirmedIsOwn(s) => Kept(s)
      BY DEF Kept, SameShot, SameLink, WeightKept, WeightOpen
    <3>2. CASE ~Tracks(s) \/ Inhibited(s)
      <4>1. ConfirmedIsOwn(s)
        BY <3>2 DEF ConfirmedIsOwn, WeightOpen, ProtectionKept
      <4> QED
        BY <3>1, <3>2, <4>1 DEF Consider, Kept
    <3>3. CASE Tracks(s) /\ ~Inhibited(s) /\ ~listens
      BY <3>1, <3>3 DEF Consider, Kept
    <3>4. CASE Tracks(s) /\ ~Inhibited(s) /\ listens
      <4>0. run = [f \in {"n", "age", "next", "w", "gen"} |-> run[f]]
        OBVIOUS
      <4>1. /\ DOMAIN run = DOMAIN NoRun /\ run.n = (IF inRow THEN 2 ELSE 1)
            /\ run.gen = generation
        BY <4>0, SessionFields
      <4> HIDE DEF run
      <4> USE SessionFields DEF Fields, WeightKept, SessionShape, SameShot,
            SameLink, WeightOpen, ConnectionOwned, Listens, Tracks, ProtectionKept,
            ConfirmedIsOwn, LostIsNotLearned, Inhibited
      <4>2. ~inRow => Kept(t)
        BY <4>1 DEF Kept
      <4>3. ASSUME w = Overload
            PROVE Kept(SetControl([t EXCEPT !.pending = "WEIGHT_ANOMALY",
                                            !.calibration = FALSE],
                                   "FAULT_STOPPED"))
        <5> DEFINE v == SetControl([t EXCEPT !.pending = "WEIGHT_ANOMALY",
                                             !.calibration = FALSE], "FAULT_STOPPED")
        <5>1. SameShot(s, v) /\ SameLink(s, v)
          BY DEF SetControl
        <5>2. SessionShape(v)
          BY <4>1 DEF SetControl
        <5>3. v.control = "FAULT_STOPPED" /\ v.owned = s.owned /\ v.disconnects = s.disconnects
          BY DEF SetControl
        <5>4. ConnectionOwned(v)
          <6> HIDE DEF v
          <6> QED
            BY <3>4, <5>3
        <5>5. ConfirmedIsOwn(v) /\ ProtectionKept(v)
          BY <3>4, <4>1, <4>3 DEF SetControl
        <5>6. LostIsNotLearned(v)
          BY <4>1 DEF SetControl
        <5> QED
          BY <5>1, <5>2, <5>5, <5>6, <5>4 DEF Kept
      <4>4. ASSUME w # Overload, NEW reason PROVE Kept([t EXCEPT !.pending = reason])
        <5> DEFINE v == [t EXCEPT !.pending = reason]
        <5>1. SameShot(s, v) /\ SameLink(s, v)
          OBVIOUS
        <5>2. SessionShape(v) /\ ConnectionOwned(v) /\ LostIsNotLearned(v)
          BY <4>1
        <5>3. ConfirmedIsOwn(v) /\ ProtectionKept(v)
          BY <3>4, <4>1, <4>4
        <5> QED
          BY <5>1, <5>2, <5>3 DEF Kept
      <4>5. ASSUME w # Overload PROVE Kept(t)
        <5>1. SameShot(s, t) /\ SameLink(s, t)
          OBVIOUS
        <5>2. SessionShape(t) /\ ConnectionOwned(t) /\ ProtectionKept(t) /\ LostIsNotLearned(t)
          BY <4>1
        <5>3. ConfirmedIsOwn(t)
          BY <3>4, <4>1, <4>5
        <5> QED
          BY <5>1, <5>2, <5>3 DEF Kept
      <4>6. ASSUME w # Overload PROVE Kept(ResetDirectStop(EnterFast(t, expected)))
        <5> DEFINE e == EnterFast(t, expected)
        <5> HIDE DEF WeightKept, SessionShape, SameShot, SameLink, WeightOpen,
                     ConnectionOwned, Listens, Tracks, ProtectionKept,
                     ConfirmedIsOwn, LostIsNotLearned, Inhibited, Fields, e, t
        <5>1. Kept(t)
          BY <4>5, <4>6 DEF t
        <5>a. WeightKept(t) /\ SessionShape(t)
          BY <5>1 DEF Kept, WeightKept
        <5>2. WeightKept(e) /\ SameShot(t, e) /\ SameLink(t, e)
          BY <5>a, SessionOps, Zenon DEF e
        <5>b. SessionShape(e)
          BY <5>2 DEF WeightKept
        <5>3. /\ WeightKept(ResetDirectStop(e)) /\ SameShot(e, ResetDirectStop(e))
              /\ SameLink(e, ResetDirectStop(e))
          BY <5>2, <5>b, SessionOps, Zenon
        <5> QED
          BY <5>1, <5>2, <5>3 DEF Kept, SameShot, SameLink, e, t
      <4>7. Kept(ResetDirectStop(s))
        BY DEF Kept, ResetDirectStop, NoRun
      <4>8. Kept(u)
        <5> HIDE DEF WeightKept, SessionShape, SameShot, SameLink, Inhibited
        <5> QED
          BY <3>4, <4>2, <4>3, <4>4, <4>6, <4>7 DEF Consider, run
      <4> QED
        BY <4>8 DEF Kept
    <3> QED
      BY <3>2, <3>3, <3>4 DEF Kept
  \* Whatever a sample shows, the session keeps what the brew needs of it, and its shot
  \* (recordWeightSampleWithProvenance).
  <2>WeighKept. ASSUME NEW before, NEW w, NEW lost, NEW touch, NEW expected,
                       WeightKept(before), generation \in Nat \ {0}
                PROVE  LET u == Weigh(before, w, lost, touch, expected).s
                       IN  /\ WeightKept(u) /\ SameShot(before, u)
                           /\ before.active \/ u.lost = before.lost
                           /\ Listens(u) => u.owned = generation
                \* Giving up on what a sample showed leaves the shot alone.
    <3> USE <2>WeighKept
    <3>SetBack. ASSUME NEW s, WeightKept(s), s.control \in {"ACTIVE", "VALIDATING"}
                PROVE  LET u == SetControl(s, "VALIDATING") IN
                       /\ WeightKept(u) /\ SameShot(s, u) /\ u.owned = s.owned
      <4> USE <3>SetBack
      <4> DEFINE u == SetControl(s, "VALIDATING")
      <4>1. /\ DOMAIN u = DOMAIN s /\ u.control = "VALIDATING"
            /\ (u.lost => s.lost) /\ ~u.automatic
            /\ \A f \in Fields \ {"control", "lost", "automatic", "enforced"} :
                     u[f] = s[f]
        BY SessionOps DEF WeightKept
      <4> HIDE DEF u
      <4>2. WeightKept(u) /\ SameShot(s, u) /\ u.owned = s.owned
        BY <4>1 DEF Fields, WeightKept, SessionShape, SameShot, ConnectionOwned,
              Listens, Tracks, ProtectionKept, ConfirmedIsOwn, LostIsNotLearned,
              Inhibited
      <4> QED
        BY <4>2 DEF u
    <3>Edits. ASSUME NEW s, WeightKept(s)
              PROVE  /\ \A r : LET v == [s EXCEPT !.recovery = r]
                               IN  /\ WeightKept(v) /\ SameShot(s, v)
                                   /\ v.control = s.control /\ v.owned = s.owned
                     /\ LET v == [s EXCEPT !.calibration = FALSE]
                        IN  /\ WeightKept(v) /\ SameShot(s, v)
                            /\ v.control = s.control /\ v.owned = s.owned
                     /\ \A h : LET v == [s EXCEPT !.holding = h]
                               IN  /\ WeightKept(v) /\ SameShot(s, v)
                                   /\ v.awaiting = s.awaiting
                                   /\ v.control = s.control /\ v.owned = s.owned
                     /\ LET v == [s EXCEPT !.awaiting = -1]
                        IN  /\ WeightKept(v) /\ SameShot(s, v)
                            /\ v.control = s.control /\ v.owned = s.owned
      <4> USE <3>Edits
      <4> USE SessionFields DEF Fields, WeightKept, SessionShape, SameShot,
              ConnectionOwned, Listens, Tracks, ProtectionKept, ConfirmedIsOwn,
              LostIsNotLearned, Inhibited
      <4>1. \A r : LET v == [s EXCEPT !.recovery = r]
                         IN  /\ WeightKept(v) /\ SameShot(s, v)
                             /\ v.control = s.control /\ v.owned = s.owned
        OBVIOUS
      <4>2. LET v == [s EXCEPT !.calibration = FALSE]
                  IN  /\ WeightKept(v) /\ SameShot(s, v)
                      /\ v.control = s.control /\ v.owned = s.owned
        OBVIOUS
      <4>3. \A h : LET v == [s EXCEPT !.holding = h]
                         IN  /\ WeightKept(v) /\ SameShot(s, v) /\ v.awaiting = s.awaiting
                             /\ v.control = s.control /\ v.owned = s.owned
        OBVIOUS
      <4>4. LET v == [s EXCEPT !.awaiting = -1]
                  IN  /\ WeightKept(v) /\ SameShot(s, v)
                      /\ v.control = s.control /\ v.owned = s.owned
        OBVIOUS
      <4> QED
        BY <4>1, <4>2, <4>3, <4>4
    <3> DEFINE inRow(run)  == run.n > 0 /\ run.next /\ ~lost /\ Fresh(run.age)
               directInRow == inRow(before.direct) /\ before.direct.gen = generation
               seen == [before EXCEPT !.direct.next = FALSE, !.recovery.next = FALSE]
               s    == IF seen.owned \notin {0, generation} THEN Suspend(seen)
                       ELSE seen
               OnLink(v) == v.control \in {"ACTIVE", "VALIDATING"} => v.owned = generation
               Kept(v) == WeightKept(v) /\ SameShot(before, v) /\ OnLink(v)
               recovers == RecoveryPlausible(s, w, s.recovery, inRow(before.recovery))
               run == [n |-> s.recovery.n + 1, age |-> 0, next |-> TRUE,
                    w |-> w, gen |-> 0]
    <3>1. WeightKept(seen) /\ SameShot(before, seen)
      BY SessionFields DEF Fields, WeightKept, SessionShape, SameShot,
            ConnectionOwned, Listens, Tracks, ProtectionKept, ConfirmedIsOwn,
            LostIsNotLearned, Inhibited, NoRun
    <3> HIDE DEF seen
    <3>2. WeightKept(s) /\ SameShot(before, s)
      BY <3>1, SessionOps DEF SameShot, WeightKept
    <3>3. OnLink(s)
      BY <3>1, SessionFields DEF Suspend, SetControl, ResetTrend, Fields,
         WeightKept, SessionShape, ConnectionOwned, Listens, Tracks
    <3>4. Tracks(seen) => Tracks(s) /\ s.active /\ state = "BREW" /\ s.control # "INACTIVE"
      BY <3>1, SessionFields DEF Tracks, Suspend, SetControl, ResetTrend, Fields,
         WeightKept,
         SessionShape
    <3> HIDE DEF s
    <3>5. ASSUME Tracks(seen)
          PROVE  Kept(OutOfRange(s, Overload, directInRow, expected).s)
      <4> DEFINE c == Consider(s, Overload, directInRow, expected)
                 t == [c EXCEPT !.calibration = FALSE]
                 u == IF t.control = "ACTIVE" THEN SetControl(t, "VALIDATING") ELSE t
                 v == [u EXCEPT !.recovery = NoRun]
      <4>1. WeightKept(c) /\ SameShot(s, c) /\ SameLink(s, c)
        BY <3>2, <3>3, <2>ConsiderKept DEF WeightKept, WeightOpen
      <4> HIDE DEF c
      <4>2. WeightKept(t) /\ SameShot(c, t) /\ SameLink(c, t)
        BY <4>1, <3>Edits DEF SameLink
      <4> HIDE DEF t
      <4>3. WeightKept(u) /\ SameShot(t, u) /\ SameLink(t, u)
        BY <4>2, <3>SetBack DEF SameShot, SameLink
      <4> HIDE DEF u
      <4>4. WeightKept(v) /\ SameShot(u, v) /\ SameLink(u, v)
        BY <4>3, <3>Edits DEF SameLink
      <4>5. OutOfRange(s, Overload, directInRow, expected).s = v
        BY DEF OutOfRange, u, t, c
      <4> HIDE DEF v
      <4>6. SameShot(before, v) /\ OnLink(v)
        BY <3>2, <3>3, <4>1, <4>2, <4>3, <4>4 DEF SameShot, SameLink
      <4> QED
        BY <4>4, <4>5, <4>6
    <3>6. Kept(Baseline(s, w, expected).s)
      <4> DEFINE a == [s EXCEPT !.awaiting = -1]
      <4>1. WeightKept(a) /\ SameShot(s, a) /\ SameLink(s, a)
        BY <3>2, <3>Edits DEF SameLink
      <4> HIDE DEF a
      <4>2. /\ WeightKept(Accept(a, w, expected)) /\ SameShot(a, Accept(a, w, expected))
            /\ SameLink(a, Accept(a, w, expected))
        BY <4>1, SessionOps DEF WeightKept
      <4>3. Baseline(s, w, expected).s \in {s, Accept(a, w, expected)}
        BY DEF Baseline, a
      <4> QED
        BY <3>2, <3>3, <4>1, <4>2, <4>3 DEF SameShot, SameLink
    <3>7. ASSUME NEW u, WeightOpen(u), SameShot(before, u), u.awaiting < 0,
                 ConfirmedIsOwn(u) \/ (Tracks(u) /\ u.control = "ACTIVE"),
                 u.control = "ACTIVE", u.owned = generation
          PROVE  Kept(Judge(u, w, directInRow, touch, expected).s)
      <4> DEFINE t == IF Uses("touch") /\ u.withScale /\ u.control = "ACTIVE"
                      THEN [u EXCEPT !.holding = touch] ELSE u
                 c == Consider(t, w, directInRow, expected)
      <4>1. /\ WeightOpen(t) /\ SameShot(u, t) /\ t.awaiting < 0
            /\ ConfirmedIsOwn(t) \/ (Tracks(t) /\ t.control = "ACTIVE")
            /\ t.control = "ACTIVE" /\ t.owned = generation
        BY <3>7, SessionFields DEF Fields, WeightOpen, SessionShape, SameShot,
            ConnectionOwned, Listens, ProtectionKept, ConfirmedIsOwn,
            LostIsNotLearned, Inhibited, Tracks
      <4> HIDE DEF t
      <4>2. WeightKept(c) /\ SameShot(t, c) /\ SameLink(t, c)
        BY <4>1, <2>ConsiderKept
      <4> HIDE DEF c
      <4>3. /\ WeightKept(Accept(c, w, expected)) /\ SameShot(c, Accept(c, w, expected))
            /\ SameLink(c, Accept(c, w, expected))
        BY <4>2, SessionOps DEF WeightKept
      <4>4. /\ WeightKept(ResetDirectStop(t)) /\ SameShot(t, ResetDirectStop(t))
            /\ SameLink(t, ResetDirectStop(t))
        BY <4>1, SessionFields DEF ResetDirectStop, SameLink, NoRun, Fields, WeightOpen,
           SessionShape, SameShot, ConnectionOwned, Listens, Tracks, ProtectionKept,
           ConfirmedIsOwn, LostIsNotLearned, Inhibited, WeightKept
      <4>5. Judge(u, w, directInRow, touch, expected).s
              \in {ResetDirectStop(t), Accept(c, w, expected)}
        BY DEF Judge, t, c
      <4> QED
        BY <3>7, <4>1, <4>2, <4>3, <4>4, <4>5 DEF SameShot, SameLink
    <3>8. ASSUME Tracks(seen), s.awaiting < 0, s.control = "ACTIVE"
          PROVE  Kept(Judge(s, w, directInRow, touch, expected).s)
      BY <3>2, <3>3, <3>7, <3>8, SMTT(20) DEF WeightKept, WeightOpen
    <3>9. ASSUME Tracks(seen), s.awaiting < 0
          PROVE  Kept(Judge(Recover(s, w), w, directInRow, touch, expected).s)
      <4> DEFINE u == Recover(s, w)
                 q == ResetTrend(s)
                 r == [q EXCEPT
                         !.owned = generation, !.disconnects = Disconnects,
                         !.recovery = NoRun,
                         !.anchored = TRUE, !.anchor = w, !.anchorAge = 0]
      <4>c. /\ DOMAIN s = Fields /\ DOMAIN q = Fields
            /\ \A f \in Fields \ {"expected", "points", "holding"} : q[f] = s[f]
        BY <3>2, SessionFields DEF ResetTrend, Fields, WeightKept, SessionShape
      <4> HIDE DEF q
      <4>d. /\ DOMAIN r = Fields /\ r.owned = generation /\ r.disconnects = Disconnects
            /\ \A f \in Fields \ {"owned", "disconnects", "recovery", "anchored", "anchor",
                                  "anchorAge"} : r[f] = q[f]
        BY <4>c DEF Fields
      <4> HIDE DEF r
      <4>e. \A f \in Fields \ {"owned", "disconnects", "recovery", "anchored", "anchor",
                               "anchorAge", "expected", "points", "holding"} : r[f] = s[f]
        BY <4>c, <4>d
      <4>f. r.elapsed = s.elapsed /\ r.awaiting = s.awaiting /\ r.direct = s.direct
        BY <4>e DEF Fields
      <4>0. SessionShape(r) /\ r.disconnects \in {generation - 1, generation}
        BY <3>2, <4>c, <4>d, <4>f, SessionFields
           DEF Disconnects, WeightKept, SessionShape
      <4>b. u = SetControl(r, "ACTIVE")
        BY DEF Recover, r, q
      <4> HIDE DEF u
      <4>a. /\ DOMAIN u = DOMAIN r /\ u.control = "ACTIVE"
            /\ (u.lost => r.lost)
            /\ \A f \in Fields \ {"control", "lost", "automatic", "enforced"} :
                   u[f] = r[f]
        BY <4>0, <4>b, SessionOps
      <4>1. /\ WeightOpen(u) /\ SameShot(s, u) /\ u.awaiting < 0
            /\ Tracks(u) /\ u.control = "ACTIVE" /\ u.owned = generation
        BY <3>2, <3>4, <3>9, <4>0, <4>d, <4>e, <4>a DEF
            Fields, WeightKept, WeightOpen, SessionShape, SameShot,
            ConnectionOwned, ProtectionKept, ConfirmedIsOwn, LostIsNotLearned,
            Inhibited, Tracks
      <4> HIDE DEF u
      <4> QED
        BY <3>2, <3>7, <4>1 DEF SameShot, u
    <3>10. ASSUME s.control = "ACTIVE"
           PROVE  Kept([SetControl(s, "VALIDATING") EXCEPT
                                !.recovery = NoRun, !.calibration = FALSE])
      <4> DEFINE u == SetControl(s, "VALIDATING")
                 v == [u EXCEPT !.recovery = NoRun]
                 x == [v EXCEPT !.calibration = FALSE]
      <4>1. WeightKept(u) /\ SameShot(s, u) /\ SameLink(s, u)
        BY <3>2, <3>10, <3>SetBack DEF SameLink
      <4> HIDE DEF u
      <4>2. WeightKept(v) /\ SameShot(u, v) /\ SameLink(u, v)
        BY <4>1, <3>Edits DEF SameLink
      <4> HIDE DEF v
      <4>3. WeightKept(x) /\ SameShot(v, x) /\ SameLink(v, x)
        BY <4>2, <3>Edits DEF SameLink
      <4>4. [u EXCEPT !.recovery = NoRun, !.calibration = FALSE] = x
        BY DEF x, v
      <4> HIDE DEF x
      <4> QED
        BY <3>2, <3>3, <4>1, <4>2, <4>3, <4>4 DEF SameShot, SameLink, u
    <3>11. ASSUME NEW r PROVE Kept([s EXCEPT !.recovery = r])
      <4> DEFINE v == [s EXCEPT !.recovery = r]
      <4>1. WeightKept(v) /\ SameShot(s, v) /\ SameLink(s, v)
        BY <3>2, <3>Edits DEF SameLink
      <4> HIDE DEF v
      <4> QED
        BY <3>2, <3>3, <4>1 DEF SameShot, SameLink, v
    <3>12. s.awaiting >= 0 \/ s.awaiting < 0
      BY <3>2 DEF WeightKept, SessionShape
    <3> HIDE DEF Kept
    <3>13. LET v == Weigh(before, w, lost, touch, expected).s
           IN  WeightKept(v) /\ SameShot(before, v) /\ (Listens(v) => v.owned = generation)
      <4> HIDE DEF inRow, recovers
      <4> DEFINE W == Weigh(before, w, lost, touch, expected)
      <4>1. W = IF ~Tracks(seen) THEN [s |-> seen, kept |-> w # Overload]
            ELSE IF w = Overload THEN OutOfRange(s, w, directInRow, expected)
            ELSE IF s.awaiting >= 0 THEN Baseline(s, w, expected)
            ELSE IF s.control = "ACTIVE"
            THEN IF Plausible(s, w) THEN Judge(s, w, directInRow, touch, expected)
                 ELSE [s |-> [SetControl(s, "VALIDATING") EXCEPT
                                !.recovery = NoRun, !.calibration = FALSE],
                       kept |-> FALSE]
            ELSE IF ~recovers
            THEN [s |-> [s EXCEPT !.recovery = NoRun], kept |-> FALSE]
            ELSE IF run.n < 3
            THEN [s |-> [s EXCEPT !.recovery = run], kept |-> FALSE]
            ELSE Judge(Recover(s, w), w, directInRow, touch, expected)
        BY DEF Weigh, seen, s, inRow, recovers
      <4> HIDE DEF W, directInRow, run
      <4> QED
        BY <3>1, <3>5, <3>6, <3>8, <3>9, <3>10, <3>11, <3>12, <4>1 DEF Kept, Listens, W
    <3>14. ASSUME ~before.active
           PROVE  Weigh(before, w, lost, touch, expected).s.lost = before.lost
      <4>1. ~Tracks(seen) /\ seen.lost = before.lost
        BY <3>14, SessionFields DEF Tracks, seen, Fields, WeightKept, SessionShape
      <4> QED
        BY <4>1 DEF Weigh, seen
    <3> QED
      BY <3>13, <3>14
  <2>1. PICK w \in config.weights, event \in CupEvents,
            lost, touch, drop \in BOOLEAN,
            expected \in {session.elapsed, session.elapsed + 1, Wall} :
            LET retares == Retares(session, w, event)
                removed == /\ event = "REMOVED" /\ session.active
                           /\ state = "BREW" /\ ~Uses("timerOnly")
                           /\ session.withScale
                s == [session EXCEPT !.cupRemoved = @ \/ removed,
                                     !.retared = @ \/ retares,
                                     !.retareEnded = @ \/ retares,
                                     !.dropped = @ \/ drop]
                r == Weigh(s, w, lost, touch, expected)
                seen == [seen |-> TRUE, age |-> 0, gen |-> generation]
            IN  /\ touch => Uses("touch")
                /\ lost => Uses("loss")
                /\ drop => Uses("drops") /\ session.withScale
                /\ expected # Wall => Uses("trend")
                /\ session' = r.s
                /\ observed' = seen
                /\ current' = IF r.kept THEN seen ELSE current
                /\ requests' = IF retares
                               THEN Append(requests, [type |-> "TARE",
                                                      cycle |-> s.id])
                               ELSE requests
    BY DEF TakeWeight
  <2> DEFINE retares == Retares(session, w, event)
             removed == /\ event = "REMOVED" /\ session.active
                           /\ state = "BREW" /\ ~Uses("timerOnly")
                           /\ session.withScale
             s == [session EXCEPT !.cupRemoved = @ \/ removed,
                                     !.retared = @ \/ retares,
                                     !.retareEnded = @ \/ retares,
                                     !.dropped = @ \/ drop]
             c == [type |-> "TARE", cycle |-> session.id]
  <2>2. /\ DOMAIN s = Fields /\ DOMAIN session = Fields
        /\ \A f \in Fields \ {"cupRemoved", "retared", "retareEnded", "dropped"} : s[f] = session[f]
    BY SessionFields DEF BrewInvariant, WeightKept, SessionShape, Fields
  <2> HIDE DEF s, retares
  <2>3. WeightKept(s) /\ SameShot(session, s) /\ s.lost = session.lost
    BY <2>2, SessionFields DEF Fields, SameShot, BrewInvariant, WeightKept,
       SessionShape, ConnectionOwned, Listens, Tracks, ProtectionKept,
       ConfirmedIsOwn, LostIsNotLearned, Inhibited
  <2>4. generation \in Nat \ {0}
    BY DEF TakeWeight, BrewInvariant, BrewShape
  <2>5. /\ WeightKept(session') /\ SameShot(s, session')
        /\ Listens(session') => session'.owned = generation
        /\ s.active \/ session'.lost = s.lost
        /\ requests' = IF retares THEN Append(requests, c) ELSE requests
    <3>1. /\ session' = Weigh(s, w, lost, touch, expected).s
          /\ requests' = IF retares THEN Append(requests, [type |-> "TARE", cycle |-> s.id]) ELSE requests
      BY <2>1 DEF s, retares
    <3>2. s.id = session.id
      BY <2>3 DEF SameShot
    <3> QED
      BY <2>3, <2>4, <3>1, <3>2, <2>WeighKept
  <2>6. SameShot(session, session') /\ (session.active \/ session'.lost = session.lost)
    BY <2>3, <2>5 DEF SameShot
  <2>7. /\ config' = config /\ state' = state /\ timerStop' = timerStop /\ drip' = drip
        /\ recorded' = recorded /\ connected' = connected /\ generation' = generation
        /\ answers' = answers /\ observed' = [seen |-> TRUE, age |-> 0, gen |-> generation]
    BY <2>1 DEF TakeWeight
  <2>8. CASE ~retares
    BY <2>5, <2>6, <2>7, <2>8, <1>QuietStep DEF Calm, SameShot
  <2>9. CASE retares
    <3>1. /\ requests \in Seq(Commands) /\ session.id \in Nat
          /\ StopIsDeferred(session, timerStop, requests)
          /\ StartsInOrder(session, requests)
          /\ StopsInOrder(requests)
      BY DEF BrewInvariant, BrewShape, TimerKept
    <3>2. c \in Commands /\ c.type = "TARE" /\ c.cycle = session.id
      BY <3>1 DEF Commands
    <3> HIDE DEF c
    <3>3. /\ requests' \in Seq(Commands) /\ DOMAIN requests' = 1 .. Len(requests) + 1
          /\ DOMAIN requests = 1 .. Len(requests) /\ Len(requests) \in Nat
          /\ requests'[Len(requests) + 1] = c
          /\ \A i \in DOMAIN requests : requests'[i] = requests[i]
      BY <2>5, <2>9, <3>1, <3>2
    <3>4. \A i \in DOMAIN requests' : i \in DOMAIN requests \/ i = Len(requests) + 1
      BY <3>3
    <3>5. StopIsDeferred(session, timerStop, requests)'
      BY <2>6, <2>7, <3>1, <3>2, <3>3, <3>4 DEF StopIsDeferred, SameShot
    <3>6. StopsInOrder(requests)'
      BY <3>1, <3>2, <3>3, <3>4 DEF StopsInOrder
    <3>7. StartsInOrder(session, requests)'
      BY <2>6, <2>7, <3>1, <3>2, <3>3, <3>4, SMTT(20) DEF StartsInOrder, SameShot
    <3>8. WeightKept(session)'
      BY <2>5, <2>7, SessionFields DEF WeightKept, SessionShape, ConnectionOwned,
         Listens, Tracks, ProtectionKept, ConfirmedIsOwn, LostIsNotLearned,
         Inhibited, Uses
    <3>9. BrewShape' /\ OwedByLast'
      BY <2>4, <2>6, <2>7, SessionFields
         DEF BrewInvariant, BrewShape, OwedByLast, SameShot
    <3> QED
      BY <2>6, <2>7, <3>3, <3>5, <3>6, <3>7, <3>8, <3>9 DEF Calm, BrewInvariant,
         TimerKept, SameShot
  <2> QED
    BY <2>7, <2>8, <2>9
\* A cycle that ends stops the timer or defers the stop, and owes its record, which
\* may be learned from only if it lost nothing (finalizeCycle).
<1>EndStep. ASSUME BrewInvariant, NEW s, NEW reason, NEW next,
                   WeightKept(s), SameShot(session, s), session.active,
                   Finalize(s, requests, reason, next), UNCHANGED <<Unmoved, LinkKept>>
            PROVE  Ended /\ session'.end = reason
  <2> USE <1>EndStep
  <2>Given. /\ TimerKept(s, timerStop, requests) /\ s.active /\ s.id = session.id
            /\ config' = config /\ recorded' = recorded /\ answers' = answers
            /\ connected' = connected /\ generation' = generation /\ observed' = observed
    BY DEF BrewInvariant, TimerKept, StopIsDeferred, StartsInOrder, SameShot, Unmoved,
       LinkKept
  \* The end of a shot defers the stop of the timer, or requests it
  \* (scheduleScaleTimerStopAfterCycle).
  <2>ScheduleStopKept. ASSUME NEW u, NEW t, NEW q, NEW shown, TimerKept(u, t, q), u.id \in Nat,
                              DOMAIN u = Fields, DOMAIN t = DOMAIN NoTimerStop
                       PROVE  LET r == ScheduleStop(u, t, q, shown)
                              IN  /\ TimerKept(r.s, r.t, r.q) /\ SameButStop(u, r.s)
                                  /\ DOMAIN r.t = DOMAIN NoTimerStop
                                  /\ u.startQueued /\ ~r.s.stopRequested => r.t.phase # "NONE"
    <3> USE <2>ScheduleStopKept
    <3> DEFINE wait == [phase |-> "CATCHUP", left |-> CatchUp]
               r1 == ServiceStop(u, wait, q, shown)
               R == ScheduleStop(u, t, q, shown)
    <3>0. DOMAIN wait = DOMAIN NoTimerStop /\ wait.phase = "CATCHUP"
      <4>1. /\ NoTimerStop = [f \in {"phase", "left"} |-> NoTimerStop[f]]
            /\ wait = [f \in {"phase", "left"} |-> wait[f]]
        BY DEF NoTimerStop
      <4> QED
        BY <4>1
    <3>1. R = IF ~u.startQueued \/ u.stopRequested THEN Timer(u, t, q) ELSE r1
      BY DEF ScheduleStop
    <3> HIDE DEF wait, R
    <3>2. SameButStop(u, u)
      BY DEF SameButStop
    <3>3. CASE ~u.startQueued \/ u.stopRequested
      BY <3>1, <3>2, <3>3 DEF Timer, R
    <3>4. CASE u.startQueued /\ ~u.stopRequested
      <4>1. TimerKept(u, wait, q)
        BY <3>0 DEF TimerKept, StopIsDeferred
      <4>2. /\ TimerKept(r1.s, r1.t, r1.q) /\ SameButStop(u, r1.s)
            /\ DOMAIN r1.t = DOMAIN NoTimerStop
            /\ ~r1.s.stopRequested => r1.t.phase # "NONE"
        BY <3>0, <3>4, <4>1, <1>ServiceStopKept
      <4> QED
        BY <3>1, <3>4, <4>2 DEF R
    <3> QED
      BY <3>3, <3>4
  <2> USE <2>Given
  <2>0. DOMAIN s = Fields /\ s.id \in Nat /\ DOMAIN timerStop = DOMAIN NoTimerStop
        /\ session.id > 0 /\ drip = NoDrip
    BY SessionFields
       DEF WeightKept, SessionShape, BrewInvariant, BrewShape, OwedByLast
  <2>1. PICK shown \in BOOLEAN :
          LET r == ScheduleStop(s, timerStop, requests, shown)
          IN  /\ session' = [r.s EXCEPT !.active = FALSE, !.awaiting = -1,
                                          !.end = reason]
              /\ timerStop' = r.t
              /\ requests' = r.q
    BY DEF Finalize
  <2> DEFINE r == ScheduleStop(s, timerStop, requests, shown)
  <2>2. /\ TimerKept(r.s, timerStop', requests') /\ SameButStop(s, r.s)
        /\ DOMAIN timerStop' = DOMAIN NoTimerStop
        /\ s.startQueued /\ ~r.s.stopRequested => timerStop'.phase # "NONE"
        /\ session' = [r.s EXCEPT !.active = FALSE, !.awaiting = -1, !.end = reason]
    BY <2>0, <2>1, <2>ScheduleStopKept
  <2> DEFINE u == r.s
  <2> HIDE DEF u
  <2>3. /\ DOMAIN session' = Fields
        /\ session'.active = FALSE /\ session'.awaiting = -1 /\ session'.end = reason
        /\ \A f \in Fields \ {"active", "awaiting", "end"} : session'[f] = u[f]
    BY <2>0, <2>2 DEF Fields, SameButStop, u
  <2>4. /\ \A f \in Fields \ (TimerFields \cup {"active", "awaiting", "end"}) :
                session'[f] = s[f]
        /\ TimerKept(u, timerStop', requests')
        /\ s.startQueued /\ ~u.stopRequested => timerStop'.phase # "NONE"
    BY <2>2, <2>3 DEF SameButStop, u
  <2>5. /\ session'.id = s.id /\ session'.control = s.control /\ session'.owned = s.owned
        /\ session'.disconnects = s.disconnects /\ session'.elapsed = s.elapsed
        /\ session'.direct = s.direct /\ session'.pending = s.pending
        /\ session'.lost = s.lost /\ session'.startQueued = s.startQueued
    BY <2>4 DEF Fields, TimerFields
  <2>6. /\ u.id = s.id /\ session'.settled = u.settled
        /\ session'.stopRequested = u.stopRequested
        /\ session'.stopQueued = u.stopQueued /\ session'.stopResult = u.stopResult
        /\ session'.attempts = u.attempts
    BY <2>3, <2>5 DEF Fields
  <2>7. WeightKept(session)'
    BY <2>3, <2>5, SessionFields DEF WeightKept, SessionShape, ConnectionOwned,
       Listens, Tracks, ProtectionKept, ConfirmedIsOwn, LostIsNotLearned, Inhibited
  <2>8. /\ DOMAIN drip' = DOMAIN NoDrip
        /\ drip' # NoDrip => drip'.cycle = s.id /\ (drip'.learns => ~s.lost)
    <3>1. LostIsNotLearned(s)
      BY DEF WeightKept
    <3> DEFINE d == [cycle |-> s.id, left |-> Drip,
                     logged |-> Eligible(s) /\ s.elapsed >= config.minShot,
                     learns |-> /\ s.automaticBrew /\ ~Uses("timerOnly")
                                /\ s.calibration /\ ~s.extended /\ ~s.slow]
    <3>2. drip' \in {drip, d}
      BY DEF Finalize, ScheduledDrip
    <3>3. d = [f \in {"cycle", "left", "logged", "learns"} |-> d[f]]
      OBVIOUS
    <3>4. d.cycle = s.id /\ (d.learns => s.automaticBrew /\ s.calibration)
      OBVIOUS
    <3> HIDE DEF d
    <3>5. DOMAIN d = {"cycle", "left", "logged", "learns"}
      BY <3>3
    <3> QED
      BY <2>0, <3>1, <3>2, <3>4, <3>5, SessionFields DEF LostIsNotLearned
  <2>9. BrewShape'
    BY <2>0, <2>2, <2>3, <2>5, <2>8, SessionFields
       DEF BrewInvariant, BrewShape, NoTimerStop
  <2>10. OwedByLast'
    BY <2>0, <2>3, <2>5, <2>8, SessionFields
       DEF BrewInvariant, OwedByLast, BrewShape
  <2>11. TimerKept(session, timerStop, requests)'
    <3>1. StopIsDeferred(session, timerStop, requests)'
      BY <2>3, <2>4, <2>5, <2>6 DEF TimerKept, StopIsDeferred
    <3>2. StartsInOrder(session, requests)'
      BY <2>4, <2>5, <2>6 DEF TimerKept, StartsInOrder
    <3>3. StopsInOrder(requests)' /\ requests' \in Seq(Commands)
      BY <2>4 DEF TimerKept, StopsInOrder
    <3> QED
      BY <3>1, <3>2, <3>3 DEF TimerKept
  <2> QED
    BY <2>0, <2>3, <2>5, <2>7, <2>9, <2>10, <2>11 DEF BrewInvariant, Ended
<1>RecordStep. ASSUME BrewInvariant, FinalizeShot
               PROVE  Calm /\ (drip # NoDrip => recorded'[drip.cycle] = 1)
  <2> USE <1>RecordStep
  <2>1. /\ session' = session /\ config' = config /\ state' = state
        /\ timerStop' = timerStop
        /\ requests' = requests /\ answers' = answers /\ connected' = connected
        /\ generation' = generation /\ observed' = observed /\ drip # NoDrip /\ drip' = NoDrip
        /\ recorded' = [recorded EXCEPT ![drip.cycle] = @ + 1]
    BY DEF FinalizeShot, CancelDrip, linkVars
  <2>2. /\ drip.cycle = session.id /\ session.id \in CycleIds /\ ~session.active
        /\ recorded[session.id] = 0 /\ session.id \in Nat
    BY <2>1, ConfigsAssumption DEF BrewInvariant, BrewShape, OwedByLast
  <2>3. recorded' = [recorded EXCEPT ![session.id] = 1] /\ recorded \in [CycleIds -> Nat]
    BY <2>1, <2>2 DEF BrewInvariant, BrewShape
  <2>4. WeightKept(session)'
    BY <2>1, SessionFields DEF BrewInvariant, WeightKept, SessionShape,
       ConnectionOwned, Listens, Tracks, ProtectionKept, ConfirmedIsOwn,
       LostIsNotLearned, Inhibited, Uses
  <2>5. BrewShape'
    BY <2>1, <2>2, <2>3, SessionFields DEF BrewInvariant, BrewShape
  <2>6. OwedByLast'
    BY <2>1, <2>2, <2>3, SessionFields, ConfigsAssumption
       DEF BrewInvariant, OwedByLast
  <2>7. TimerKept(session, timerStop, requests)'
    BY <2>1
       DEF BrewInvariant, TimerKept, StopIsDeferred, StartsInOrder, StopsInOrder
  <2> QED
    BY <2>1, <2>2, <2>3, <2>4, <2>5, <2>6, <2>7 DEF Calm, BrewInvariant
<1>ScaleStep. ASSUME BrewInvariant, LinkStep
              PROVE  Calm /\ drip' = drip /\ recorded' = recorded
  <2> USE <1>ScaleStep
  <2>1. /\ session' = session /\ config' = config /\ state' = state
        /\ timerStop' = timerStop
        /\ drip' = drip /\ recorded' = recorded /\ observed' = observed
        /\ generation' \in {generation, generation + 1}
    BY DEF LinkStep, brewVars, Connect, Disconnect, Stall, Execute
  <2>2. WeightKept(session)' /\ OwedByLast'
    BY <2>1, SessionFields DEF BrewInvariant, BrewShape, WeightKept, SessionShape,
       ConnectionOwned, Listens, Tracks, ProtectionKept, ConfirmedIsOwn,
       LostIsNotLearned, Inhibited, Uses, OwedByLast
  <2>3. CASE Connect \/ Disconnect \/ Stall
    <3>1. requests' = requests /\ answers' = answers
      BY <2>3 DEF Connect, Disconnect, Stall
    <3>2. generation' \in Nat /\ (connected' => generation' > 0) /\ generation' >= generation
      BY <2>3 DEF Connect, Disconnect, Stall, BrewInvariant, BrewShape
    <3>3. BrewShape'
      BY <2>1, <3>1, <3>2, SessionFields DEF BrewInvariant, BrewShape
    <3>4. TimerKept(session, timerStop, requests)'
      BY <2>1, <3>1 DEF BrewInvariant, TimerKept, StopIsDeferred, StartsInOrder,
         StopsInOrder
    <3> QED
      BY <2>1, <2>2, <3>3, <3>4 DEF Calm, BrewInvariant
  <2>4. CASE Execute
    <3>1. PICK ok \in BOOLEAN, combined \in BOOLEAN :
             answers' \in {answers, answers \cup {Answer(Head(requests), ok, combined)}}
      BY <2>4 DEF Execute
    <3> DEFINE head == requests[1]
               b == Answer(head, ok, combined)
    <3>2. /\ requests \in Seq(Commands) /\ requests # <<>>
          /\ StopIsDeferred(session, timerStop, requests)
          /\ StartsInOrder(session, requests)
          /\ StopsInOrder(requests) /\ session.id \in Nat /\ Head(requests) = head
      BY <2>4 DEF Execute, BrewInvariant, BrewShape, TimerKept
    <3>3. /\ requests' \in Seq(Commands) /\ head \in Commands /\ 1 \in DOMAIN requests
          /\ \A i \in DOMAIN requests' : i \in Nat \ {0} /\ i + 1 \in DOMAIN requests /\ requests'[i] = requests[i + 1]
      BY <2>4, <3>2 DEF Execute
    <3>4. b.type = head.type /\ b.cycle = head.cycle /\ head.cycle \in Nat
                             /\ head.type \in {"START", "TARE", "STOP"}
      BY <3>3 DEF Answer, Commands
    <3> HIDE DEF b, head
    <3>5. answers' \subseteq answers \cup {b}
      BY <3>1, <3>2 DEF b
    <3>a. head = requests[1]
      BY DEF head
    <3>6. connected' = connected /\ generation' = generation
      BY <2>4 DEF Execute
    <3>7. BrewShape'
      BY <2>1, <3>4, <3>5, <3>6, SessionFields DEF BrewInvariant, BrewShape
    <3>8. StopIsDeferred(session, timerStop, requests)'
      BY <2>1, <3>2, <3>3, <3>4, <3>5, <3>a DEF StopIsDeferred
    <3>9. StopsInOrder(requests)'
      BY <3>2, <3>3 DEF StopsInOrder
    <3>10. StartsInOrder(session, requests)'
      <4>1. \A i \in DOMAIN requests' : requests'[i].cycle <= session'.id
        BY <2>1, <3>2, <3>3 DEF StartsInOrder
      <4>2. \A a \in answers' : a.cycle \in Nat /\ a.cycle <= session'.id
        BY <2>1, <3>2, <3>3, <3>4, <3>5, <3>a DEF StartsInOrder
      <4>3. \A i, j \in DOMAIN requests' :
              requests'[i].type = "START" /\ requests'[j].type = "START" /\ i < j
                => requests'[i].cycle < requests'[j].cycle
        BY <3>2, <3>3 DEF StartsInOrder
      <4>4. \A i \in DOMAIN requests' :
              head.type = "START" /\ requests'[i].type = "START" => head.cycle < requests'[i].cycle
        BY <3>2, <3>3, <3>a DEF StartsInOrder
      <4>5. \A a \in answers', i \in DOMAIN requests' :
              a.type = "START" /\ requests'[i].type = "START" => a.cycle < requests'[i].cycle
        BY <3>2, <3>3, <3>4, <3>5, <4>4 DEF StartsInOrder
      <4>6. session'.settled => \A i \in DOMAIN requests' : requests'[i].type # "START"
        BY <2>1, <3>2, <3>3 DEF StartsInOrder
      <4> QED
        BY <4>1, <4>2, <4>3, <4>5, <4>6 DEF StartsInOrder
    <3> QED
      BY <2>1, <2>2, <3>3, <3>7, <3>8, <3>9, <3>10
         DEF Calm, BrewInvariant, TimerKept
  <2> QED
    BY <2>3, <2>4 DEF LinkStep
<1>TickStep. ASSUME BrewInvariant, Tick
             PROVE  /\ Calm /\ recorded' = recorded
                    /\ drip'.cycle = drip.cycle /\ (drip = NoDrip => drip' = NoDrip)
  <2> USE <1>TickStep
  <2>1. /\ config' = config /\ state' = state /\ recorded' = recorded
        /\ requests' = requests /\ answers' = answers /\ connected' = connected
        /\ generation' = generation
        /\ session' =
            [session EXCEPT
               !.elapsed = IF session.active THEN @ + 1 ELSE @,
               !.anchorAge = IF session.anchored THEN Older(@) ELSE @,
               !.awaiting = Down(@),
               !.recovery = Aged(@), !.direct = Aged(@),
               !.retryLeft = Down(@)]
        /\ timerStop' = [timerStop EXCEPT !.left = Down(@)]
        /\ drip' = [drip EXCEPT !.left = Down(@)]
        /\ observed' = [observed EXCEPT !.age = Older(@)]
    BY DEF Tick
  <2>13. DOMAIN observed' = DOMAIN Unseen /\ observed'.gen = observed.gen
    BY <2>1, SessionFields DEF BrewInvariant, BrewShape
  <2>2. /\ DOMAIN session = Fields /\ session.elapsed \in Nat /\ session.awaiting \in Int
        /\ DOMAIN session.direct = DOMAIN NoRun /\ session.direct.n \in Nat
    BY SessionFields DEF BrewInvariant, WeightKept, SessionShape
  <2>3. /\ DOMAIN session' = Fields
        /\ \A f \in Fields \ {"elapsed", "anchorAge", "awaiting", "recovery", "direct", "retryLeft"} :
              session'[f] = session[f]
        /\ session'.elapsed \in Nat /\ session'.elapsed >= session.elapsed
        /\ session'.awaiting \in Int /\ (session.awaiting < 0 => session'.awaiting < 0)
        /\ session'.direct = Aged(session.direct)
    <3>1. DOMAIN session' = Fields /\ session'.direct = Aged(session.direct)
      BY <2>1, <2>2 DEF Fields
    <3>2. \A f \in Fields \ {"elapsed", "anchorAge", "awaiting", "recovery", "direct", "retryLeft"} :
              session'[f] = session[f]
      BY <2>1, <2>2 DEF Fields
    <3>3. session'.elapsed = IF session.active THEN session.elapsed + 1 ELSE session.elapsed
      BY <2>1, <2>2 DEF Fields
    <3>4. session'.awaiting = Down(session.awaiting)
      BY <2>1, <2>2 DEF Fields
    <3> QED
      BY <2>2, <3>1, <3>2, <3>3, <3>4 DEF Down
  <2>4. /\ DOMAIN session'.direct = DOMAIN NoRun /\ session'.direct.n = session.direct.n
        /\ session'.direct.gen = session.direct.gen
    BY <2>2, <2>3, SessionFields DEF Aged
  <2>6. /\ session'.id = session.id /\ session'.active = session.active
        /\ session'.end = session.end
        /\ session'.startQueued = session.startQueued
        /\ session'.settled = session.settled
        /\ session'.stopRequested = session.stopRequested
        /\ session'.stopQueued = session.stopQueued
        /\ session'.stopResult = session.stopResult
        /\ session'.attempts = session.attempts
        /\ session'.protected = session.protected
        /\ session'.protectionEnded = session.protectionEnded
        /\ session'.control = session.control /\ session'.owned = session.owned
        /\ session'.disconnects = session.disconnects
        /\ session'.pending = session.pending
        /\ session'.lost = session.lost /\ session'.calibration = session.calibration
        /\ session'.automatic = session.automatic
        /\ session'.automaticBrew = session.automaticBrew
    BY <2>3 DEF Fields
  <2>7. WeightKept(session)'
    <3>1. SessionShape(session)'
      BY <2>3, <2>4, <2>2, SessionFields DEF SessionShape
    <3>2. ProtectionKept(session)'
      BY <2>1, <2>2, <2>3, <2>6, WindowsAssumption DEF BrewInvariant, WeightKept,
         ProtectionKept, Inhibited, Uses
    <3>3. ConnectionOwned(session)' /\ ConfirmedIsOwn(session)'
                                    /\ LostIsNotLearned(session)'
      BY <2>1, <2>3, <2>4, <2>6, <2>13 DEF BrewInvariant, WeightKept, ConnectionOwned,
         Listens, Tracks, ConfirmedIsOwn, LostIsNotLearned, Uses
    <3> QED
      BY <3>1, <3>2, <3>3 DEF WeightKept
  <2>8. /\ DOMAIN timerStop' = DOMAIN NoTimerStop /\ timerStop'.phase = timerStop.phase
    <3>1. NoTimerStop = [f \in {"phase", "left"} |-> NoTimerStop[f]]
      BY DEF NoTimerStop
    <3>2. DOMAIN timerStop = {"phase", "left"} /\ DOMAIN NoTimerStop = {"phase", "left"}
      BY <3>1 DEF BrewInvariant, BrewShape
    <3> QED
      BY <2>1, <3>2
  <2>9. /\ DOMAIN drip' = DOMAIN NoDrip /\ drip'.cycle = drip.cycle /\ drip'.learns = drip.learns
    BY <2>1, SessionFields DEF BrewInvariant, BrewShape
  <2>10. drip = NoDrip => drip' = NoDrip
    <3>1. NoDrip.left = 0 /\ NoDrip = [NoDrip EXCEPT !.left = 0]
      BY DEF NoDrip
    <3> QED
      BY <2>1, <3>1 DEF Down
  <2>11. BrewShape' /\ OwedByLast'
    BY <2>1, <2>6, <2>8, <2>9, <2>10, <2>13, SessionFields DEF BrewInvariant, BrewShape,
       OwedByLast, NoTimerStop
  <2>12. TimerKept(session, timerStop, requests)'
    BY <2>1, <2>6, <2>8 DEF BrewInvariant, TimerKept, StopIsDeferred, StartsInOrder,
       StopsInOrder
  <2> QED
    BY <2>1, <2>6, <2>7, <2>9, <2>10, <2>11, <2>12 DEF Calm, BrewInvariant
<1>IdleStep. ASSUME BrewInvariant, Idle
             PROVE  Calm /\ drip' = drip /\ recorded' = recorded
  <2> USE <1>IdleStep
  <2>1. /\ session' = session /\ timerStop' = timerStop /\ drip' = drip
        /\ config' = config
        /\ recorded' = recorded /\ requests' = requests /\ answers' = answers
        /\ connected' = connected /\ generation' = generation /\ observed' = observed
        /\ state # "BREW" /\ state' # "BREW"
    BY DEF Idle, Unmoved, linkVars
  <2>2. WeightKept(session)'
    BY <2>1, SessionFields DEF BrewInvariant, WeightKept, SessionShape,
       ConnectionOwned, Listens, Tracks, ProtectionKept, ConfirmedIsOwn,
       LostIsNotLearned, Inhibited, Uses
  <2>3. BrewShape' /\ OwedByLast'
    BY <2>1, SessionFields DEF BrewInvariant, BrewShape, OwedByLast
  <2>4. TimerKept(session, timerStop, requests)'
    BY <2>1
       DEF BrewInvariant, TimerKept, StopIsDeferred, StartsInOrder, StopsInOrder
  <2> QED
    BY <2>1, <2>2, <2>3, <2>4 DEF Calm, BrewInvariant
<1>BrewToRinseStep. ASSUME BrewInvariant, BrewToRinse
                    PROVE  \/ Calm /\ drip' = drip /\ recorded' = recorded
                           \/ Ended /\ session'.end = "RELAY_SAFETY_FAILURE"
  <2> USE <1>BrewToRinseStep
  <2>1. CASE /\ session' = [session EXCEPT
                             !.automatic = FALSE, !.automaticBrew = FALSE,
                             !.calibration = FALSE, !.armed = FALSE,
                             !.enforced = FALSE, !.awaiting = -1]
             /\ state' = "RINSE"
             /\ UNCHANGED <<requests, timerStop, drip>>
    <3>1. /\ timerStop' = timerStop /\ drip' = drip /\ config' = config
          /\ recorded' = recorded /\ requests' = requests /\ answers' = answers
          /\ connected' = connected /\ generation' = generation /\ observed' = observed
      BY <2>1 DEF BrewToRinse, Unmoved, LinkKept
    <3>2. /\ DOMAIN session' = Fields /\ session'.awaiting = -1 /\ ~session'.calibration
          /\ \A f \in Fields \ {"automatic", "automaticBrew", "calibration", "armed", "enforced", "awaiting"} :
                session'[f] = session[f]
      BY <2>1, SessionFields, ZenonT(40)
         DEF BrewInvariant, WeightKept, SessionShape, Fields
    <3>3. SameShot(session, session') /\ session'.lost = session.lost
      BY <3>2 DEF Fields, SameShot
    <3>4. /\ session'.protectionEnded = session.protectionEnded
          /\ session'.control = session.control /\ session'.owned = session.owned
          /\ session'.disconnects = session.disconnects
          /\ session'.pending = session.pending
          /\ session'.direct = session.direct
      BY <3>2 DEF Fields
    <3>5. WeightKept(session)'
      BY <2>1, <3>1, <3>2, <3>3, <3>4, SessionFields DEF BrewInvariant, WeightKept,
         SessionShape, ConnectionOwned, Listens, Tracks, ProtectionKept,
         ConfirmedIsOwn, LostIsNotLearned, Inhibited, Uses, SameShot
    <3>6. BrewShape' /\ OwedByLast'
      BY <3>1, <3>3, SessionFields
         DEF BrewInvariant, BrewShape, OwedByLast, SameShot
    <3>7. TimerKept(session, timerStop, requests)'
      BY <3>1, <3>3 DEF BrewInvariant, TimerKept, StopIsDeferred, StartsInOrder,
         StopsInOrder, SameShot
    <3> QED
      BY <3>1, <3>3, <3>5, <3>6, <3>7 DEF Calm, BrewInvariant, SameShot
  <2>2. CASE Finalize(session, requests, "RELAY_SAFETY_FAILURE", "REQUIRES_OFF")
    BY <2>2, <1>EndStep DEF BrewToRinse, BrewInvariant, SameShot, Running
  <2> QED
    BY <2>1, <2>2 DEF BrewToRinse
<1>BrewPassStep. ASSUME BrewInvariant, BrewPass
                 PROVE  \/ Calm /\ drip' = drip /\ recorded' = recorded
                        \/ Ended /\ (session'.end \in {"CUP_REMOVED", "AUTO_TO_MANUAL_GUARD"} \/ ByWeight)
  <2> USE <1>BrewPassStep
  <2> DEFINE p == Phases(session)
             s == SuspendIfGone(p)
  <2>1. /\ WeightKept(p) /\ SameShot(session, p) /\ WeightKept(s)
        /\ SameShot(session, s)
    BY PhasesKept
  <2> HIDE DEF p, s
  <2>2. /\ state = "BREW" /\ session.active /\ UNCHANGED <<Unmoved, LinkKept>>
    BY DEF BrewPass, Running
  <2>3. PICK next \in AfterHold, allowed \in BOOLEAN,
            expected \in {session.elapsed + 1, Wall} :
                /\ allowed \/ Uses("momentary")
                /\ IF p.cupRemoved
                   THEN Finalize(p, requests, "CUP_REMOVED", next)
                   ELSE IF allowed /\ s.enforced /\ s.elapsed >= GuardLimit
                   THEN Finalize(s, requests, "AUTO_TO_MANUAL_GUARD", next)
                   ELSE IF allowed /\ StopReason(s) # "NONE"
                   THEN Finalize(s, requests, StopReason(s), next)
                   ELSE /\ session' = IF allowed THEN AfterCheck(s, expected)
                                      ELSE s
                        /\ UNCHANGED <<state, requests, timerStop, drip>>
    BY DEF BrewPass, p, s
  <2>4. CASE Finalize(p, requests, "CUP_REMOVED", next)
    BY <2>1, <2>2, <2>4, <1>EndStep
  <2>5. CASE Finalize(s, requests, "AUTO_TO_MANUAL_GUARD", next)
    BY <2>1, <2>2, <2>5, <1>EndStep
  <2>6. CASE StopReason(s) # "NONE" /\ Finalize(s, requests, StopReason(s), next)
    <3>1. Ended /\ session'.end = StopReason(s)
      BY <2>1, <2>2, <2>6, <1>EndStep
    <3> QED
      BY <2>2, <2>6, <3>1 DEF ByWeight, s, p
  <2>7. CASE /\ session' \in {AfterCheck(s, expected), s}
             /\ UNCHANGED <<state, requests, timerStop, drip>>
    <3>0. AfterCheck(s, expected) \in {s, EnterSlow(s, expected), EnterFast(s, expected)}
      BY DEF AfterCheck
    <3>1. WeightKept(session') /\ SameShot(s, session')
      BY <2>1, <2>7, <3>0, SessionOps DEF SameShot, WeightKept
    <3>2. SameShot(session, session')
      BY <2>1, <3>1 DEF SameShot
    <3>3. /\ config' = config /\ recorded' = recorded /\ answers' = answers
          /\ connected' = connected /\ generation' = generation /\ observed' = observed
      BY <2>2 DEF Unmoved, LinkKept
    <3> QED
      BY <2>2, <2>7, <3>1, <3>2, <3>3, <1>QuietStep DEF Calm, SameShot
  <2> QED
    BY <2>3, <2>4, <2>5, <2>6, <2>7
\* A step of the deferred stop keeps the invariant, and the shot
\* (servicePendingScaleTimerStop,
\* serviceRemoteTimerStopRetry).
<1>TimerServiceStep. ASSUME BrewInvariant, TimerService
                     PROVE  BrewInvariant' /\ session'.id = session.id
                                           /\ session'.active = session.active /\ drip' = drip
                                           /\ recorded' = recorded
                     \* The session keeps its shot, and the command queue its order.
  <2> USE <1>TimerServiceStep
  <2>TimerStep. ASSUME BrewInvariant, NEW u, NEW t, NEW q, session' = u, timerStop' = t, requests' = q,
                       TimerKept(u, t, q), SameButStop(session, u), DOMAIN t = DOMAIN NoTimerStop,
                       config' = config, state' = state, drip' = drip, recorded' = recorded,
                       answers' = answers, connected' = connected, generation' = generation,
                       observed' = observed
                PROVE  BrewInvariant' /\ session'.id = session.id
                                      /\ session'.active = session.active
    <3> USE <2>TimerStep
    <3>1. /\ DOMAIN u = DOMAIN session /\ DOMAIN session = Fields
          /\ \A f \in Fields \ TimerFields : u[f] = session[f]
      BY SessionFields DEF SameButStop, BrewInvariant, WeightKept, SessionShape
    <3>2. /\ u.active = session.active /\ u.protected = session.protected
          /\ u.elapsed = session.elapsed
          /\ u.control = session.control /\ u.owned = session.owned
          /\ u.disconnects = session.disconnects
          /\ u.direct = session.direct /\ u.pending = session.pending
          /\ u.awaiting = session.awaiting
          /\ u.lost = session.lost /\ u.calibration = session.calibration
          /\ u.automatic = session.automatic
          /\ u.automaticBrew = session.automaticBrew
          /\ u.protectionEnded = session.protectionEnded
          /\ u.id = session.id
      BY <3>1 DEF Fields, TimerFields
    <3>3. WeightKept(session)'
      BY <3>1, <3>2, SessionFields DEF BrewInvariant, WeightKept, SessionShape,
         ConnectionOwned, Listens, Tracks, ProtectionKept, ConfirmedIsOwn,
         LostIsNotLearned, Inhibited, Uses
    <3>4. BrewShape' /\ OwedByLast'
      BY <3>2, SessionFields
         DEF BrewInvariant, BrewShape, OwedByLast, NoTimerStop
    <3>5. TimerKept(session, timerStop, requests)'
      BY DEF TimerKept, StopIsDeferred, StartsInOrder, StopsInOrder
    <3> QED
      BY <3>2, <3>3, <3>4, <3>5 DEF BrewInvariant
  <2>1. /\ TimerKept(session, timerStop, requests) /\ session.id \in Nat
        /\ DOMAIN session = Fields /\ DOMAIN timerStop = DOMAIN NoTimerStop
    BY SessionFields DEF BrewInvariant, BrewShape, WeightKept, SessionShape
  <2>2. /\ config' = config /\ state' = state /\ drip' = drip /\ recorded' = recorded
        /\ answers' = answers /\ connected' = connected /\ generation' = generation /\ observed' = observed
    BY DEF TimerService, Unmoved, LinkKept
  <2>3. ASSUME NEW shown, LET r == ServiceStop(session, timerStop, requests, shown)
                          IN  session' = r.s /\ timerStop' = r.t /\ requests' = r.q
        PROVE BrewInvariant' /\ session'.id = session.id
                             /\ session'.active = session.active
    <3> DEFINE r == ServiceStop(session, timerStop, requests, shown)
    <3>1. /\ TimerKept(r.s, r.t, r.q) /\ SameButStop(session, r.s)
          /\ DOMAIN r.t = DOMAIN NoTimerStop
      BY <2>1, <1>ServiceStopKept
    <3> QED
      BY <2>2, <2>3, <3>1, <2>TimerStep
  <2>4. ASSUME LET r == TryStop(session, timerStop, requests)
               IN  session' = r.s /\ timerStop' = r.t /\ requests' = r.q
        PROVE BrewInvariant' /\ session'.id = session.id
                             /\ session'.active = session.active
    <3> DEFINE r == TryStop(session, timerStop, requests)
    <3>1. /\ TimerKept(r.s, r.t, r.q) /\ SameButStop(session, r.s)
          /\ r.t = timerStop
      BY <2>1, StopKept
    <3> QED
      BY <2>1, <2>2, <2>4, <3>1, <2>TimerStep
  <2> QED
    BY <2>2, <2>3, <2>4 DEF TimerService
<1> DEFINE Goal == /\ Recorded
                   /\ Calm \/ Begun \/ (Ended /\ (session'.end \in Elsewhere \/ ByWeight))
<1>24. ASSUME Goal PROVE EndsBy(Reasons) => ByWeight
  <2> SUFFICES ASSUME EndsBy(Reasons) PROVE ByWeight
    OBVIOUS
  <2>1. Reasons \cap Elsewhere = {}
    BY DEF Reasons, Elsewhere
  <2>2. ~Calm
    BY DEF EndsBy, Calm
  <2>3. session.id \in Int
    BY DEF BrewInvariant, BrewShape
  <2>4. ~Begun
    BY <2>3 DEF EndsBy, Begun
  <2> QED
    BY <1>24, <2>1, <2>2, <2>4 DEF EndsBy
<1> SUFFICES Goal
  BY <1>24
<1>1. Ended => Recorded
  BY DEF Ended, Recorded
<1>2. Begun => Goal
  BY DEF Begun, Recorded
<1>3. ASSUME Calm, drip' = drip PROVE Goal
  BY <1>3 DEF Recorded
<1>4. ASSUME NEW reason \in Elsewhere, NEW next, session.active,
             Finalize(session, requests, reason, next), UNCHANGED <<Unmoved, LinkKept>>
      PROVE  Goal
  BY <1>1, <1>4, <1>EndStep DEF BrewInvariant, SameShot
<1> USE DEF Elsewhere
<1>5. CASE LimitTrip
  BY <1>4, <1>5 DEF LimitTrip
<1>6. CASE Idle
  BY <1>3, <1>6, <1>IdleStep
<1>7. CASE PhysicalOverride
  BY <1>4, <1>7 DEF PhysicalOverride, Running
<1>8. CASE PhysicalStart
  BY <1>2, <1>8, <1>BeginStep DEF PhysicalStart, LinkKept
<1>9. CASE PhysicalRinse
  BY <1>2, <1>9, <1>BeginStep DEF PhysicalRinse, LinkKept
<1>10. CASE RinseComplete
  BY <1>4, <1>10 DEF RinseComplete, Running
<1>11. CASE BrewToRinse
  BY <1>1, <1>3, <1>11, <1>BrewToRinseStep
<1>12. CASE PhysicalStop
  <2> DEFINE s == [session EXCEPT !.automaticBrew = @ \/ session.automatic]
  <2>0. /\ DOMAIN s = Fields /\ (s.automaticBrew => session.automaticBrew \/ session.automatic)
        /\ \A f \in Fields \ {"automaticBrew"} : s[f] = session[f]
    BY SessionFields, ZenonT(40)
       DEF Fields, BrewInvariant, WeightKept, SessionShape
  <2> HIDE DEF s
  <2>1. WeightKept(s) /\ SameShot(session, s)
    <3>1. /\ s.active = session.active /\ s.protected = session.protected
          /\ s.elapsed = session.elapsed /\ s.control = session.control
          /\ s.owned = session.owned /\ s.disconnects = session.disconnects
          /\ s.direct = session.direct /\ s.pending = session.pending
          /\ s.awaiting = session.awaiting /\ s.lost = session.lost
          /\ s.calibration = session.calibration /\ s.automatic = session.automatic
          /\ s.protectionEnded = session.protectionEnded /\ SameShot(session, s)
      BY <2>0 DEF Fields, SameShot
    <3> QED
      BY <2>0, <3>1, SessionFields DEF BrewInvariant, WeightKept, SessionShape,
         ConnectionOwned, Listens, Tracks, ProtectionKept, ConfirmedIsOwn,
         LostIsNotLearned, Inhibited
  <2>2. Ended /\ session'.end = "ACTIVATOR"
    BY <1>12, <2>1, <1>EndStep DEF PhysicalStop, Running, s
  <2> QED
    BY <1>1, <2>2
<1>13. CASE NoFlow
  BY <1>4, <1>13 DEF NoFlow, Running
<1>14. CASE BrewPass
  BY <1>1, <1>3, <1>14, <1>BrewPassStep
<1>15. CASE WebStop
  BY <1>4, <1>15 DEF WebStop
<1>16. CASE RemoteOn
  BY <1>2, <1>16, <1>BeginStep DEF RemoteOn, LinkKept
<1>25. CASE WebRinse
  BY <1>2, <1>25, <1>BeginStep DEF WebRinse, LinkKept
<1>17. CASE TakeWeight
  BY <1>3, <1>17, <1>WeightStep
<1>18. CASE TakeAnswer
  BY <1>3, <1>18, <1>AnswerStep DEF Calm
<1>19. CASE TimerService
  BY <1>3, <1>19, <1>TimerServiceStep DEF Calm
<1>20. CASE FinalizeShot
  BY <1>20, <1>RecordStep DEF Recorded
<1>21. CASE LinkStep
  BY <1>3, <1>21, <1>ScaleStep
<1>22. CASE Tick
  BY <1>22, <1>TickStep DEF Recorded
<1>23. CASE UNCHANGED vars
  <2>1. /\ session' = session /\ timerStop' = timerStop /\ drip' = drip
        /\ config' = config
        /\ recorded' = recorded /\ requests' = requests /\ answers' = answers
        /\ connected' = connected /\ generation' = generation /\ observed' = observed /\ state' = state
    BY <1>23 DEF vars, brewVars, linkVars
  <2>2. WeightKept(session') /\ SameShot(session, session')
    BY <2>1 DEF BrewInvariant, SameShot
  <2> QED
    BY <1>3, <2>1, <2>2, <1>QuietStep DEF Calm
<1> QED
  BY <1>5, <1>6, <1>7, <1>8, <1>9, <1>10, <1>11, <1>12, <1>13, <1>14, <1>15, <1>16, <1>17,
     <1>18, <1>19, <1>20, <1>21, <1>22, <1>23, <1>25 DEF Next, MachineStep

\* Why the properties hold: the shape of the state, what the weight path keeps, the
\* record owed by the last shot, and the order of the commands.
THEOREM BrewInvariantHolds == Spec => []BrewInvariant
<1>BrewInit. ASSUME Init PROVE BrewInvariant
  <2> USE <1>BrewInit
  <2>1. /\ session = NoSession /\ timerStop = NoTimerStop /\ drip = NoDrip
        /\ recorded = [c \in CycleIds |-> 0] /\ config \in Configs /\ state = "READY"
        /\ requests = <<>> /\ answers = {} /\ generation \in {0, 1}
        /\ connected => generation = 1
        /\ DOMAIN observed = DOMAIN Unseen /\ observed.gen \in 0 .. generation
    <3>1. /\ session = NoSession /\ timerStop = NoTimerStop /\ drip = NoDrip
          /\ recorded = [c \in CycleIds |-> 0] /\ config \in Configs /\ state = "READY"
          /\ requests = <<>> /\ answers = {} /\ generation \in {0, 1}
          /\ connected => generation = 1
          /\ \/ observed = Unseen
             \/ generation = 1 /\ observed = [seen |-> TRUE, age |-> 0, gen |-> 1]
      BY DEF Init, InitLink
    <3>2. Unseen.gen = 0
      BY DEF Unseen
    <3> QED
      BY <3>1, <3>2, SessionFields
  <2>2. /\ session.id = 0 /\ ~session.active /\ session.end = "NONE"
        /\ ~session.startQueued
        /\ ~session.settled /\ ~session.stopRequested /\ ~session.stopQueued
        /\ session.stopResult = "NOT_ATTEMPTED" /\ session.attempts = 0
        /\ session.elapsed = 0 /\ session.awaiting = -1 /\ session.direct = NoRun
        /\ session.control = "INACTIVE" /\ session.pending = "NONE"
    BY <2>1 DEF NoSession
  <2>3. NoRun.n = 0
    BY DEF NoRun
  <2>4. WeightKept(session)
    BY <2>1, <2>2, <2>3 DEF WeightKept, SessionShape, ConnectionOwned, Listens,
       Tracks, ProtectionKept, ConfirmedIsOwn, LostIsNotLearned, Inhibited
  <2>5. BrewShape
    BY <2>1, <2>2, ConfigsAssumption DEF BrewShape
  <2>6. OwedByLast
    BY <2>1, <2>2, SessionFields DEF OwedByLast
  <2>7. TimerKept(session, timerStop, requests)
    BY <2>1, <2>2 DEF TimerKept, StopIsDeferred, StartsInOrder, StopsInOrder
  <2> QED
    BY <2>4, <2>5, <2>6, <2>7 DEF BrewInvariant
<1>1. Init => BrewInvariant
  BY <1>BrewInit
<1>2. BrewInvariant /\ [Next]_vars => BrewInvariant'
  BY BrewStep DEF Calm, Begun, Ended
<1> QED
  BY <1>1, <1>2, PTL DEF Spec

\* A stop that two samples confirmed was confirmed on the connection of the shot
\* (considerDirectStopSample, resetDirectStopConfirmation).
THEOREM DirectStopHolds == Spec => []DirectStopIsOwn
<1>1. BrewInvariant => DirectStopIsOwn
  BY DEF BrewInvariant, WeightKept, ConfirmedIsOwn, DirectStopIsOwn, Honored
<1> QED
  BY <1>1, BrewInvariantHolds, PTL

\* The prediction learns from no shot that lost its scale or a sample
\* (schedulePendingShotFinalize, pendingShotFinalizeTask).
THEOREM LearningHolds == Spec => []LearnsFromWholeShots
<1>1. BrewInvariant => LearnsFromWholeShots
  BY SessionFields DEF BrewInvariant, OwedByLast, LearnsFromWholeShots
<1> QED
  BY <1>1, BrewInvariantHolds, PTL

\* The commands to the timer of the scale are in the order of the shots, and no stop
\* of a shot comes before its start (tryQueueRemoteTimerStop).
THEOREM TimerOrderHolds == Spec => []TimerCommandsInOrder
<1>1. BrewInvariant => TimerCommandsInOrder
  BY DEF BrewInvariant, TimerKept, StartsInOrder, TimerCommandsInOrder
<1> QED
  BY <1>1, BrewInvariantHolds, PTL

\* A shot that the weight ends has a scale that is connected, with a recent sample
\* of the connection that the shot owns (automaticScaleStopDue,
\* scaleAutomationUnavailableForSession).
THEOREM WeightStopHolds == Spec => WeightStopIsCurrent
<1> DEFINE Current ==
      EndsBy({"SCALE_THRESHOLD", "FAST_EXTRACTION_MAX_WEIGHT",
              "SLOW_EXTRACTION_MIN_WEIGHT"})
         => /\ Available /\ IsFresh(observed)
            /\ session.owned = generation
            /\ session.disconnects = Disconnects
            /\ session.control = "ACTIVE"
<1>1. ASSUME BrewInvariant, [Next]_vars PROVE Current
  <2> SUFFICES ASSUME EndsBy({"SCALE_THRESHOLD", "FAST_EXTRACTION_MAX_WEIGHT",
                              "SLOW_EXTRACTION_MIN_WEIGHT"})
               PROVE  /\ Available /\ IsFresh(observed)
                      /\ session.owned = generation
                      /\ session.disconnects = Disconnects
                      /\ session.control = "ACTIVE"
    OBVIOUS
  <2> DEFINE p == Phases(session)
             s == SuspendIfGone(p)
  <2>1. ByWeight
    BY <1>1, BrewStep DEF EndsBy, Reasons
  <2>2. /\ p.control = session.control /\ p.owned = session.owned
        /\ p.disconnects = session.disconnects
        /\ s.control \in {"ACTIVE", "VALIDATING"} => s = p /\ ~Unavailable(p)
    BY <1>1, PhasesKept
  <2>3. session'.end = StopReason(s) /\ StopReason(s) \in {"SCALE_THRESHOLD", "FAST_EXTRACTION_MAX_WEIGHT",
                              "SLOW_EXTRACTION_MIN_WEIGHT"}
    BY <2>1 DEF ByWeight, EndsBy
  <2> HIDE DEF p, s
  <2>4. s.control = "ACTIVE"
    BY <2>3 DEF StopReason, Honored, Predicted
  <2>5. /\ session.control = "ACTIVE" /\ Available /\ IsFresh(observed)
        /\ session.disconnects = Disconnects
    BY <2>2, <2>4 DEF Unavailable
  <2>6. session.owned = generation
    BY <1>1, <2>1, <2>3, <2>5 DEF BrewInvariant, WeightKept, ConnectionOwned,
       Listens, Tracks, IsFresh, EndsBy, StopReason, ByWeight
  <2> QED
    BY <2>5, <2>6
<1> QED
  BY <1>1, BrewInvariantHolds, PTL DEF WeightStopIsCurrent, Spec

\* The weight ends no shot under the start protection (bbwWeightStopInhibited).
THEOREM ProtectionHolds == Spec => NoStopUnderProtection
<1>1. ASSUME BrewInvariant, [Next]_vars, EndsBy(Reasons)
      PROVE  session.elapsed >= Protection
  <2> DEFINE s == SuspendIfGone(Phases(session))
  <2>1. state = "BREW" /\ StopReason(s) # "NONE" /\ session.active
    BY <1>1, BrewStep DEF ByWeight, EndsBy
  <2>2. WeightKept(s) /\ SameShot(session, s)
    BY <1>1, PhasesKept
  <2> HIDE DEF s
  <2>3. ~Uses("timerOnly") /\ ~Inhibited(s)
    BY <2>1 DEF StopReason
  <2> QED
    BY <2>1, <2>2, <2>3 DEF WeightKept, ProtectionKept, Inhibited, SameShot
<1> QED
  BY <1>1, BrewInvariantHolds, PTL DEF NoStopUnderProtection, Spec

\* A shot is recorded at most once, and none that is owed is forgotten
\* (commitPendingShotLog, cancelPendingFinalize, pendingShotFinalizeTask).
THEOREM RecordsHold == Spec => RecordedOnce
<1>1. ASSUME BrewInvariant, [Next]_vars
      PROVE  /\ drip # NoDrip /\ drip' # drip /\ drip'.cycle # drip.cycle
                  => recorded'[drip.cycle] = 1
             /\ \A c \in CycleIds : recorded'[c] <= 1
             /\ session'.id # session.id => drip' = NoDrip
  <2>1. Recorded /\ BrewInvariant' /\ (Calm \/ Begun \/ Ended)
    BY <1>1, BrewStep DEF Calm, Begun, Ended
  <2>2. \A c \in CycleIds : recorded'[c] <= 1
    BY <2>1 DEF BrewInvariant, OwedByLast
  <2> QED
    BY <2>1, <2>2 DEF Recorded, Calm, Begun, Ended
<1> QED
  BY <1>1, BrewInvariantHolds, PTL DEF RecordedOnce, Spec

\* When a cycle begins, the stop of the timer of the last one has been asked for, or
\* there was no scale or no room (flushPendingScaleTimerStopNow).
THEOREM TimerStopHolds == Spec => TimerStopRequested
<1>1. ASSUME BrewInvariant, [Next]_vars,
             session'.id # session.id, session.startQueued, session.end # "NONE",
             ~session.stopRequested, Available, HasRoom(requests)
      PROVE  [type |-> "STOP", cycle |-> session.id] \in Range(requests')
  <2>1. AsksToStop(requests', session.id)
    BY <1>1, BrewStep DEF Calm, Begun, Ended
  <2> QED
    BY <2>1 DEF AsksToStop, Range
<1> QED
  BY <1>1, BrewInvariantHolds, PTL DEF TimerStopRequested, Spec
=============================================================================
