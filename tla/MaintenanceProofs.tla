--------------------------- MODULE MaintenanceProofs --------------------------
(***************************************************************************)
(* Proof that a maintenance lease never outlives its work, for every       *)
(* length of the queues and any number of requests.                        *)
(***************************************************************************)
EXTENDS Maintenance, TLAPS

\* What crosses the queues, and the slots.
Items == {Nothing} \cup {Result(id) : id \in Nat}
         \cup {Command(type, id, override) :
                 type \in Types \cup {"Complete"}, id \in Nat, override \in BOOLEAN}

\* The members of a queue that carry a lease: whether there is one, whether there
\* is at most one, and whose they are.
Carries(queue, types) == \E i \in 1..Len(queue) : queue[i].type \in types
CarriesOnce(queue, types) ==
  \A i, j \in 1..Len(queue) :
     queue[i].type \in types /\ queue[j].type \in types => i = j
CarriesOnly(queue, types, id) ==
  \A i \in 1..Len(queue) : queue[i].type \in types => queue[i].id = id

\* The places a forwarded lease can be.
InJob == job.type \in Leased
InScan == scan # NoLease
InSlot == completion # Nothing
InOutbox == Carries(outbox, Leased)
InInbox == Carries(inbox, {"Complete"})

QueuesOK ==
  /\ inbox \in Seq(Items) /\ outbox \in Seq(Items)
  /\ job \in Items /\ completion \in Items /\ held \in Items
  /\ owed \in [{"result", "cancellation"} -> Items]
  /\ \A kind \in {"result", "cancellation"} :
        owed[kind].type \notin Leased \cup {"Complete"}
  /\ held = Nothing \/ held.type = "Restart"
  /\ completion = Nothing \/ completion.type = "Complete"
  /\ lease = [id |-> lease.id, type |-> lease.type, forwarded |-> lease.forwarded]
  /\ lease.id \in Nat
  /\ lease.id # NoLease => lease.type \in Leased
  /\ lease.forwarded \in BOOLEAN /\ (lease.forwarded => lease.id # NoLease)
  /\ scan \in Nat /\ requests \in Nat /\ replaced \in BOOLEAN

\* What LeaseIsCarried rests on: a forwarded lease is in exactly one place, and
\* nothing else is in any of them.
CarriedOnce ==
  /\ CarriesOnce(outbox, Leased) /\ CarriesOnce(inbox, {"Complete"})
  /\ CarriesOnly(outbox, Leased, lease.id)
  /\ CarriesOnly(inbox, {"Complete"}, lease.id)
  /\ InJob => job.id = lease.id
  /\ InScan => scan = lease.id
  /\ InSlot => completion.id = lease.id
  /\ lease.forwarded <=> InJob \/ InScan \/ InSlot \/ InOutbox \/ InInbox
  /\ InJob => ~InScan /\ ~InSlot /\ ~InOutbox /\ ~InInbox
  /\ InScan => ~InSlot /\ ~InOutbox /\ ~InInbox
  /\ InSlot => ~InOutbox /\ ~InInbox
  /\ InOutbox => ~InInbox
CarriedInvariant == QueuesOK /\ (~replaced => CarriedOnce)

\* Once it is forwarded, a lease that nobody has replaced always has its job, its
\* scan or its completion on its way back (processAcceptedCommands, serviceWifiScan,
\* enqueueMaintenanceCompletion, processWebCommands): the lease, which blocks every
\* brew, is never lost.
THEOREM LeaseCarried == MaintenanceSpec => []LeaseIsCarried
\* What a send and a receive do to what a queue carries.
<1>QueueMoves. ASSUME NEW S, NEW queue \in Seq(S), NEW types, NEW id
               PROVE  /\ \A x \in S :
                           /\ Append(queue, x) \in Seq(S)
                           /\ Carries(Append(queue, x), types)
                                <=> Carries(queue, types) \/ x.type \in types
                           /\ CarriesOnce(queue, types) /\ (x.type \in types => ~Carries(queue, types))
                                => CarriesOnce(Append(queue, x), types)
                           /\ CarriesOnly(queue, types, id) /\ (x.type \in types => x.id = id)
                                => CarriesOnly(Append(queue, x), types, id)
                      /\ queue # <<>> =>
                           /\ Tail(queue) \in Seq(S) /\ Head(queue) \in S
                           /\ Carries(queue, types)
                                <=> Carries(Tail(queue), types) \/ Head(queue).type \in types
                           /\ CarriesOnce(queue, types) =>
                                /\ CarriesOnce(Tail(queue), types)
                                /\ Head(queue).type \in types => ~Carries(Tail(queue), types)
                           /\ CarriesOnly(queue, types, id) =>
                                /\ CarriesOnly(Tail(queue), types, id)
                                /\ Head(queue).type \in types => Head(queue).id = id
  <2> USE <1>QueueMoves
  <2>1. ASSUME NEW x \in S
        PROVE  /\ Append(queue, x) \in Seq(S)
               /\ Len(Append(queue, x)) = Len(queue) + 1
               /\ Append(queue, x)[Len(queue) + 1] = x
               /\ \A i \in 1..Len(queue) : Append(queue, x)[i] = queue[i]
    OBVIOUS
  <2>2. Len(queue) \in Nat
    OBVIOUS
  <2>3. ASSUME NEW x \in S
        PROVE  Carries(Append(queue, x), types) <=> Carries(queue, types) \/ x.type \in types
    BY <2>1, <2>2 DEF Carries
  <2>4. ASSUME NEW x \in S, CarriesOnce(queue, types),
               x.type \in types => ~Carries(queue, types)
        PROVE  CarriesOnce(Append(queue, x), types)
    BY <2>1, <2>2, <2>4 DEF Carries, CarriesOnce
  <2>5. ASSUME NEW x \in S, CarriesOnly(queue, types, id), x.type \in types => x.id = id
        PROVE  CarriesOnly(Append(queue, x), types, id)
    BY <2>1, <2>2, <2>5 DEF CarriesOnly
  <2>6. ASSUME queue # <<>>
        PROVE  /\ Tail(queue) \in Seq(S) /\ Head(queue) \in S
               /\ Len(queue) > 0 /\ Len(Tail(queue)) = Len(queue) - 1
               /\ Head(queue) = queue[1]
               /\ \A i \in 1..Len(Tail(queue)) : Tail(queue)[i] = queue[i + 1]
    BY <2>6
  <2>7. ASSUME queue # <<>>
        PROVE  Carries(queue, types)
                 <=> Carries(Tail(queue), types) \/ Head(queue).type \in types
    <3>1. \A i \in 1..Len(queue) :
             i = 1 \/ (i - 1 \in 1..Len(Tail(queue)) /\ (i - 1) + 1 = i)
      BY <2>2, <2>6, <2>7
    <3>2. /\ \A i \in 1..Len(Tail(queue)) : i + 1 \in 1..Len(queue)
          /\ 1 \in 1..Len(queue)
      BY <2>2, <2>6, <2>7
    <3> QED
      BY <2>6, <2>7, <3>1, <3>2 DEF Carries
  <2>8. ASSUME queue # <<>>, CarriesOnce(queue, types)
        PROVE  /\ CarriesOnce(Tail(queue), types)
               /\ Head(queue).type \in types => ~Carries(Tail(queue), types)
    <3>1. /\ \A i \in 1..Len(Tail(queue)) : i + 1 \in 1..Len(queue) /\ i + 1 # 1
          /\ \A i, j \in 1..Len(Tail(queue)) : i + 1 = j + 1 => i = j
          /\ 1 \in 1..Len(queue)
      BY <2>2, <2>6, <2>8
    <3> QED
      BY <2>6, <2>8, <3>1 DEF Carries, CarriesOnce
  <2>9. ASSUME queue # <<>>, CarriesOnly(queue, types, id)
        PROVE  /\ CarriesOnly(Tail(queue), types, id)
               /\ Head(queue).type \in types => Head(queue).id = id
    <3>1. /\ \A i \in 1..Len(Tail(queue)) : i + 1 \in 1..Len(queue)
          /\ 1 \in 1..Len(queue)
      BY <2>2, <2>6, <2>9
    <3> QED
      BY <2>6, <2>9, <3>1 DEF CarriesOnly
  <2> QED
    BY <2>1, <2>3, <2>4, <2>5, <2>6, <2>7, <2>8, <2>9
<1>1. /\ Nothing \in Items /\ Nothing.type = "none" /\ Nothing.id = NoLease
      /\ \A id \in Nat :
           Result(id) \in Items /\ Result(id).type = "Result" /\ Result(id).id = id
      /\ \A type \in Types \cup {"Complete"}, id \in Nat, override \in BOOLEAN :
           /\ Command(type, id, override) \in Items
           /\ Command(type, id, override).type = type
           /\ Command(type, id, override).id = id
      /\ NoLease \in Nat /\ Leased \subseteq Types /\ "Restart" \in Leased
      /\ \A type \in Leased : type \notin {"none", "Complete", "Result", "Link", "Direct"}
      /\ {"Direct", "Link"} \subseteq Types
  <2>1. /\ Nothing.type = "none" /\ Nothing.id = NoLease
        /\ \A id : Result(id).type = "Result" /\ Result(id).id = id
        /\ \A type, id, override : /\ Command(type, id, override).type = type
                                   /\ Command(type, id, override).id = id
    BY DEF Nothing, Result, Command
  <2>2. /\ NoLease \in Nat /\ Leased \subseteq Types /\ "Restart" \in Leased
        /\ \A type \in Leased : type \notin {"none", "Complete", "Result", "Link", "Direct"}
        /\ {"Direct", "Link"} \subseteq Types
    BY DEF NoLease, Types, Leased
  <2> QED
    BY <2>1, <2>2 DEF Items
<1>2. /\ NothingOwed \in [{"result", "cancellation"} -> Items]
      /\ \A kind \in {"result", "cancellation"} : NothingOwed[kind] = Nothing
      /\ <<>> \in Seq(Items)
  BY <1>1 DEF NothingOwed
<1>3. /\ Unleased = [id |-> Unleased.id, type |-> Unleased.type,
                       forwarded |-> Unleased.forwarded]
       /\ Unleased.id = NoLease /\ Unleased.forwarded = FALSE /\ NoLease \in Nat
  BY DEF Unleased, NoLease
<1>4. ASSUME NEW type \in Leased \cup {"Complete"}, NEW id \in Nat
       PROVE  LET item == Command(type, id, FALSE) IN
              item \in Items /\ item.type = type /\ item.id = id
  <2>1. type \in Types \cup {"Complete"} /\ FALSE \in BOOLEAN
    BY <1>1
  <2> QED
    BY <1>1, <2>1
<1>5. "Complete" \in Leased \cup {"Complete"} /\ "Restart" \in Leased \cup {"Complete"}
  BY <1>1
<1>6. \A item \in Items :
        /\ item.id \in Nat
        /\ \/ item = Nothing
           \/ item.type = "Result"
           \/ item.type \in Types \cup {"Complete"}
  BY <1>1 DEF Items
<1>7. MaintenanceInit => CarriedInvariant
  <2> SUFFICES ASSUME MaintenanceInit PROVE CarriedInvariant
    OBVIOUS
  <2>1. QueuesOK
    BY <1>1, <1>2 DEF MaintenanceInit, QueuesOK, Unleased
  <2>2. CarriedOnce
    BY <1>1 DEF MaintenanceInit, CarriedOnce, Carries, CarriesOnce, CarriesOnly,
                InJob, InScan, InSlot, InOutbox, InInbox, Unleased
  <2> QED
    BY <2>1, <2>2 DEF CarriedInvariant
<1>8. ASSUME QueuesOK, [MaintenanceNext]_maintenanceVars
      PROVE  QueuesOK'
  <2> USE <1>8 DEF QueuesOK
  <2>0. ASSUME NEW queue \in Seq(Items)
        PROVE  /\ \A item \in Items : Append(queue, item) \in Seq(Items)
               /\ queue # <<>> => Head(queue) \in Items /\ Tail(queue) \in Seq(Items)
    OBVIOUS
  <2>1. ASSUME NEW types, types \subseteq Types, Request(types)
        PROVE  QueuesOK'
    <3>1. PICK type \in types, override \in BOOLEAN :
             inbox' = Append(inbox, Command(type, requests + 1, override))
      BY <2>1 DEF Request, Send
    <3>2. type \in Types /\ requests + 1 \in Nat
      BY <2>1, <3>1
    <3>3. Command(type, requests + 1, override) \in Items
      BY <1>1, <3>1, <3>2
    <3>4. requests' = requests + 1
          /\ UNCHANGED <<lease, held, outbox, owed, job, completion, scan, replaced>>
      BY <2>1 DEF Request
    <3> QED
      BY <2>0, <3>1, <3>2, <3>3, <3>4
  <2>2. ASSUME NEW id \in Nat, Complete(id)
        PROVE  /\ inbox' \in Seq(Items) /\ completion' \in Items
               /\ completion' = Nothing \/ completion'.type = "Complete"
    <3>1. /\ Command("Complete", id, FALSE) \in Items
          /\ Command("Complete", id, FALSE).type = "Complete"
      BY <1>4, <1>5
    <3> QED
      BY <2>0, <2>2, <3>1 DEF Complete, Send
  <2>3. ASSUME NEW id \in Nat, Report(id)
        PROVE  /\ outbox' \in Seq(Items)
               /\ owed' \in [{"result", "cancellation"} -> Items]
               /\ \A kind \in {"result", "cancellation"} :
                    owed'[kind].type \notin Leased \cup {"Complete"}
    <3>1. Result(id) \in Items /\ Result(id).type \notin Leased \cup {"Complete"}
      BY <1>1
    <3>2. CASE outbox' = Append(outbox, Result(id)) /\ owed' = owed
      BY <2>0, <3>1, <3>2
    <3>3. CASE outbox' = outbox /\ owed' = [owed EXCEPT !.result = Result(id)]
      BY <3>1, <3>3
    <3> QED
      BY <2>3, <3>2, <3>3 DEF Report, Send
  <2>4. CASE ConfigHandler \/ CliCommand \/ WifiScanStartHandler \/ NetworkHandler
             \/ SaveHandlers \/ RestartHandler
    BY <2>1, <2>4 DEF ConfigHandler, CliCommand, WifiScanStartHandler,
                      NetworkHandler, SaveHandlers, RestartHandler, Types, Leased
  <2>5. CASE TakeRequest
    <3> DEFINE command == Head(inbox)
    <3>1. /\ command \in Items /\ command.id \in Nat
          /\ inbox' \in Seq(Items)
          /\ UNCHANGED <<job, completion, scan, requests>>
      BY <1>6, <2>0, <2>5 DEF TakeRequest
    <3>2. CASE command.type = "Complete"
      <4>1. CompleteLease(command.id) /\ UNCHANGED <<held, outbox, owed, replaced>>
        BY <1>1, <2>5, <3>2 DEF TakeRequest
      <4> QED
        BY <1>3, <3>1, <4>1 DEF CompleteLease
    <3>3. CASE command.type \in {"Direct", "Link"}
      <4>1. UNCHANGED <<lease, held, replaced>>
        BY <1>1, <2>5, <3>3 DEF TakeRequest
      <4>2. Report(command.id) \/ (UNCHANGED owed /\ outbox' = Append(outbox, command))
        BY <1>1, <2>5, <3>3 DEF TakeRequest, Send
      <4>3. CASE Report(command.id)
        BY <2>3, <3>1, <4>1, <4>3
      <4>4. CASE UNCHANGED owed /\ outbox' = Append(outbox, command)
        BY <2>0, <3>1, <4>1, <4>4
      <4> QED
        BY <4>2, <4>3, <4>4
    <3>4. CASE command.type \in Leased \ {"Restart"}
      <4>1. /\ \/ BeginLease(command) /\ UNCHANGED <<outbox, owed>>
               \/ Report(command.id) /\ UNCHANGED <<lease, replaced>>
            /\ UNCHANGED held
        BY <1>1, <2>5, <3>4 DEF TakeRequest
      <4>2. CASE Report(command.id) /\ UNCHANGED <<lease, replaced, held>>
        BY <2>3, <3>1, <4>2
      <4>3. CASE BeginLease(command) /\ UNCHANGED <<outbox, owed, held>>
        BY <3>1, <3>4, <4>3 DEF BeginLease
      <4> QED
        BY <4>1, <4>2, <4>3
    <3>5. CASE command.type = "Restart"
      <4>1. /\ \/ BeginLease(command) /\ held' = Nothing
               \/ held' = command /\ UNCHANGED <<lease, replaced>>
            /\ UNCHANGED <<outbox, owed>>
        BY <1>1, <2>5, <3>5 DEF TakeRequest
      <4>2. CASE BeginLease(command) /\ held' = Nothing /\ UNCHANGED <<outbox, owed>>
        BY <1>1, <3>1, <3>5, <4>2 DEF BeginLease
      <4>3. CASE held' = command /\ UNCHANGED <<lease, replaced, outbox, owed>>
        BY <3>1, <3>5, <4>3
      <4> QED
        BY <4>1, <4>2, <4>3
    <3> QED
      BY <2>5, <3>2, <3>3, <3>4, <3>5 DEF TakeRequest
  <2>6. CASE SendOwed
    <3>1. PICK kind \in {"result", "cancellation"} :
             /\ outbox' = Append(outbox, owed[kind])
             /\ owed' = [owed EXCEPT ![kind] = Nothing]
      BY <2>6 DEF SendOwed, Send
    <3>2. owed' \in [{"result", "cancellation"} -> Items]
          /\ \A k \in {"result", "cancellation"} : owed'[k] \in {owed[k], Nothing}
      BY <1>1, <3>1
    <3>3. UNCHANGED <<lease, held, inbox, job, completion, scan, requests, replaced>>
      BY <2>6 DEF SendOwed
    <3> QED
      BY <1>1, <2>0, <3>1, <3>2, <3>3
  <2>7. CASE DropLease
    <3>1. /\ UNCHANGED <<inbox, outbox, job, completion, scan, requests, replaced>>
          /\ \/ UNCHANGED <<lease, held, owed>>
             \/ /\ held' = Command("Restart", lease.id, FALSE)
                /\ lease' = Unleased /\ UNCHANGED owed
             \/ /\ owed' = [owed EXCEPT !.cancellation = Result(lease.id)]
                /\ lease' = Unleased /\ UNCHANGED held
      BY <2>7 DEF DropLease
    <3>2. /\ Result(lease.id) \in Items
          /\ Result(lease.id).type \notin Leased \cup {"Complete"}
          /\ Nothing.type \notin Leased \cup {"Complete"}
      BY <1>1
    <3>3. /\ Command("Restart", lease.id, FALSE) \in Items
          /\ Command("Restart", lease.id, FALSE).type = "Restart"
      BY <1>4, <1>5
    <3>4. CASE UNCHANGED <<lease, held, owed>>
      BY <3>1, <3>4
    <3>5. CASE /\ held' = Command("Restart", lease.id, FALSE)
               /\ lease' = Unleased /\ UNCHANGED owed
      BY <1>3, <3>1, <3>3, <3>5
    <3>6. CASE /\ owed' = [owed EXCEPT !.cancellation = Result(lease.id)]
               /\ lease' = Unleased /\ UNCHANGED held
      <4>1. /\ owed' \in [{"result", "cancellation"} -> Items]
            /\ \A kind \in {"result", "cancellation"} :
                 owed'[kind] \in {owed[kind], Result(lease.id)}
        BY <3>2, <3>6
      <4> QED
        BY <1>3, <3>1, <3>2, <3>6, <4>1
    <3> QED
      BY <3>1, <3>4, <3>5, <3>6
  <2>8. CASE Brew \/ Paddle \/ PublishGate \/ RequestRestart
    BY <2>8 DEF Brew, Paddle, PublishGate, RequestRestart
  <2>9. CASE ForwardLease
    BY <2>0, <2>9, <1>1 DEF ForwardLease, Send
  <2>10. CASE BeginHeldRestart
    BY <2>10, <1>1, <1>6 DEF BeginHeldRestart, BeginLease
  <2>11. CASE SendCompletion
    BY <2>11, <1>1 DEF SendCompletion, Send
  <2>12. CASE TakeJob
    BY <2>12 DEF TakeJob
  <2>13. CASE EndJob
    BY <2>13, <1>1 DEF EndJob
  <2>14. CASE RefuseJob \/ PerformJob
    BY <2>14, <2>2, <1>1, <1>6 DEF RefuseJob, PerformJob
  <2>15. CASE EndScan
    BY <2>15, <2>2, <1>1 DEF EndScan
  <2>16. CASE Reboot
    BY <2>16, <1>2, <1>1 DEF Reboot, Unleased
  <2>17. CASE UNCHANGED maintenanceVars
    BY <2>17 DEF maintenanceVars
  <2> QED
    BY <2>4, <2>5, <2>6, <2>7, <2>8, <2>9, <2>10, <2>11, <2>12, <2>13, <2>14,
       <2>15, <2>16, <2>17 DEF MaintenanceNext
<1>9. ASSUME QueuesOK, CarriedOnce, [MaintenanceNext]_maintenanceVars, ~Reboot,
             ~replaced'
      PROVE  CarriedOnce'
  <2> USE <1>9 DEF CarriedOnce, InJob, InScan, InSlot, InOutbox, InInbox
  <2>0. /\ inbox \in Seq(Items) /\ outbox \in Seq(Items)
        /\ completion \in Items /\ job \in Items
    BY DEF QueuesOK
  <2>1. /\ \A id : ~InOutbox => CarriesOnly(outbox, Leased, id)
        /\ \A id : ~InInbox => CarriesOnly(inbox, {"Complete"}, id)
    BY DEF Carries, CarriesOnly
  <2>2. ASSUME NEW item \in Items, outbox' = Append(outbox, item),
               item.type \in Leased => ~InOutbox /\ item.id = lease.id
        PROVE  /\ CarriesOnce(outbox', Leased) /\ CarriesOnly(outbox', Leased, lease.id)
               /\ Carries(outbox', Leased) <=> InOutbox \/ item.type \in Leased
    BY <2>0, <2>2, <1>QueueMoves
  <2>3. ASSUME NEW item \in Items, inbox' = Append(inbox, item),
               item.type = "Complete" => ~InInbox /\ item.id = lease.id
        PROVE  /\ CarriesOnce(inbox', {"Complete"})
               /\ CarriesOnly(inbox', {"Complete"}, lease.id)
               /\ Carries(inbox', {"Complete"}) <=> InInbox \/ item.type = "Complete"
    BY <2>0, <2>3, <1>QueueMoves
  <2>4. ASSUME outbox # <<>>
        PROVE  /\ CarriesOnce(Tail(outbox), Leased)
               /\ CarriesOnly(Tail(outbox), Leased, lease.id)
               /\ InOutbox <=> Carries(Tail(outbox), Leased) \/ Head(outbox).type \in Leased
               /\ Head(outbox).type \in Leased =>
                    /\ Head(outbox).id = lease.id
                    /\ ~Carries(Tail(outbox), Leased)
    BY <2>0, <2>4, <1>QueueMoves
  <2>5. ASSUME inbox # <<>>
        PROVE  /\ CarriesOnce(Tail(inbox), {"Complete"})
               /\ CarriesOnly(Tail(inbox), {"Complete"}, lease.id)
               /\ InInbox <=> \/ Carries(Tail(inbox), {"Complete"})
                              \/ Head(inbox).type = "Complete"
               /\ Head(inbox).type = "Complete" =>
                    /\ Head(inbox).id = lease.id
                    /\ ~Carries(Tail(inbox), {"Complete"})
    BY <2>0, <2>5, <1>QueueMoves
  <2>6. ASSUME UNCHANGED <<job, completion, scan>>,
               lease'.id = lease.id, lease'.forwarded = lease.forwarded,
               UNCHANGED outbox \/ \E item \in Items :
                  item.type \notin Leased /\ outbox' = Append(outbox, item),
               \/ UNCHANGED inbox
               \/ inbox # <<>> /\ Head(inbox).type # "Complete" /\ inbox' = Tail(inbox)
               \/ \E item \in Items :
                     item.type # "Complete" /\ inbox' = Append(inbox, item)
        PROVE  CarriedOnce'
    <3>1. /\ CarriesOnce(outbox', Leased) /\ CarriesOnly(outbox', Leased, lease.id)
          /\ Carries(outbox', Leased) <=> InOutbox
      BY <2>2, <2>6
    <3>2. /\ CarriesOnce(inbox', {"Complete"})
          /\ CarriesOnly(inbox', {"Complete"}, lease.id)
          /\ Carries(inbox', {"Complete"}) <=> InInbox
      BY <2>3, <2>5, <2>6
    <3> QED
      BY <2>6, <3>1, <3>2
  <2>7. ASSUME ~lease.forwarded, ~lease'.forwarded,
               UNCHANGED <<job, completion, scan, outbox>>,
               \/ UNCHANGED inbox
               \/ inbox # <<>> /\ Head(inbox).type # "Complete" /\ inbox' = Tail(inbox)
        PROVE  CarriedOnce'
    <3>1. ~InJob /\ ~InScan /\ ~InSlot /\ ~InOutbox /\ ~InInbox
      BY <2>7
    <3>2. CarriesOnce(inbox', {"Complete"}) /\ ~Carries(inbox', {"Complete"})
      BY <2>5, <2>7, <3>1
    <3>3. \A id : CarriesOnly(inbox', {"Complete"}, id)
      BY <3>2 DEF Carries, CarriesOnly
    <3> QED
      BY <2>1, <2>7, <3>1, <3>2, <3>3
  <2>8. ASSUME Complete(lease.id), lease.forwarded, UNCHANGED <<lease, outbox>>,
               job'.type \notin Leased, scan' = NoLease,
               ~InSlot, ~InOutbox, ~InInbox
        PROVE  CarriedOnce'
    <3> DEFINE item == Command("Complete", lease.id, FALSE)
    <3>1. item \in Items /\ item.type = "Complete" /\ item.id = lease.id
      BY <1>4, <1>5 DEF QueuesOK
    <3>2. CASE inbox' = Append(inbox, item) /\ UNCHANGED completion
      BY <2>3, <2>8, <3>1, <3>2
    <3>3. CASE completion' = item /\ UNCHANGED inbox
      BY <1>1, <2>8, <3>1, <3>3
    <3> QED
      BY <2>8, <3>2, <3>3 DEF Complete, Send
  <2>9. CASE ConfigHandler \/ CliCommand \/ WifiScanStartHandler \/ NetworkHandler
             \/ SaveHandlers \/ RestartHandler
    <3>1. ASSUME NEW types, types \subseteq Types, Request(types)
          PROVE  CarriedOnce'
      <4>1. PICK type \in types, override \in BOOLEAN :
               inbox' = Append(inbox, Command(type, requests + 1, override))
        BY <3>1 DEF Request, Send
      <4>2. type \in Types /\ type # "Complete" /\ requests + 1 \in Nat
        BY <3>1, <4>1 DEF QueuesOK, Types, Leased
      <4>3. /\ Command(type, requests + 1, override) \in Items
            /\ Command(type, requests + 1, override).type # "Complete"
        BY <1>1, <4>1, <4>2
      <4>4. UNCHANGED <<lease, outbox, job, completion, scan>>
        BY <3>1 DEF Request
      <4> QED
        BY <2>6, <4>1, <4>3, <4>4
    <3> QED
      BY <2>9, <3>1 DEF ConfigHandler, CliCommand, WifiScanStartHandler,
                        NetworkHandler, SaveHandlers, RestartHandler, Types, Leased
  <2>10. CASE TakeRequest
    <3> DEFINE command == Head(inbox)
    <3>1. /\ inbox # <<>> /\ inbox' = Tail(inbox) /\ command \in Items
          /\ UNCHANGED <<job, completion, scan>>
      BY <2>0, <2>10, <1>QueueMoves DEF TakeRequest
    <3>2. ASSUME Report(command.id)
          PROVE  UNCHANGED outbox \/ \E item \in Items :
                    item.type \notin Leased /\ outbox' = Append(outbox, item)
      BY <1>1, <1>6, <3>1, <3>2 DEF Report, Send
    <3>3. CASE command.type = "Complete"
      <4>1. CompleteLease(command.id) /\ UNCHANGED outbox
        BY <1>1, <2>10, <3>3 DEF TakeRequest
      <4>2. /\ CarriesOnce(inbox', {"Complete"}) /\ ~Carries(inbox', {"Complete"})
            /\ InInbox /\ command.id = lease.id
        BY <2>5, <3>1, <3>3
      <4>3. /\ \A id : CarriesOnly(inbox', {"Complete"}, id)
            /\ \A id : CarriesOnly(outbox, Leased, id)
        BY <2>1, <4>2 DEF Carries, CarriesOnly
      <4>4. lease' = Unleased
        BY <4>1, <4>2 DEF CompleteLease
      <4> QED
        BY <1>3, <3>1, <4>1, <4>2, <4>3, <4>4
    <3>4. CASE command.type \in {"Direct", "Link"}
      <4>1. /\ UNCHANGED lease
            /\ Report(command.id) \/ outbox' = Append(outbox, command)
        BY <1>1, <2>10, <3>4 DEF TakeRequest, Send
      <4>2. command.type \notin Leased /\ command.type # "Complete"
        BY <1>1, <3>4
      <4> QED
        BY <2>6, <3>1, <3>2, <4>1, <4>2
    <3>5. CASE command.type \in Leased \ {"Restart"}
      <4>1. \/ BeginLease(command) /\ UNCHANGED outbox
            \/ Report(command.id) /\ UNCHANGED lease
        BY <1>1, <2>10, <3>5 DEF TakeRequest
      <4>2. command.type # "Complete"
        BY <1>1, <3>5
      <4>3. CASE Report(command.id) /\ UNCHANGED lease
        BY <2>6, <3>1, <3>2, <4>2, <4>3
      <4>4. CASE BeginLease(command) /\ UNCHANGED outbox
        BY <2>7, <3>1, <4>2, <4>4 DEF BeginLease, QueuesOK
      <4> QED
        BY <4>1, <4>3, <4>4
    <3>6. CASE command.type = "Restart"
      <4>1. (BeginLease(command) \/ UNCHANGED lease) /\ UNCHANGED outbox
        BY <1>1, <2>10, <3>6 DEF TakeRequest
      <4>2. CASE UNCHANGED lease
        BY <2>6, <3>1, <3>6, <4>1, <4>2
      <4>3. CASE BeginLease(command)
        BY <2>7, <3>1, <3>6, <4>1, <4>3 DEF BeginLease, QueuesOK
      <4> QED
        BY <4>1, <4>2, <4>3
    <3> QED
      BY <2>10, <3>3, <3>4, <3>5, <3>6 DEF TakeRequest
  <2>11. CASE SendOwed
    <3>1. PICK kind \in {"result", "cancellation"} : outbox' = Append(outbox, owed[kind])
      BY <2>11 DEF SendOwed, Send
    <3>2. owed[kind] \in Items /\ owed[kind].type \notin Leased
      BY DEF QueuesOK
    <3>3. UNCHANGED <<lease, inbox, job, completion, scan>>
      BY <2>11 DEF SendOwed
    <3> QED
      BY <2>6, <3>1, <3>2, <3>3
  <2>12. CASE DropLease
    <3>1. /\ UNCHANGED <<inbox, outbox, job, completion, scan>>
          /\ UNCHANGED lease \/ (~lease.forwarded /\ lease' = Unleased)
      BY <2>12 DEF DropLease, QueuesOK
    <3> QED
      BY <1>3, <2>6, <2>7, <3>1
  <2>13. CASE Brew \/ Paddle \/ PublishGate \/ RequestRestart
    BY <2>6, <2>13 DEF Brew, Paddle, PublishGate, RequestRestart
  <2>14. CASE ForwardLease
    <3> DEFINE item == Command(lease.type, lease.id, FALSE)
    <3>1. /\ ~lease.forwarded /\ lease'.forwarded /\ lease'.id = lease.id
          /\ outbox' = Append(outbox, item)
          /\ UNCHANGED <<inbox, job, completion, scan>>
      BY <2>14 DEF ForwardLease, Send, QueuesOK
    <3>2. lease.type \in Leased /\ lease.id \in Nat
      BY <2>14 DEF ForwardLease, QueuesOK
    <3>3. item \in Items /\ item.type \in Leased /\ item.id = lease.id
      BY <1>4, <3>2
    <3>4. /\ CarriesOnce(outbox', Leased) /\ CarriesOnly(outbox', Leased, lease.id)
          /\ Carries(outbox', Leased)
      BY <2>2, <3>1, <3>3
    <3> QED
      BY <3>1, <3>4
  <2>15. CASE BeginHeldRestart
    BY <2>7, <2>15 DEF BeginHeldRestart, BeginLease, QueuesOK
  <2>16. CASE SendCompletion
    <3>1. /\ completion.type = "Complete" /\ completion' = Nothing
          /\ inbox' = Append(inbox, completion) /\ InSlot
          /\ UNCHANGED <<lease, outbox, job, scan>>
      BY <2>16 DEF SendCompletion, Send, QueuesOK
    <3>2. /\ CarriesOnce(inbox', {"Complete"})
          /\ CarriesOnly(inbox', {"Complete"}, lease.id)
          /\ Carries(inbox', {"Complete"})
      BY <2>0, <2>3, <3>1
    <3> QED
      BY <3>1, <3>2
  <2>17. CASE TakeJob
    <3>1. /\ ~InJob /\ outbox # <<>> /\ job' = Head(outbox) /\ outbox' = Tail(outbox)
          /\ UNCHANGED <<lease, inbox, completion, scan>>
      BY <1>1, <2>17 DEF TakeJob
    <3> QED
      BY <2>4, <3>1
  <2>18. CASE EndJob
    BY <1>1, <2>18 DEF EndJob
  <2>19. CASE RefuseJob
    <3>1. /\ InJob /\ Complete(job.id) /\ job' = Nothing
          /\ UNCHANGED <<lease, outbox, scan>>
      BY <2>19 DEF RefuseJob
    <3> QED
      BY <1>1, <2>8, <3>1
  <2>20. CASE PerformJob
    <3>1. /\ InJob /\ job' = Nothing /\ UNCHANGED <<lease, outbox>>
          /\ \/ scan' = job.id /\ UNCHANGED <<inbox, completion>>
             \/ Complete(job.id) /\ UNCHANGED scan
      BY <2>20 DEF PerformJob, Working
    <3>2. CASE scan' = job.id /\ UNCHANGED <<inbox, completion>>
      BY <1>1, <3>1, <3>2 DEF QueuesOK
    <3>3. CASE Complete(job.id) /\ UNCHANGED scan
      BY <1>1, <2>8, <3>1, <3>3
    <3> QED
      BY <3>1, <3>2, <3>3
  <2>21. CASE EndScan
    <3>1. /\ InScan /\ Complete(scan) /\ scan' = NoLease
          /\ UNCHANGED <<lease, outbox, job>>
      BY <2>21 DEF EndScan
    <3> QED
      BY <2>8, <3>1
  <2>22. CASE UNCHANGED maintenanceVars
    BY <2>6, <2>22 DEF maintenanceVars
  <2> QED
    BY <1>9, <2>9, <2>10, <2>11, <2>12, <2>13, <2>14, <2>15, <2>16, <2>17,
       <2>18, <2>19, <2>20, <2>21, <2>22 DEF MaintenanceNext
<1>10. ASSUME QueuesOK, Reboot PROVE CarriedOnce'
  BY <1>1, <1>10 DEF Reboot, CarriedOnce, Carries, CarriesOnce, CarriesOnly,
                    InJob, InScan, InSlot, InOutbox, InInbox, Unleased
<1>11. ASSUME [MaintenanceNext]_maintenanceVars, ~Reboot, ~replaced' PROVE ~replaced
  BY <1>11 DEF MaintenanceNext, ConfigHandler, CliCommand, WifiScanStartHandler,
     NetworkHandler, SaveHandlers, RestartHandler, Request, TakeRequest, BeginLease,
     SendOwed, DropLease, Brew, Paddle, ForwardLease, BeginHeldRestart, PublishGate,
     SendCompletion, TakeJob, EndJob, RefuseJob, PerformJob, EndScan,
     RequestRestart, maintenanceVars
<1>12. CarriedInvariant /\ [MaintenanceNext]_maintenanceVars => CarriedInvariant'
  BY <1>8, <1>9, <1>10, <1>11 DEF CarriedInvariant
<1>13. CarriedInvariant => LeaseIsCarried
  <2> SUFFICES ASSUME CarriedInvariant, lease.forwarded, ~replaced
               PROVE  \/ In(outbox, Leased) \/ In(inbox, {"Complete"})
                      \/ job.id = lease.id /\ job.type \in Leased
                      \/ scan = lease.id \/ completion.id = lease.id
    BY DEF LeaseIsCarried
  <2>1. DOMAIN outbox = 1..Len(outbox) /\ DOMAIN inbox = 1..Len(inbox)
    BY DEF CarriedInvariant, QueuesOK
  <2> QED
    BY <2>1 DEF CarriedInvariant, CarriedOnce, Carries, CarriesOnly, In,
                InJob, InScan, InSlot, InOutbox, InInbox
<1> QED
  BY <1>7, <1>13, <1>12, PTL DEF MaintenanceSpec
=============================================================================
