------------------------------ MODULE Firmware ------------------------------
(***************************************************************************)
(* The update over the air (ShotStopperOta): an image is sent in ranges    *)
(* into the slot that is not running, proved whole, selected, and confirmed*)
(* after it has served for some time; otherwise the boot loader goes back. *)
(* A session survives a restart: two journal records, written in turn, say *)
(* how much of which image the slot holds, with the hash of that prefix.   *)
(*                                                                         *)
(* A range is one chunk of the slot, and a hash is the chunks it is of.    *)
(* The handlers run one at a time in the HTTP task; a restart may come     *)
(* between any two steps.  The boot loader and esp_ota_* are external; that*)
(* esp_ota_begin refuses an image that is not confirmed is not relied on.  *)
(***************************************************************************)
EXTENDS Integers, Sequences

CONSTANTS
    Images,          \* identities of the images a client sends
    ImageSize,       \* ranges in an image
    MaxGenerations,  \* bounds of the model: journal records written,
    MaxBoots         \*   and restarts

VARIABLES
    slots,           \* what each slot holds, and its state in otadata
    selected,        \* the slot otadata selects
    running,         \* runningPartition_
    confirmed,       \* confirmed_
    rejected,        \* rejected_
    session,         \* session_, while sessionActive_
    transfer,        \* state_
    busy,            \* a range is in the slot and not yet in the journal
    journal,         \* the records j0 and j1
    generation,      \* sessionGeneration_
    boots            \* a bound of the model

firmwareVars == <<slots, selected, running, confirmed, rejected, session,
                  transfer, busy, journal, generation, boots>>

Slots == {"ota_0", "ota_1"}
Other(slot) == CHOOSE s \in Slots : s # slot
Target == Other(running)

Nobody == [image |-> "none", received |-> 0]
NoRecord == [generation |-> 0]
Chunk(image, good) == [of |-> image, good |-> good]
Whole(chunks) ==
    /\ Len(chunks) = ImageSize
    /\ \A i \in 1..ImageSize : chunks[i] = Chunk(chunks[1].of, TRUE)
Bootable(slot) == slot.mark # "invalid" /\ Whole(slot.chunks)

PrefixOf(slot, length) == SubSeq(slot.chunks, 1, length)

FirmwareInit ==
    /\ slots = [s \in Slots |->
                  IF s = "ota_0"
                  THEN [chunks |-> [i \in 1..ImageSize |-> Chunk("factory", TRUE)],
                        mark |-> "valid"]
                  ELSE [chunks |-> <<>>, mark |-> "undefined"]]
    /\ selected = "ota_0" /\ running = "ota_0"
    /\ confirmed = TRUE /\ rejected = FALSE
    /\ session = Nobody /\ transfer = "IDLE" /\ busy = FALSE
    /\ journal = [parity \in {0, 1} |-> NoRecord]
    /\ generation = 0 /\ boots = 0

-----------------------------------------------------------------------------
(* The session *)

\* clearJournal: each record is removed by itself, and neither result is read.
Cleared(records) ==
    {[p \in {0, 1} |-> IF p \in kept THEN records[p] ELSE NoRecord] :
       kept \in SUBSET {0, 1}}

\* finishFailure, and discard
Failure ==
    /\ session' = Nobody /\ transfer' = "IDLE" /\ busy' = FALSE
    /\ journal' \in Cleared(journal)

\* persistSession: the record also has the hash of the prefix in the slot.
Record(next, number) ==
    [generation |-> number, image |-> next.image, received |-> next.received,
     prefix |-> PrefixOf(slots[Target], next.received)]
Persisted(next, number) ==
    [journal EXCEPT ![number % 2] = Record(next, number)]

\* createSession: for the session that is active or staged it only says yes
\* (no step), and any other is a conflict.
FaultyMayCreate == ~busy /\ transfer = "IDLE"
MayCreate == ~busy /\ transfer = "IDLE" /\ confirmed
CreateSession(image) ==
    /\ MayCreate
    /\ generation + 2 <= MaxGenerations
    /\ generation' = generation + 2
    /\ \/ /\ session' = [image |-> image, received |-> 0]
          /\ transfer' = "RECEIVING"
          /\ journal' = Persisted(session', generation + 2)
          /\ UNCHANGED busy
       \/ Failure
    /\ UNCHANGED <<slots, selected, running, confirmed, rejected, boots>>

\* writeRange, as far as the slot: the first range erases it.  What arrives may
\* be damaged, and whatever fails ends the session and leaves the slot as it is.
WriteRange ==
    /\ transfer = "RECEIVING" /\ ~busy
    /\ session.received < ImageSize /\ generation < MaxGenerations
    /\ \E good \in BOOLEAN :
          slots' = [slots EXCEPT ![Target] =
                      [chunks |-> PrefixOf(@, session.received)
                                    \o <<Chunk(session.image, good)>>,
                       mark |-> "undefined"]]
    /\ \/ busy' = TRUE /\ UNCHANGED <<session, transfer, journal>>
       \/ Failure
    /\ UNCHANGED <<selected, running, confirmed, rejected, generation, boots>>

\* writeRange, the rest: the journal, and after the last range the proof that
\* the slot holds the image of the session.  A staged image is in no journal.
FinishRange ==
    /\ busy
    /\ generation' = generation + 1
    /\ LET next == [session EXCEPT !.received = @ + 1]
           proved == slots[Target].chunks
                       = [i \in 1..ImageSize |-> Chunk(session.image, TRUE)]
           records == Persisted(next, generation + 1)
       IN  \/ /\ next.received < ImageSize
              /\ journal' = records
              /\ session' = next /\ busy' = FALSE
              /\ UNCHANGED transfer
           \/ /\ next.received = ImageSize /\ proved
              /\ session' = Nobody /\ transfer' = "STAGED" /\ busy' = FALSE
              /\ journal' \in Cleared(records)
           \/ /\ session' = Nobody /\ transfer' = "IDLE" /\ busy' = FALSE
              /\ journal' \in Cleared(journal) \cup Cleared(records)
    /\ UNCHANGED <<slots, selected, running, confirmed, rejected, boots>>

\* A range that is refused before anything is written, expireSession, discard.
EndSession ==
    /\ ~busy /\ transfer # "COMMITTED"
    /\ Failure
    /\ UNCHANGED <<slots, selected, running, confirmed, rejected, generation,
                   boots>>

\* commit: the slot is read again and then selected.
Commit ==
    /\ ~busy /\ transfer = "STAGED"
    /\ \/ /\ Whole(slots[Target].chunks)
          /\ selected' = Target
          /\ slots' = [slots EXCEPT ![Target].mark = "new"]
          /\ transfer' = "COMMITTED"
          /\ UNCHANGED <<session, busy, journal>>
       \/ Failure /\ UNCHANGED <<selected, slots>>
    /\ UNCHANGED <<running, confirmed, rejected, generation, boots>>

-----------------------------------------------------------------------------
(* Confirming the image *)

\* serviceOtaRollback: the image has served for long enough, or it has not by
\* the deadline and there is nothing to go back to.
ConfirmRunningImage ==
    /\ ~confirmed /\ ~rejected
    /\ confirmed' = TRUE
    /\ slots' = [slots EXCEPT ![running].mark = "valid"]
    /\ UNCHANGED <<selected, running, rejected, session, transfer, busy, journal,
                   generation, boots>>

RejectRunningImage ==
    /\ ~confirmed /\ ~rejected /\ ~busy
    /\ Bootable(slots[Target])
    /\ rejected' = TRUE
    /\ slots' = [slots EXCEPT ![running].mark = "invalid"]
    /\ selected' = Target
    /\ UNCHANGED <<running, confirmed, session, transfer, busy, journal,
                   generation, boots>>

\* The boot loader: an image that was not confirmed is not tried again, and one
\* that is not whole is passed over.
AtBoot ==
    [slots EXCEPT ![selected].mark =
       CASE @ = "pending" -> "invalid" [] @ = "new" -> "pending" [] OTHER -> @]
Boots(slot) ==
    Bootable(AtBoot[slot]) /\ (slot # selected => ~Bootable(AtBoot[selected]))

\* restoreSessionJournal: the newer record that can be read, if its prefix is
\* what the slot holds; the slot behind it is erased again.
Newest ==
    IF journal[1].generation > journal[0].generation THEN journal[1]
    ELSE journal[0]
FaultyHolds(slot, record) == record.received <= Len(slot.chunks)
Holds(slot, record) ==
    /\ record.received <= Len(slot.chunks)
    /\ record.prefix = PrefixOf(slot, record.received)

NoSession == session' = Nobody /\ transfer' = "IDLE"

Restore(target) ==
    \/ /\ Newest = NoRecord
       /\ NoSession
       /\ generation' = 0 /\ slots' = AtBoot
       /\ UNCHANGED journal
    \/ /\ Newest # NoRecord /\ Holds(AtBoot[target], Newest)
       /\ session' = [image |-> Newest.image, received |-> Newest.received]
       /\ transfer' = "RECEIVING"
       /\ generation' = Newest.generation
       /\ slots' = IF Newest.received = 0 THEN AtBoot
                   ELSE [AtBoot EXCEPT ![target].chunks =
                           SubSeq(@, 1, Newest.received)]
       /\ UNCHANGED journal
    \/ /\ Newest # NoRecord
       /\ \/ /\ ~Holds(AtBoot[target], Newest)
             /\ generation' = 0
          \/ /\ Holds(AtBoot[target], Newest) /\ Newest.received # 0
             /\ generation' = Newest.generation
       /\ NoSession
       /\ journal' \in Cleared(journal) /\ slots' = AtBoot

\* A restart, for any reason, and begin.
Boot ==
    /\ boots < MaxBoots /\ boots' = boots + 1
    /\ rejected' = FALSE /\ busy' = FALSE
    /\ \E slot \in Slots :
          /\ Boots(slot)
          /\ running' = slot /\ selected' = slot
          /\ confirmed' = (AtBoot[slot].mark # "pending")
          /\ IF AtBoot[slot].mark = "pending"
             THEN /\ NoSession
                  /\ generation' = 0 /\ slots' = AtBoot
                  /\ UNCHANGED journal
             ELSE Restore(Other(slot))

FirmwareNext ==
    \/ \E image \in Images : CreateSession(image)
    \/ WriteRange \/ FinishRange \/ EndSession \/ Commit
    \/ ConfirmRunningImage \/ RejectRunningImage \/ Boot
FirmwareSpec == FirmwareInit /\ [][FirmwareNext]_firmwareVars

-----------------------------------------------------------------------------
(* Properties *)

\* A session that is resumed is resumed over its own bytes: whatever was left
\* of the journal when it could not be removed, and whichever slot is the
\* target after a restart, the slot begins with exactly the ranges the session
\* counts as received; what is staged is the whole image.
SessionHasItsBytes ==
    /\ session # Nobody =>
          \A i \in 1..session.received :
             /\ i <= Len(slots[Target].chunks)
             /\ slots[Target].chunks[i].of = session.image
    /\ transfer = "STAGED" => Whole(slots[Target].chunks)

\* Whenever the power goes, one slot holds a whole image the boot loader will
\* run: the only other image is never erased while the running one could still
\* be given up.
AlwaysBootable == \E slot \in Slots : Boots(slot)
=============================================================================
