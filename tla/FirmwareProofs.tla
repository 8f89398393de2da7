--------------------------- MODULE FirmwareProofs ---------------------------
(***************************************************************************)
(* Proofs about an update, for every set of images, every size of an image *)
(* and any number of restarts: it never leaves the device without an image *)
(* to boot, and a session is resumed only over its own bytes.              *)
(***************************************************************************)
EXTENDS Firmware, TLAPS

\* A slot with a whole image, and its mark in otadata.
Has(slot, mark) == slots[slot].mark = mark /\ Whole(slots[slot].chunks)

\* What AlwaysBootable rests on.  While the running image is confirmed it is
\* the one to boot, unless the update of the other slot has been committed.
\* While it is not, nothing is received and the other slot keeps the image to
\* go back to.
OneIsKept ==
  /\ running \in Slots /\ selected \in Slots
  /\ confirmed \in BOOLEAN /\ rejected \in BOOLEAN
  /\ slots = [s \in Slots |->
                [chunks |-> slots[s].chunks, mark |-> slots[s].mark]]
  /\ busy => transfer = "RECEIVING"
  /\ rejected => ~confirmed
  /\ confirmed =>
       /\ Has(running, "valid")
       /\ transfer = "COMMITTED" => selected = Target /\ Has(Target, "new")
       /\ transfer # "COMMITTED" => selected = running
  /\ ~confirmed =>
       /\ transfer = "IDLE" /\ Has(Target, "valid")
       /\ rejected => selected = Target
       /\ ~rejected => selected = running /\ Has(running, "pending")

\* Whenever the power goes, whatever an update was doing, one slot holds a
\* whole image that the boot loader runs (ShotStopperOta: a session is created
\* only over a confirmed image, and a slot is selected only when it is whole).
THEOREM AlwaysBoots ==
  ASSUME ImageSize \in Nat \ {0}
  PROVE  FirmwareSpec => []AlwaysBootable
<1> USE DEF Has
<1>1. ASSUME NEW slot \in Slots
      PROVE  /\ Other(slot) \in Slots /\ Other(slot) # slot
             /\ \A t \in Slots : t = slot \/ t = Other(slot)
  BY DEF Other, Slots
<1>2. FirmwareInit => OneIsKept
  <2> SUFFICES ASSUME FirmwareInit PROVE OneIsKept
    OBVIOUS
  <2> DEFINE factory == [i \in 1..ImageSize |-> Chunk("factory", TRUE)]
  <2>1. Whole(factory)
    <3>1. factory \in Seq({Chunk("factory", TRUE)}) /\ Len(factory) = ImageSize
      OBVIOUS
    <3>2. \A i \in 1..ImageSize : factory[i] = Chunk("factory", TRUE)
      OBVIOUS
    <3>3. factory[1].of = "factory"
      BY <3>2 DEF Chunk
    <3> QED
      BY <3>1, <3>2, <3>3 DEF Whole
  <2>2. "ota_0" \in Slots /\ "ota_1" \in Slots
    BY DEF Slots
  <2> QED
    BY <2>1, <2>2 DEF FirmwareInit, OneIsKept
<1>3. OneIsKept /\ [FirmwareNext]_firmwareVars => OneIsKept'
  <2> SUFFICES ASSUME OneIsKept, [FirmwareNext]_firmwareVars
               PROVE  OneIsKept'
    OBVIOUS
  <2> USE DEF OneIsKept
  <2>0. Target \in Slots /\ Target # running
    BY <1>1 DEF Target
  <2>1. ASSUME NEW image \in Images, CreateSession(image) PROVE OneIsKept'
    BY <2>1, <2>0 DEF CreateSession, MayCreate, Failure, Target
  <2>2. CASE WriteRange
    BY <2>2, <2>0 DEF WriteRange, Failure, Target
  <2>3. CASE FinishRange
    BY <2>3, <2>0 DEF FinishRange, Target
  <2>4. CASE EndSession
    BY <2>4, <2>0 DEF EndSession, Failure, Target
  <2>5. CASE Commit
    BY <2>5, <2>0 DEF Commit, Failure, Target
  <2>6. CASE ConfirmRunningImage
    BY <2>6, <2>0 DEF ConfirmRunningImage, Target
  <2>7. CASE RejectRunningImage
    BY <2>7, <2>0 DEF RejectRunningImage, Target
  <2>8. CASE Boot
    <3>1. PICK slot \in Slots :
            /\ Boots(slot)
            /\ running' = slot /\ selected' = slot
            /\ confirmed' = (AtBoot[slot].mark # "pending")
            /\ IF AtBoot[slot].mark = "pending"
               THEN NoSession /\ slots' = AtBoot
               ELSE Restore(Other(slot))
      BY <2>8 DEF Boot
    <3>2. rejected' = FALSE /\ busy' = FALSE
      BY <2>8 DEF Boot
    <3>3. /\ transfer' # "COMMITTED"
          /\ \A s \in Slots \ {Other(slot)} : slots'[s] = AtBoot[s]
          /\ slots' = [s \in Slots |->
                        [chunks |-> slots'[s].chunks, mark |-> slots'[s].mark]]
          /\ AtBoot[slot].mark = "pending" => slots' = AtBoot /\ transfer' = "IDLE"
      BY <1>1, <3>1 DEF Restore, NoSession, AtBoot
    <3>4. ASSUME slots'[slot].mark = "valid", Whole(slots'[slot].chunks),
                 slots'[slot] = AtBoot[slot]
          PROVE  OneIsKept'
      <4>1. confirmed' = TRUE
        BY <3>1, <3>4
      <4> QED
        BY <3>1, <3>2, <3>3, <3>4, <4>1
    <3>5. CASE confirmed /\ transfer # "COMMITTED"
      <4>1. AtBoot = slots /\ Bootable(slots[running])
        BY <3>5 DEF AtBoot, Bootable
      <4>2. slot = running
        BY <3>1, <3>5, <4>1 DEF Boots
      <4> QED
        BY <1>1, <3>3, <3>4, <3>5, <4>1, <4>2
    <3>6. CASE confirmed /\ transfer = "COMMITTED"
      <4>1. /\ AtBoot[running] = slots[running]
            /\ AtBoot[Target].mark = "pending"
            /\ AtBoot[Target].chunks = slots[Target].chunks
        BY <2>0, <3>6 DEF AtBoot
      <4>2. slot = Target /\ Other(slot) = running
        BY <1>1, <2>0, <3>1, <3>6, <4>1 DEF Boots, Bootable, Target
      <4>3. Target' = running /\ confirmed' = FALSE /\ slots' = AtBoot
        BY <3>1, <3>3, <4>1, <4>2 DEF Target
      <4> QED
        BY <2>0, <3>1, <3>2, <3>3, <3>6, <4>1, <4>2, <4>3
    <3>7. CASE ~confirmed
      <4>1. /\ AtBoot[Target] = slots[Target]
            /\ ~rejected => AtBoot[running].mark = "invalid"
        BY <2>0, <3>7 DEF AtBoot
      <4>2. slot = Target
        BY <1>1, <2>0, <3>1, <3>7, <4>1 DEF Boots, Bootable, Target
      <4> QED
        BY <1>1, <3>3, <3>4, <3>7, <4>1, <4>2
    <3> QED
      BY <3>5, <3>6, <3>7
  <2>9. CASE UNCHANGED firmwareVars
    BY <2>9 DEF firmwareVars, Target
  <2> QED
    BY <2>1, <2>2, <2>3, <2>4, <2>5, <2>6, <2>7, <2>8, <2>9 DEF FirmwareNext
<1>4. OneIsKept => AlwaysBootable
  BY <1>1 DEF OneIsKept, AlwaysBootable, Boots, AtBoot, Bootable, Target
<1> QED
  BY <1>2, <1>3, <1>4, PTL DEF FirmwareSpec

-----------------------------------------------------------------------------
(* The bytes of a session *)

\* What a slot can hold
Chunks == [of : Images \cup {"factory"}, good : BOOLEAN]

\* The chunks begin with `count` ranges of the image.
Begins(chunks, image, count) ==
  /\ count <= Len(chunks)
  /\ \A i \in 1..count : chunks[i].of = image

\* A record of the journal: what it counts as received is what it has the hash of.
Sealed(record) ==
  /\ record = [generation |-> record.generation, image |-> record.image,
               received |-> record.received, prefix |-> record.prefix]
  /\ record.received \in 0..ImageSize
  /\ record.prefix \in Seq(Chunks)
  /\ record.image \in Images
  /\ Begins(record.prefix, record.image, record.received)

\* What SessionHasItsBytes rests on.  A record stays true of its own prefix however
\* old it is, and a session is resumed only over that prefix; a range that is in the
\* slot and not yet in the journal is of the session as well.
BytesAreKept ==
  /\ running \in Slots /\ selected \in Slots /\ busy \in BOOLEAN
  /\ slots = [s \in Slots |->
                [chunks |-> slots[s].chunks, mark |-> slots[s].mark]]
  /\ \A s \in Slots :
        slots[s].chunks \in Seq(Chunks)
  /\ journal = [p \in {0, 1} |-> journal[p]]
  /\ \A p \in {0, 1} : journal[p] = NoRecord \/ Sealed(journal[p])
  /\ transfer = "RECEIVING" =>
       /\ session = [image |-> session.image, received |-> session.received]
       /\ session.image \in Images /\ session.received \in 0..ImageSize
       /\ Begins(slots[Target].chunks, session.image, session.received)
  /\ busy =>
       /\ transfer = "RECEIVING" /\ session.received < ImageSize
       /\ Len(slots[Target].chunks) = session.received + 1
       /\ slots[Target].chunks[session.received + 1].of = session.image
  /\ transfer # "RECEIVING" => session = Nobody
  /\ transfer = "STAGED" => Whole(slots[Target].chunks)

\* A session that is resumed is resumed over its own bytes, whichever records of the
\* journal could not be removed and whichever slot is the target after a restart; and
\* what is staged is whole (persistSession, restoreSessionJournal, writeRange).
THEOREM BytesKept ==
  ASSUME ImageSize \in Nat \ {0}
  PROVE  FirmwareSpec => []SessionHasItsBytes
<1>1. ASSUME NEW slot \in Slots
      PROVE  /\ Other(slot) \in Slots /\ Other(slot) # slot
             /\ \A t \in Slots : t = slot \/ t = Other(slot)
  BY DEF Other, Slots
<1>2. ASSUME NEW image, NEW chunks,
             chunks = [i \in 1..ImageSize |-> Chunk(image, TRUE)]
      PROVE  Whole(chunks)
  <2>1. chunks \in Seq({Chunk(image, TRUE)}) /\ Len(chunks) = ImageSize
    BY <1>2
  <2>2. \A i \in 1..ImageSize : chunks[i] = Chunk(image, TRUE)
    BY <1>2
  <2>3. chunks[1].of = image
    BY <2>2 DEF Chunk
  <2> QED
    BY <2>1, <2>2, <2>3 DEF Whole
\* A prefix of what a slot holds
<1>3. ASSUME NEW s, s.chunks \in Seq(Chunks), NEW count \in 0..ImageSize,
             count <= Len(s.chunks)
      PROVE  /\ PrefixOf(s, count) \in Seq(Chunks) /\ Len(PrefixOf(s, count)) = count
             /\ \A i \in 1..count : PrefixOf(s, count)[i] = s.chunks[i]
  <2> DEFINE c == s.chunks
  <2>1. c \in Seq(Chunks)
    BY <1>3
  <2>2. count \in Nat /\ count <= Len(c)
    BY <1>3
  <2> HIDE DEF c
  <2>3. /\ SubSeq(c, 1, count) \in Seq(Chunks) /\ Len(SubSeq(c, 1, count)) = count
        /\ \A i \in 1..count : SubSeq(c, 1, count)[i] = c[i]
    BY <2>1, <2>2
  <2> QED
    BY <2>3 DEF c, PrefixOf
\* One field of a slot
<1>f. ASSUME NEW r, NEW v, r = [chunks |-> r.chunks, mark |-> r.mark]
      PROVE  /\ [r EXCEPT !.mark = v] = [chunks |-> r.chunks, mark |-> v]
             /\ [r EXCEPT !.chunks = v] = [chunks |-> v, mark |-> r.mark]
  BY <1>f
<1>4. FirmwareInit => BytesAreKept
  <2> SUFFICES ASSUME FirmwareInit PROVE BytesAreKept
    OBVIOUS
  <2>1. [i \in 1..ImageSize |-> Chunk("factory", TRUE)] \in Seq(Chunks)
    <3> DEFINE c == Chunk("factory", TRUE)
    <3>1. c \in Chunks
      BY DEF Chunk, Chunks
    <3> HIDE DEF c
    <3>2. ImageSize \in Nat
      OBVIOUS
    <3>3. [i \in 1..ImageSize |-> c] \in Seq(Chunks)
      BY <3>1, <3>2
    <3> QED
      BY <3>3 DEF c
  <2>2. <<>> \in Seq(Chunks)
    OBVIOUS
  <2>3. "ota_0" \in Slots /\ "ota_1" \in Slots
    BY DEF Slots
  <2> QED
    BY <2>1, <2>2, <2>3 DEF FirmwareInit, BytesAreKept
<1>5. BytesAreKept /\ [FirmwareNext]_firmwareVars => BytesAreKept'
  <2> SUFFICES ASSUME BytesAreKept, [FirmwareNext]_firmwareVars
               PROVE  BytesAreKept'
    OBVIOUS
  <2>0. /\ Target \in Slots /\ Target # running
        /\ running \in Slots /\ selected \in Slots /\ busy \in BOOLEAN
        /\ slots = [s \in Slots |->
                      [chunks |-> slots[s].chunks, mark |-> slots[s].mark]]
        /\ \A s \in Slots : slots[s].chunks \in Seq(Chunks)
        /\ journal = [p \in {0, 1} |-> journal[p]]
        /\ \A p \in {0, 1} : journal[p] = NoRecord \/ Sealed(journal[p])
    BY <1>1 DEF BytesAreKept, Target
  <2>e. \A s \in Slots : slots[s] = [chunks |-> slots[s].chunks, mark |-> slots[s].mark]
    BY <2>0
  \* What is removed of a journal leaves the rest as it was.
  <2>a. ASSUME NEW records, NEW cleared \in Cleared(records),
               \A p \in {0, 1} : records[p] = NoRecord \/ Sealed(records[p])
        PROVE  /\ cleared = [p \in {0, 1} |-> cleared[p]]
               /\ \A p \in {0, 1} : cleared[p] = NoRecord \/ Sealed(cleared[p])
    BY <2>a DEF Cleared
  \* The end of a session
  <2>b. ASSUME Failure, UNCHANGED <<selected, running>>,
               slots' = [s \in Slots |->
                           [chunks |-> slots'[s].chunks, mark |-> slots'[s].mark]],
               \A s \in Slots : slots'[s].chunks \in Seq(Chunks)
        PROVE  BytesAreKept'
    <3>1. /\ journal' = [p \in {0, 1} |-> journal'[p]]
          /\ \A p \in {0, 1} : journal'[p] = NoRecord \/ Sealed(journal'[p])
      BY <2>0, <2>a, <2>b DEF Failure
    <3>2. /\ journal' = [p \in {0, 1} |-> journal'[p]]
          /\ \A p \in {0, 1} : journal'[p] = NoRecord' \/ Sealed(journal[p])'
      BY <3>1 DEF NoRecord, Sealed, Begins
    <3> QED
      BY <2>0, <2>b, <3>2 DEF Failure, BytesAreKept, Nobody
  \* A record of the session in the journal
  <2>c. ASSUME NEW next, NEW number, next.image \in Images,
               next.received \in 0..ImageSize,
               Begins(slots[Target].chunks, next.image, next.received)
        PROVE  /\ Persisted(next, number) = [p \in {0, 1} |-> Persisted(next, number)[p]]
               /\ \A p \in {0, 1} : \/ Persisted(next, number)[p] = NoRecord
                                    \/ Sealed(Persisted(next, number)[p])
    <3>1. /\ PrefixOf(slots[Target], next.received) \in Seq(Chunks)
          /\ Len(PrefixOf(slots[Target], next.received)) = next.received
          /\ \A i \in 1..next.received :
                PrefixOf(slots[Target], next.received)[i] = slots[Target].chunks[i]
      BY <1>3, <2>0, <2>c DEF Begins
    <3>2. Sealed(Record(next, number))
      BY <2>c, <3>1, SMTT(60) DEF Sealed, Record, Begins
    <3> QED
      BY <2>0, <3>2 DEF Persisted
  <2>1. ASSUME NEW image \in Images, CreateSession(image) PROVE BytesAreKept'
    <3>1. CASE Failure
      BY <2>0, <2>1, <2>b, <3>1 DEF CreateSession
    <3>2. CASE /\ session' = [image |-> image, received |-> 0]
               /\ transfer' = "RECEIVING" /\ UNCHANGED busy
               /\ journal' = Persisted(session', generation + 2)
      <4>1. ~busy /\ UNCHANGED <<slots, selected, running>>
        BY <2>1 DEF CreateSession, MayCreate
      <4>2. Begins(slots[Target].chunks, image, 0)
        <5>1. slots[Target].chunks \in Seq(Chunks)
          BY <2>0
        <5> QED
          BY <5>1 DEF Begins
      <4>3. session'.image = image /\ session'.received = 0
        BY <3>2
      <4>4. /\ journal' = [p \in {0, 1} |-> journal'[p]]
            /\ \A p \in {0, 1} : journal'[p] = NoRecord \/ Sealed(journal'[p])
        BY <2>c, <3>2, <4>2, <4>3
      <4>5. \A p \in {0, 1} : journal'[p] = NoRecord' \/ Sealed(journal[p])'
        BY <4>4 DEF NoRecord, Sealed, Begins
      <4>6. Begins(slots[Target].chunks, session.image, session.received)'
        BY <4>1, <4>2, <4>3 DEF Begins, Target
      <4>7. /\ session' = [image |-> session'.image, received |-> session'.received]
            /\ session'.image \in Images /\ session'.received \in 0..ImageSize
        BY <3>2
      <4> QED
        BY <2>0, <3>2, <4>1, <4>3, <4>4, <4>5, <4>6, <4>7, Zenon DEF BytesAreKept
    <3> QED
      BY <2>1, <3>1, <3>2 DEF CreateSession
  <2>2. CASE WriteRange
    <3>1. PICK good \in BOOLEAN :
            slots' = [slots EXCEPT ![Target] =
                        [chunks |-> PrefixOf(@, session.received)
                                      \o <<Chunk(session.image, good)>>,
                         mark |-> "undefined"]]
      BY <2>2 DEF WriteRange
    <3> DEFINE prefix == PrefixOf(slots[Target], session.received)
               chunk == Chunk(session.image, good)
    <3>2. /\ session.image \in Images /\ session.received \in 0..ImageSize
          /\ session.received < ImageSize
          /\ Begins(slots[Target].chunks, session.image, session.received)
          /\ session = [image |-> session.image, received |-> session.received]
          /\ transfer = "RECEIVING" /\ ~busy
      BY <2>2 DEF WriteRange, BytesAreKept
    <3>3. /\ prefix \in Seq(Chunks) /\ Len(prefix) = session.received
          /\ \A i \in 1..session.received : prefix[i] = slots[Target].chunks[i]
      BY <1>3, <2>0, <3>2 DEF Begins
    <3>4. chunk \in Chunks /\ chunk.of = session.image
      BY <3>2 DEF Chunk, Chunks
    <3> HIDE DEF prefix, chunk
    <3>5. /\ prefix \o <<chunk>> \in Seq(Chunks)
          /\ Len(prefix \o <<chunk>>) = session.received + 1
          /\ \A i \in 1..session.received : (prefix \o <<chunk>>)[i] = prefix[i]
          /\ (prefix \o <<chunk>>)[session.received + 1] = chunk
      BY <3>2, <3>3, <3>4
    <3>6. /\ slots'[Target].chunks = prefix \o <<chunk>>
          /\ \A s \in Slots \ {Target} : slots'[s] = slots[s]
          /\ slots' = [s \in Slots |->
                         [chunks |-> slots'[s].chunks, mark |-> slots'[s].mark]]
      BY <2>0, <3>1 DEF prefix, chunk
    <3>7. \A s \in Slots : slots'[s].chunks \in Seq(Chunks)
      BY <2>0, <3>5, <3>6
    <3>8. UNCHANGED <<selected, running>>
      BY <2>2 DEF WriteRange
    <3>9. CASE Failure
      BY <2>b, <3>6, <3>7, <3>8, <3>9
    <3>10. CASE busy' = TRUE /\ UNCHANGED <<session, transfer, journal>>
      <4>1. Target' = Target
        BY <3>8 DEF Target
      <4>2. Begins(slots[Target].chunks, session.image, session.received)'
        <5> DEFINE c == prefix \o <<chunk>>
        <5>1. \A i \in 1..session.received : c[i].of = session.image
          BY <3>2, <3>3, <3>5 DEF Begins
        <5>2. session.received <= Len(c)
          BY <3>2, <3>5
        <5>3. slots'[Target'].chunks = c /\ session' = session
          BY <3>6, <3>10, <4>1
        <5> HIDE DEF c
        <5> QED
          BY <5>1, <5>2, <5>3 DEF Begins
      <4>3. \A p \in {0, 1} : journal'[p] = NoRecord' \/ Sealed(journal[p])'
        BY <2>0, <3>10 DEF NoRecord, Sealed, Begins
      <4> QED
        BY <2>0, <3>2, <3>4, <3>5, <3>6, <3>7, <3>8, <3>10, <4>1, <4>2, <4>3
           DEF BytesAreKept
    <3> QED
      BY <2>2, <3>9, <3>10 DEF WriteRange
  <2>3. CASE FinishRange
    <3> DEFINE next == [session EXCEPT !.received = @ + 1]
               records == Persisted(next, generation + 1)
    <3>1. /\ UNCHANGED <<slots, selected, running>> /\ Target' = Target
          /\ busy
      BY <2>3 DEF FinishRange, Target
    <3>2. /\ session.image \in Images /\ session.received \in 0..ImageSize
          /\ session.received < ImageSize /\ transfer = "RECEIVING"
          /\ Begins(slots[Target].chunks, session.image, session.received)
          /\ session = [image |-> session.image, received |-> session.received]
          /\ Len(slots[Target].chunks) = session.received + 1
          /\ slots[Target].chunks[session.received + 1].of = session.image
      BY <3>1 DEF BytesAreKept
    <3>3. /\ next = [image |-> session.image, received |-> session.received + 1]
          /\ next.image = session.image /\ next.received = session.received + 1
          /\ next.received \in 0..ImageSize
      BY <3>2
    <3>4. Begins(slots[Target].chunks, next.image, next.received)
      <4> HIDE DEF next
      <4> QED
        BY <3>2, <3>3 DEF Begins
    <3> HIDE DEF next
    <3>5. /\ records = [p \in {0, 1} |-> records[p]]
          /\ \A p \in {0, 1} : records[p] = NoRecord \/ Sealed(records[p])
      BY <2>c, <3>2, <3>3, <3>4
    <3> HIDE DEF records
    <3>6. ASSUME journal' = [p \in {0, 1} |-> journal'[p]],
                 \A p \in {0, 1} : journal'[p] = NoRecord \/ Sealed(journal'[p])
          PROVE  \A p \in {0, 1} : journal'[p] = NoRecord' \/ Sealed(journal[p])'
      BY <3>6 DEF NoRecord, Sealed, Begins
    <3>7. CASE /\ journal' = records
               /\ session' = next /\ busy' = FALSE
               /\ UNCHANGED transfer
      <4>1. Begins(slots[Target].chunks, session.image, session.received)'
        BY <3>1, <3>3, <3>4, <3>7 DEF Begins
      <4> QED
        BY <2>0, <3>1, <3>2, <3>3, <3>5, <3>6, <3>7, <4>1 DEF BytesAreKept
    <3>8. CASE /\ slots[Target].chunks
                    = [i \in 1..ImageSize |-> Chunk(session.image, TRUE)]
               /\ session' = Nobody /\ transfer' = "STAGED" /\ busy' = FALSE
               /\ journal' \in Cleared(records)
      <4>1. Whole(slots[Target].chunks)'
        <5>1. Whole(slots[Target].chunks)
          BY <1>2, <3>8
        <5> QED
          BY <3>1, <5>1
      <4>2. /\ journal' = [p \in {0, 1} |-> journal'[p]]
            /\ \A p \in {0, 1} : journal'[p] = NoRecord \/ Sealed(journal'[p])
        BY <2>a, <3>5, <3>8
      <4> QED
        BY <2>0, <3>1, <3>6, <3>8, <4>1, <4>2 DEF BytesAreKept, Nobody
    <3>9. CASE /\ session' = Nobody /\ transfer' = "IDLE" /\ busy' = FALSE
               /\ journal' \in Cleared(journal) \cup Cleared(records)
      <4>1. /\ journal' = [p \in {0, 1} |-> journal'[p]]
            /\ \A p \in {0, 1} : journal'[p] = NoRecord \/ Sealed(journal'[p])
        BY <2>0, <2>a, <3>5, <3>9
      <4> QED
        BY <2>0, <3>1, <3>6, <3>9, <4>1 DEF BytesAreKept, Nobody
    <3> QED
      BY <2>3, <3>7, <3>8, <3>9 DEF FinishRange, next, records
  <2>4. CASE EndSession
    BY <2>0, <2>4, <2>b DEF EndSession
  <2>5. CASE Commit
    <3>1. CASE Failure /\ UNCHANGED <<selected, slots>>
      BY <2>0, <2>5, <2>b, <3>1, SMTT(60) DEF Commit
    <3>2. CASE /\ Whole(slots[Target].chunks)
               /\ selected' = Target
               /\ slots' = [slots EXCEPT ![Target].mark = "new"]
               /\ transfer' = "COMMITTED"
               /\ UNCHANGED <<session, busy, journal>>
      <4>1. transfer = "STAGED" /\ ~busy /\ session = Nobody /\ running' = running
        BY <2>5 DEF Commit, BytesAreKept
      <4>2. \A p \in {0, 1} : journal'[p] = NoRecord' \/ Sealed(journal[p])'
        BY <2>0, <3>2 DEF NoRecord, Sealed, Begins
      <4>3. /\ \A s \in Slots : slots'[s].chunks = slots[s].chunks
            /\ slots' = [s \in Slots |->
                           [chunks |-> slots'[s].chunks, mark |-> slots'[s].mark]]
        <5>1. [slots[Target] EXCEPT !.mark = "new"]
                = [chunks |-> slots[Target].chunks, mark |-> "new"]
          BY <1>f, <2>e, <2>0
        <5>2. slots' = [slots EXCEPT ![Target] = [chunks |-> slots[Target].chunks, mark |-> "new"]]
          BY <3>2, <5>1
        <5> QED
          BY <2>0, <5>2
      <4> QED
        BY <2>0, <3>2, <4>1, <4>2, <4>3, Zenon DEF BytesAreKept, Nobody
    <3> QED
      BY <2>5, <3>1, <3>2 DEF Commit
  \* The marks of the slots say nothing of their bytes.
  <2>d. ASSUME /\ \A s \in Slots : slots'[s].chunks = slots[s].chunks
               /\ slots' = [s \in Slots |->
                              [chunks |-> slots'[s].chunks, mark |-> slots'[s].mark]],
               selected' \in Slots,
               UNCHANGED <<running, session, transfer, busy, journal>>
        PROVE  BytesAreKept'
    <3>1. Target' = Target /\ slots'[Target].chunks = slots[Target].chunks
      BY <2>0, <2>d DEF Target
    <3>2. \A p \in {0, 1} : journal'[p] = NoRecord' \/ Sealed(journal[p])'
      BY <2>0, <2>d DEF NoRecord, Sealed, Begins
    <3> QED
      BY <2>0, <2>d, <3>1, <3>2 DEF BytesAreKept, Begins, Nobody, Whole
  <2>6. CASE ConfirmRunningImage
    <3>1. slots' = [slots EXCEPT ![running].mark = "valid"]
      BY <2>6 DEF ConfirmRunningImage
    <3>2. /\ \A s \in Slots : slots'[s].chunks = slots[s].chunks
          /\ slots' = [s \in Slots |->
                         [chunks |-> slots'[s].chunks, mark |-> slots'[s].mark]]
      <4>1. [slots[running] EXCEPT !.mark = "valid"]
              = [chunks |-> slots[running].chunks, mark |-> "valid"]
        BY <1>f, <2>e, <2>0
      <4>2. slots' = [slots EXCEPT ![running] = [chunks |-> slots[running].chunks, mark |-> "valid"]]
        BY <3>1, <4>1
      <4> QED
        BY <2>0, <4>2
    <3> QED
      BY <2>0, <2>6, <2>d, <3>2 DEF ConfirmRunningImage
  <2>7. CASE RejectRunningImage
    <3>1. slots' = [slots EXCEPT ![running].mark = "invalid"]
      BY <2>7 DEF RejectRunningImage
    <3>2. /\ \A s \in Slots : slots'[s].chunks = slots[s].chunks
          /\ slots' = [s \in Slots |->
                         [chunks |-> slots'[s].chunks, mark |-> slots'[s].mark]]
      <4>1. [slots[running] EXCEPT !.mark = "invalid"]
              = [chunks |-> slots[running].chunks, mark |-> "invalid"]
        BY <1>f, <2>e, <2>0
      <4>2. slots' = [slots EXCEPT ![running] = [chunks |-> slots[running].chunks, mark |-> "invalid"]]
        BY <3>1, <4>1
      <4> QED
        BY <2>0, <4>2
    <3> QED
      BY <2>0, <2>7, <2>d, <3>2 DEF RejectRunningImage
  <2>8. CASE Boot
    <3>1. PICK slot \in Slots :
            /\ running' = slot /\ selected' = slot
            /\ IF AtBoot[slot].mark = "pending"
               THEN NoSession /\ slots' = AtBoot /\ UNCHANGED journal
               ELSE Restore(Other(slot))
      BY <2>8 DEF Boot
    <3>2. busy' = FALSE /\ Other(slot) \in Slots /\ Target' = Other(slot)
      BY <1>1, <2>8, <3>1 DEF Boot, Target
    <3>3. /\ \A s \in Slots : AtBoot[s].chunks = slots[s].chunks
          /\ AtBoot = [s \in Slots |->
                         [chunks |-> AtBoot[s].chunks, mark |-> AtBoot[s].mark]]
      <4>1. PICK mark : AtBoot = [slots EXCEPT ![selected].mark = mark]
        BY DEF AtBoot
      <4> HIDE DEF AtBoot
      <4>2. [slots[selected] EXCEPT !.mark = mark]
              = [chunks |-> slots[selected].chunks, mark |-> mark]
        BY <1>f, <2>0, <2>e
      <4>3. AtBoot = [slots EXCEPT ![selected] =
                        [chunks |-> slots[selected].chunks, mark |-> mark]]
        BY <4>1, <4>2
      <4> QED
        BY <2>0, <4>3
    <3>4. ASSUME NoSession, slots' = AtBoot,
                 journal' = journal \/ journal' \in Cleared(journal)
          PROVE  BytesAreKept'
      <4>1. /\ journal' = [p \in {0, 1} |-> journal'[p]]
            /\ \A p \in {0, 1} : journal'[p] = NoRecord \/ Sealed(journal'[p])
        <5>1. CASE journal' = journal
          BY <2>0, <5>1
        <5>2. CASE journal' \in Cleared(journal)
          BY <2>0, <2>a, <5>2
        <5> QED
          BY <3>4, <5>1, <5>2
      <4>2. \A p \in {0, 1} : journal'[p] = NoRecord' \/ Sealed(journal[p])'
        BY <4>1 DEF NoRecord, Sealed, Begins
      <4> QED
        BY <2>0, <3>1, <3>2, <3>3, <3>4, <4>1, <4>2
           DEF BytesAreKept, NoSession, Nobody
    <3>5. CASE /\ Newest # NoRecord /\ Holds(AtBoot[Other(slot)], Newest)
               /\ session' = [image |-> Newest.image, received |-> Newest.received]
               /\ transfer' = "RECEIVING"
               /\ slots' = IF Newest.received = 0 THEN AtBoot
                           ELSE [AtBoot EXCEPT ![Other(slot)].chunks =
                                   SubSeq(@, 1, Newest.received)]
               /\ UNCHANGED journal
      <4> DEFINE target == Other(slot)
      <4>1. Sealed(Newest)
        BY <2>0, <3>5 DEF Newest
      <4>2. /\ Newest.received \in 0..ImageSize /\ Newest.image \in Images
            /\ Newest.received <= Len(AtBoot[target].chunks)
            /\ \A i \in 1..Newest.received : Newest.prefix[i].of = Newest.image
            /\ Newest.prefix = PrefixOf(AtBoot[target], Newest.received)
        BY <3>5, <4>1 DEF Sealed, Begins, Holds
      <4>3. AtBoot[target].chunks \in Seq(Chunks)
        BY <2>0, <3>2, <3>3
      <4>4. /\ PrefixOf(AtBoot[target], Newest.received) \in Seq(Chunks)
            /\ Len(PrefixOf(AtBoot[target], Newest.received)) = Newest.received
            /\ \A i \in 1..Newest.received :
                  PrefixOf(AtBoot[target], Newest.received)[i] = AtBoot[target].chunks[i]
        BY <1>3, <4>2, <4>3
      <4>5. /\ slots'[target].chunks
                 = IF Newest.received = 0 THEN AtBoot[target].chunks
                   ELSE PrefixOf(AtBoot[target], Newest.received)
            /\ \A s \in Slots \ {target} : slots'[s] = AtBoot[s]
            /\ slots' = [s \in Slots |->
                           [chunks |-> slots'[s].chunks, mark |-> slots'[s].mark]]
        <5>1. CASE Newest.received = 0
          BY <3>2, <3>3, <3>5, <5>1
        <5>2. CASE Newest.received # 0
          <6> DEFINE bytes == SubSeq(AtBoot[target].chunks, 1, Newest.received)
          <6>1. slots' = [AtBoot EXCEPT ![target].chunks = bytes]
            BY <3>5, <5>2
          <6> HIDE DEF bytes
          <6>2. AtBoot[target] = [chunks |-> AtBoot[target].chunks,
                                  mark |-> AtBoot[target].mark]
            BY <3>2, <3>3
          <6>3. [AtBoot[target] EXCEPT !.chunks = bytes]
                  = [chunks |-> bytes, mark |-> AtBoot[target].mark]
            BY <1>f, <6>2
          <6>4. slots' = [AtBoot EXCEPT ![target] =
                            [chunks |-> bytes, mark |-> AtBoot[target].mark]]
            BY <6>1, <6>3
          <6>5. bytes = PrefixOf(AtBoot[target], Newest.received)
            BY DEF bytes, PrefixOf
          <6> QED
            BY <3>2, <3>3, <5>2, <6>4, <6>5
        <5> QED
          BY <5>1, <5>2
      <4>6. \A s \in Slots : slots'[s].chunks \in Seq(Chunks)
        BY <2>0, <3>3, <4>3, <4>4, <4>5
      <4>7. Begins(slots'[target].chunks, Newest.image, Newest.received)
        <5>1. CASE Newest.received = 0
          BY <4>3, <4>5, <5>1 DEF Begins
        <5>2. CASE Newest.received # 0
          BY <4>2, <4>4, <4>5, <5>2 DEF Begins
        <5> QED
          BY <5>1, <5>2
      <4> HIDE DEF target
      <4>8. session'.image = Newest.image /\ session'.received = Newest.received
        BY <3>5
      <4>9. Begins(slots[Target].chunks, session.image, session.received)'
        BY <3>2, <4>7, <4>8 DEF Begins, target
      <4>10. \A p \in {0, 1} : journal'[p] = NoRecord' \/ Sealed(journal[p])'
        BY <2>0, <3>5 DEF NoRecord, Sealed, Begins
      <4> QED
        BY <2>0, <3>1, <3>2, <3>5, <4>2, <4>5, <4>6, <4>8, <4>9, <4>10
           DEF BytesAreKept
    <3>6. CASE NoSession
      BY <3>1, <3>4, <3>6 DEF Restore, NoSession
    <3> QED
      BY <3>1, <3>5, <3>6 DEF Restore
  <2>9. CASE UNCHANGED firmwareVars
    BY <2>0, <2>9, <2>d DEF firmwareVars
  <2> QED
    BY <2>1, <2>2, <2>3, <2>4, <2>5, <2>6, <2>7, <2>8, <2>9 DEF FirmwareNext
<1>6. BytesAreKept => SessionHasItsBytes
  <2> SUFFICES ASSUME BytesAreKept PROVE SessionHasItsBytes
    OBVIOUS
  <2>1. session # Nobody => transfer = "RECEIVING"
    BY DEF BytesAreKept
  <2>2. ASSUME session # Nobody
        PROVE  \A i \in 1..session.received :
                 /\ i <= Len(slots[Target].chunks)
                 /\ slots[Target].chunks[i].of = session.image
    <3>1. /\ session.received \in 0..ImageSize
          /\ Begins(slots[Target].chunks, session.image, session.received)
      BY <2>1, <2>2 DEF BytesAreKept
    <3>2. slots[Target].chunks \in Seq(Chunks)
      BY <1>1 DEF BytesAreKept, Target
    <3> QED
      BY <3>1, <3>2 DEF Begins
  <2> QED
    BY <2>2 DEF BytesAreKept, SessionHasItsBytes
<1> QED
  BY <1>4, <1>5, <1>6, PTL DEF FirmwareSpec
=============================================================================
