---------------------------- MODULE DualSlotStore ----------------------------
(***************************************************************************)
(* The two NVS slots of ShotStopperPersistence.h and the revision that     *)
(* orders them.  The newer valid slot is the stored settings; a save goes  *)
(* to the slot of its revision's parity, so that the slots take turns; a   *)
(* factory reset rewrites both, A before B, whatever the parity.           *)
(*                                                                         *)
(* Left out: the migration of older record layouts, and the checksum and   *)
(* validation of a record beyond whether it is valid.                      *)
(*                                                                         *)
(* Definitions named Faulty... are wrong on purpose: each replaces the     *)
(* definition after it to show that a property can fail.                   *)
(***************************************************************************)
EXTENDS Integers

CONSTANTS
    MaxRevision,   \* UINT32_MAX, the last revision before the wrap
    MaxGap,        \* the bound of InReach
    Recipes,       \* the values of the settings that the control task owns
    DefaultRecipe

ASSUME RevisionAssumption ==
    /\ MaxRevision \in Nat
    /\ MaxRevision % 2 = 1
    /\ MaxGap \in Nat
    /\ MaxGap >= 3
    /\ 2 * MaxGap + 3 <= MaxRevision
ASSUME RecipeAssumption == DefaultRecipe \in Recipes

Slots     == {"A", "B"}
Revisions == 0 .. MaxRevision
Nets      == {"none", "sta"}   \* the station configuration and its password

\* A slot's record.  The settings it holds are the recipe and the network.
Record == [valid : BOOLEAN, revision : Revisions, recipe : Recipes, net : Nets]

\* A missing, torn or otherwise invalid record.
NoRecord ==
    [valid |-> FALSE, revision |-> 0, recipe |-> DefaultRecipe, net |-> "none"]

Settings(recipe, net) == [recipe |-> recipe, net |-> net]
FactorySettings == Settings(DefaultRecipe, "none")

RecordOf(revision, settings) ==
    [valid  |-> TRUE, revision |-> revision,
     recipe |-> settings.recipe, net |-> settings.net]

-----------------------------------------------------------------------------
(* The order of revisions *)

FaultySecondIsNewer(first, second) == second > first

HalfRange == (MaxRevision + 1) \div 2

\* secondRevisionIsNewer: the difference modulo 2^32 is positive as an int32.
SecondIsNewer(first, second) ==
    LET d == second - first
    IN  (0 < d /\ d < HalfRange) \/ d < -HalfRange

\* A bound of the model: no slot is left more than MaxGap revisions behind the
\* other, as it would be by many writes in a row that fail in one and succeed
\* in the other.  Nothing is assumed of which of the two is ahead.
InReach(record, revision) ==
    LET d == (revision - record.revision) % (MaxRevision + 1)
    IN  record.valid => d <= MaxGap \/ d >= MaxRevision + 1 - MaxGap

\* chooseNewerRevision, and what loadPersistedSettings copies.
Newer(first, second) ==
    IF second.valid /\ (~first.valid
                        \/ SecondIsNewer(first.revision, second.revision))
    THEN second ELSE first

Stored(slots) == Newer(slots["A"], slots["B"])

\* The settings a boot would find; without any, it takes the factory ones.
StoredSettings(slots) ==
    IF Stored(slots).valid
    THEN Settings(Stored(slots).recipe, Stored(slots).net)
    ELSE FactorySettings

NextRevision(revision) == IF revision = MaxRevision THEN 1 ELSE revision + 1

SlotOf(revision) == IF revision % 2 = 1 THEN "A" ELSE "B"

-----------------------------------------------------------------------------
(* Saving *)

FaultyBaseRevision(slots, durableRevision) ==
    IF durableRevision # 0 THEN durableRevision ELSE 0

\* The revision a save builds on: the durable one when it is known, else the
\* newer of the slots.
BaseRevision(slots, durableRevision) ==
    IF durableRevision # 0 THEN durableRevision
    ELSE IF Stored(slots).valid THEN Stored(slots).revision ELSE 0

Candidate(slots, durableRevision, settings) ==
    RecordOf(NextRevision(BaseRevision(slots, durableRevision)), settings)

\* Overwrites the slot that holds the stored settings.
FaultyTarget(slots, candidate) ==
    IF Stored(slots) = slots["A"] THEN "A" ELSE "B"

\* The slot savePersistedSettings writes.
Target(slots, candidate) == SlotOf(candidate.revision)

-----------------------------------------------------------------------------
(* Factory reset *)

AtLeast(n, bound) == IF n > bound THEN n ELSE bound

\* Starts over, as a first boot does.
FaultyExistingMax(slots, durableRevision) == 0

\* existingMax: the greatest revision in sight, short of the wrap.
ExistingMax(slots, durableRevision) ==
    LET seen(slot) == IF slots[slot].valid THEN slots[slot].revision ELSE 0
        greatest   == AtLeast(AtLeast(seen("A"), seen("B")), durableRevision)
    IN  IF greatest > MaxRevision - 2 THEN MaxRevision - 2 ELSE greatest
=============================================================================
