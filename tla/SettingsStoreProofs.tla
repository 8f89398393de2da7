------------------------- MODULE SettingsStoreProofs -------------------------
(***************************************************************************)
(* Proofs about SettingsStore, for every MaxRevision, MaxGap and set of    *)
(* recipes that satisfy the assumptions of DualSlotStore.                  *)
(*                                                                         *)
(* First what the operators of DualSlotStore return, then the types, then  *)
(* that an erase is latched.  The rest is for a store whose settings task  *)
(* is idle when a factory reset is accepted (~Overlap): the order of the   *)
(* slots, which gives what a save, a failed save and a verified reset      *)
(* leave for the next boot, the recipe that is on its way to the store,    *)
(* and that erased credentials stay erased.                                *)
(***************************************************************************)
EXTENDS SettingsStore, TLAPS

USE DEF flashVars, resetVars, persistVars, controlVars, networkVars,
        bystanders, Goto

-----------------------------------------------------------------------------
(* The operators of DualSlotStore *)

\* Every revision is followed by one that is newer in the wrapping order, also
\* the last one, and never by 0, which stands for no revision.
THEOREM NextIsNewer ==
  ASSUME NEW revision \in Revisions
  PROVE  /\ NextRevision(revision) \in Revisions \ {0}
         /\ SecondIsNewer(revision, NextRevision(revision))
         /\ ~SecondIsNewer(NextRevision(revision), revision)
<1> DEFINE k == MaxRevision \div 2
<1>1. k \in Nat /\ MaxRevision = 2 * k + 1 /\ k >= 3
  BY RevisionAssumption
<1>2. HalfRange = k + 1
  BY <1>1 DEF HalfRange
<1> HIDE DEF k
<1> QED
  BY <1>1, <1>2 DEF NextRevision, SecondIsNewer, Revisions

\* The records and settings that the operators and the tasks build; the stored record is
\* the record of one of the slots, and a save builds a record of its settings, for one of
\* the slots.
LEMMA RecordTypes ==
  /\ NoRecord \in Record
  /\ FactorySettings \in [recipe : Recipes, net : Nets]
  /\ \A r \in Recipes, n \in Nets :
        Settings(r, n) \in [recipe : Recipes, net : Nets]
  /\ \A r \in Revisions, s \in [recipe : Recipes, net : Nets] :
        RecordOf(r, s) \in Record
  /\ \A s \in [Slots -> Record] :
        /\ Stored(s) \in Record
        /\ Stored(s) = s["A"] \/ Stored(s) = s["B"]
        /\ \A durable \in Revisions, settings \in [recipe : Recipes, net : Nets] :
              /\ Candidate(s, durable, settings) \in Record
              /\ Candidate(s, durable, settings).net = settings.net
        /\ \A c \in Record : Target(s, c) \in Slots
<1>1. /\ NoRecord \in Record
      /\ FactorySettings \in [recipe : Recipes, net : Nets]
      /\ \A r \in Recipes, n \in Nets :
            Settings(r, n) \in [recipe : Recipes, net : Nets]
      /\ \A r \in Revisions, s \in [recipe : Recipes, net : Nets] :
            RecordOf(r, s) \in Record
  BY RevisionAssumption, RecipeAssumption
     DEF NoRecord, FactorySettings, Settings, RecordOf, Record, Revisions, Nets
<1>2. ASSUME NEW s \in [Slots -> Record]
      PROVE  /\ Stored(s) \in Record
             /\ Stored(s) = s["A"] \/ Stored(s) = s["B"]
  BY DEF Stored, Newer, Slots
<1>3. ASSUME NEW s \in [Slots -> Record], NEW durable \in Revisions,
             NEW settings \in [recipe : Recipes, net : Nets]
      PROVE  /\ Candidate(s, durable, settings) \in Record
             /\ Candidate(s, durable, settings).net = settings.net
  <2>1. BaseRevision(s, durable) \in Revisions
    BY <1>2, RevisionAssumption DEF BaseRevision, Record, Revisions
  <2>2. NextRevision(BaseRevision(s, durable)) \in Revisions
    BY <2>1, NextIsNewer
  <2> QED
    BY <1>1, <2>2 DEF Candidate, RecordOf
<1>4. \A s \in [Slots -> Record] : \A c \in Record : Target(s, c) \in Slots
  BY DEF Target, SlotOf, Slots
<1> QED
  BY <1>1, <1>2, <1>3, <1>4

-----------------------------------------------------------------------------
(* Types *)

\* Every variable of the store and of its writers has its type, always.
THEOREM TypeCorrect == Spec => []TypeOK
\* A reset finds room for two revisions.
<1>ExistingMaxRange. ASSUME NEW s \in [Slots -> Record], NEW durable \in Revisions
                     PROVE  /\ ExistingMax(s, durable) + 1 \in Revisions
                            /\ ExistingMax(s, durable) + 2 \in Revisions
  <2> USE <1>ExistingMaxRange
  <2> DEFINE seen(slot) == IF s[slot].valid THEN s[slot].revision ELSE 0
             greatest == AtLeast(AtLeast(seen("A"), seen("B")), durable)
  <2>1. seen("A") \in Nat /\ seen("B") \in Nat
    BY DEF Record, Revisions, Slots
  <2>2. greatest \in Nat
    BY <2>1, RevisionAssumption DEF AtLeast, Revisions
  <2> QED
    BY <2>2, RevisionAssumption DEF ExistingMax, Revisions
\* What a save does to the variables of the store.
<1>SaveTypes. ASSUME TypeOK, NEW settings \in [recipe : Recipes, net : Nets],
                     SaveDone(settings) \/ SaveFailed(settings)
              PROVE  /\ slots' \in [Slots -> Record]
                     /\ durableRevision' \in Revisions
                     /\ resetPartial' \in BOOLEAN
  <2> USE <1>SaveTypes
  <2> DEFINE candidate == Candidate(slots, durableRevision, settings)
  <2>1. candidate \in Record /\ Target(slots, candidate) \in Slots
    BY RecordTypes DEF TypeOK
  <2>2. CASE SaveDone(settings)
    BY <2>1, <2>2 DEF SaveDone, TypeOK, Record
  <2>3. CASE SaveFailed(settings)
    BY <2>1, <2>3, RecordTypes DEF SaveFailed, TypeOK
  <2> QED
    BY <2>2, <2>3
\* What a reset of the processor does.
<1>RestartTypes. ASSUME NEW cold \in BOOLEAN, Restart(cold), TypeOK,
                        slots' \in [Slots -> Record],
                        intent' \in {"none", "torn", "factory", "network"},
                        UNCHANGED <<resetPartial, erased>>
                 PROVE  TypeOK'
  <2> USE <1>RestartTypes
  <2>1. scratch' \in [0 .. 1 -> Record]
    BY RecordTypes DEF Restart, Blank
  <2>2. next' \in [recipe : Recipes, net : Nets]
        /\ request' \in [recipe : Recipes, net : Nets]
    BY RecordTypes DEF Restart
  <2>3. durableRevision' \in Revisions /\ recipe' \in Recipes /\ net' \in Nets
    BY RecipeAssumption, RevisionAssumption DEF Restart, Revisions, Nets
  <2> QED
    BY <2>1, <2>2, <2>3 DEF Restart, TypeOK, Steps
\* The scratch buffer, before and after slot B.
<1>ResetTypes. ASSUME TypeOK, WriteA \/ WriteB \/ Note
               PROVE  TypeOK'
  <2> USE <1>ResetTypes
  <2>1. CASE WriteA
    <3> DEFINE base   == ExistingMax(slots, durableRevision)
               first  == RecordOf(base + 1, FactorySettings)
               second == RecordOf(base + 2, FactorySettings)
    <3>1. first \in Record /\ second \in Record
      BY <1>ExistingMaxRange, RecordTypes DEF TypeOK
    <3>2. /\ slots' \in [Slots -> Record]
          /\ scratch' \in [0 .. 1 -> Record]
          /\ resetPartial' \in BOOLEAN
      <4> HIDE DEF first, second, base
      <4>1. NoRecord \in Record
        BY RecordTypes
      <4>2. CASE UNCHANGED <<slots, scratch, resetPartial>>
        BY <4>2 DEF TypeOK
      <4>3. CASE /\ slots' \in {slots, [slots EXCEPT !["A"] = NoRecord],
                                [slots EXCEPT !["A"] = first]}
                 /\ scratch' \in {[Blank EXCEPT ![1] = second],
                                  [Blank EXCEPT ![0] = first, ![1] = second]}
                 /\ resetPartial' = TRUE
        BY <3>1, <4>1, <4>3 DEF TypeOK, Blank, Slots
      <4> QED
        BY <2>1, <4>2, <4>3 DEF WriteA, first, second, base
    <3>3. pc' \in Steps /\ abandoning' \in BOOLEAN
      BY <2>1 DEF WriteA, Fail, TypeOK, Steps, EraseSteps
    <3> QED
      BY <2>1, <3>2, <3>3 DEF WriteA, TypeOK
  <2>2. CASE WriteB
    <3>1. scratch[1] \in Record /\ scratch[0] \in Record /\ NoRecord \in Record
      BY RecordTypes DEF TypeOK
    <3>2. slots' \in [Slots -> Record] /\ scratch' \in [0 .. 1 -> Record]
      BY <2>2, <3>1 DEF WriteB, TypeOK, Blank, Slots
    <3>4. resetPartial' \in BOOLEAN /\ secondVerified' \in BOOLEAN
      <4>1. (~scratch[0].valid) \in BOOLEAN
        OBVIOUS
      <4> QED
        BY <2>2, <4>1, Zenon DEF WriteB, TypeOK
    <3>3. pc' \in Steps /\ abandoning' \in BOOLEAN
      BY <2>2 DEF WriteB, Fail, TypeOK, Steps, EraseSteps
    <3> QED
      BY <2>2, <3>2, <3>3, <3>4 DEF WriteB, TypeOK
  <2>3. CASE Note
    <3>1. \A i \in 0 .. 1 : /\ scratch[i].recipe \in Recipes
                            /\ scratch[i].net \in Nets
                            /\ scratch[i].revision \in Revisions
      BY DEF TypeOK, Record
    <3>2. /\ next' \in [recipe : Recipes, net : Nets]
          /\ durableRevision' \in Revisions
      BY <2>3, <3>1 DEF Note, Settings
    <3>3. scratch' \in [0 .. 1 -> Record] /\ pc' \in Steps
      BY <2>3, RecordTypes DEF Note, Blank, Steps, EraseSteps
    <3>4. secondVerified' \in BOOLEAN /\ UNCHANGED abandoning
      BY <2>3, Zenon DEF Note
    <3>5. UNCHANGED <<slots, intent, powerOn, op, caller, net, restartPending,
                      lease, recipe, persistVars, resetPartial, erased>>
      BY <2>3 DEF Note
    <3> QED
      BY <3>2, <3>3, <3>4, <3>5 DEF TypeOK
  <2> QED
    BY <2>1, <2>2, <2>3
\* The steps of the boot sequence.
<1>BootTypes. ASSUME TypeOK, BootStep
              PROVE  TypeOK'
  <2> USE <1>BootTypes
  <2> USE DEF TypeOK, Steps, EraseSteps
  <2>1. CASE Inspect
    <3>1. abandoning' \in BOOLEAN
      BY <2>1, Zenon DEF Inspect
    <3>2. /\ pc' \in Steps
          /\ op' \in {"none", "factory", "network"}
          /\ caller' \in {"resume", "gesture", "web"}
      BY <2>1 DEF Inspect
    <3> QED
      BY <2>1, <3>1, <3>2 DEF Inspect
  <2>2. CASE Gesture
    <3>1. abandoning' \in BOOLEAN
      BY <2>2, Zenon DEF Gesture
    <3>2. /\ pc' \in Steps
          /\ op' \in {"none", "factory", "network"}
          /\ caller' \in {"resume", "gesture", "web"}
      BY <2>2 DEF Gesture
    <3> QED
      BY <2>2, <3>1, <3>2 DEF Gesture
  <2>3. CASE Ensure
    BY <2>3 DEF Ensure
  <2>4. CASE Erase
    <3>1. abandoning' \in BOOLEAN
      BY <2>4, Zenon DEF Erase, Fail
    <3>2. /\ pc' \in Steps
          /\ op' \in {"none", "factory", "network"}
          /\ caller' \in {"resume", "gesture", "web"}
      BY <2>4 DEF Erase, Fail
    <3> QED
      BY <2>4, <3>1, <3>2 DEF Erase
  <2>5. CASE WriteA \/ WriteB \/ Note
    BY <2>5, <1>ResetTypes
  <2>6. CASE ResetBle
    <3>1. abandoning' \in BOOLEAN
      BY <2>6, Zenon DEF ResetBle, Fail
    <3>2. /\ pc' \in Steps
          /\ op' \in {"none", "factory", "network"}
          /\ caller' \in {"resume", "gesture", "web"}
      BY <2>6 DEF ResetBle, Fail
    <3> QED
      BY <2>6, <3>1, <3>2 DEF ResetBle
  <2>7. CASE Verify
    <3>1. abandoning' \in BOOLEAN
      BY <2>7, Zenon DEF Verify, Fail
    <3>2. /\ pc' \in Steps
          /\ op' \in {"none", "factory", "network"}
          /\ caller' \in {"resume", "gesture", "web"}
      BY <2>7 DEF Verify, Fail
    <3> QED
      BY <2>7, <3>1, <3>2 DEF Verify
  <2>8. CASE NetReset
    <3> DEFINE found == Stored(slots)
               kept  == IF found.valid THEN found.recipe ELSE DefaultRecipe
    <3>1. Settings(kept, "none") \in [recipe : Recipes, net : Nets]
      BY RecordTypes, RecipeAssumption DEF Record, Nets
    <3>2. /\ slots' \in [Slots -> Record]
          /\ durableRevision' \in Revisions
          /\ resetPartial' \in BOOLEAN
      BY <2>8, <3>1, <1>SaveTypes DEF NetReset
    <3>3. pc' \in Steps /\ abandoning' \in BOOLEAN
      BY <2>8 DEF NetReset, Fail
    <3> QED
      BY <2>8, <3>2, <3>3 DEF NetReset
  <2>9. CASE ClearAtBoot
    <3>1. intent' \in {"none", "torn", "factory", "network"}
      BY <2>9 DEF ClearAtBoot
    <3>2. CASE Restart(FALSE)
      BY <2>9, <3>1, <3>2, <1>RestartTypes DEF ClearAtBoot
    <3>3. CASE ~Restart(FALSE)
      <4>1. pc' \in Steps
        BY <2>9, <3>3 DEF ClearAtBoot, AfterRecovery
      <4>2. UNCHANGED <<slots, resetPartial, erased, powerOn, durableRevision,
                        scratch, resetVars, networkVars, controlVars>>
        BY <2>9, <3>3, Zenon DEF ClearAtBoot
      <4> QED
        BY <3>1, <4>1, <4>2
    <3> QED
      BY <3>2, <3>3
  <2>10. CASE Abandon
    BY <2>10 DEF Abandon, AfterRecovery
  <2>11. CASE Load
    <3>1. /\ Stored(slots).recipe \in Recipes
          /\ Stored(slots).net \in Nets
          /\ Stored(slots).revision \in Revisions
      BY RecordTypes DEF Record
    <3>2. /\ slots' \in [Slots -> Record]
          /\ durableRevision' \in Revisions
          /\ resetPartial' \in BOOLEAN
      BY <2>11, <3>1, <1>SaveTypes, RecordTypes DEF Load
    <3>3. recipe' \in Recipes /\ net' \in Nets
      BY <2>11, <3>1, RecipeAssumption DEF Load, Nets
    <3>4. next' \in [recipe : Recipes, net : Nets]
      BY <2>11, RecordTypes DEF Load
    <3> QED
      BY <2>11, <3>2, <3>3, <3>4, ZenonT(40) DEF Load
  <2> QED
    BY <2>1, <2>2, <2>3, <2>4, <2>5, <2>6, <2>7, <2>8, <2>9, <2>10, <2>11
       DEF BootStep
\* The steps of the tasks, and a power loss.
<1>TaskTypes. ASSUME TypeOK, NetworkStep \/ ControlStep \/ TaskSave \/ PowerLoss
              PROVE  TypeOK'
  <2> USE <1>TaskTypes
  <2> USE DEF TypeOK, Steps, EraseSteps
  <2>1. CASE ClearByCommand
    <3>1. net' \in Nets
      BY <2>1 DEF ClearByCommand, NetworkAfterReset
    <3>2. next' \in [recipe : Recipes, net : Nets]
      BY <2>1, RecordTypes DEF ClearByCommand
    <3>3. erased' \in BOOLEAN
      <4>1. (~resetPartial) \in BOOLEAN
        OBVIOUS
      <4> QED
        BY <2>1, <4>1, Zenon DEF ClearByCommand
    <3> QED
      BY <2>1, <3>1, <3>2, <3>3 DEF ClearByCommand
  <2>2. CASE WebFailed
    BY <2>2, RecordTypes DEF WebFailed
  <2>3. CASE SafeRestart
    BY <2>3, <1>RestartTypes DEF SafeRestart
  <2>4. CASE FactoryResetCommand
    <3>1. abandoning' \in BOOLEAN
      BY <2>4, Zenon DEF FactoryResetCommand
    <3>2. UNCHANGED <<slots, intent, durableRevision, scratch, powerOn, caller,
                      secondVerified, next, networkVars, controlVars,
                      resetPartial, erased>>
      BY <2>4, Zenon DEF FactoryResetCommand
    <3>3. op' = "factory" /\ pc' = "ensure"
      BY <2>4 DEF FactoryResetCommand
    <3> QED
      BY <3>1, <3>2, <3>3
  <2>5. CASE SaveCommand
    <3>1. PICK newNet \in Nets, restart \in BOOLEAN :
             \/ /\ SaveDone(Settings(recipe, newNet))
                /\ net' = newNet
                /\ restartPending' = (restartPending \/ restart)
                /\ lease' = "done"
                /\ erased' = (erased /\ newNet = "none")
             \/ /\ SaveFailed(Settings(recipe, newNet))
                /\ restartPending' = FALSE
                /\ lease' \in {"save", "done"}
                /\ UNCHANGED <<net, erased>>
      BY <2>5, Zenon DEF SaveCommand
    <3>2. /\ slots' \in [Slots -> Record]
          /\ durableRevision' \in Revisions
          /\ resetPartial' \in BOOLEAN
      BY <3>1, <1>SaveTypes, RecordTypes
    <3>3. net' \in Nets /\ lease' \in {"none", "save", "factory", "done"}
      BY <3>1
    <3>4. restartPending' \in BOOLEAN /\ erased' \in BOOLEAN
      <4>1. /\ (restartPending \/ restart) \in BOOLEAN
            /\ (erased /\ newNet = "none") \in BOOLEAN
        OBVIOUS
      <4> QED
        BY <3>1, <4>1, Zenon
    <3> QED
      BY <2>5, <3>2, <3>3, <3>4 DEF SaveCommand
  <2>6. CASE ConfirmOrRevert
    <3>1. PICK newNet \in Nets :
             \/ SaveDone(Settings(recipe, newNet)) /\ net' = newNet
             \/ SaveFailed(Settings(recipe, newNet)) /\ UNCHANGED net
      BY <2>6, Zenon DEF ConfirmOrRevert
    <3>2. /\ slots' \in [Slots -> Record]
          /\ durableRevision' \in Revisions
          /\ resetPartial' \in BOOLEAN
      BY <3>1, <1>SaveTypes, RecordTypes
    <3> QED
      BY <2>6, <3>1, <3>2 DEF ConfirmOrRevert
  <2>7. CASE LeaseBegin
    BY <2>7 DEF LeaseBegin
  <2>8. CASE LeaseComplete
    BY <2>8 DEF LeaseComplete
  <2>9. CASE Commit
    <3>1. runtimePersistPending' \in BOOLEAN /\ erased' \in BOOLEAN
      BY <2>9, Zenon DEF Commit
    <3>2. UNCHANGED <<slots, intent, durableRevision, scratch, pc, powerOn,
                      resetVars, networkVars, lease, persist, request,
                      resetPartial>>
      BY <2>9, Zenon DEF Commit
    <3>3. recipe' \in Recipes
      BY <2>9 DEF Commit
    <3> QED
      BY <3>1, <3>2, <3>3
  <2>10. CASE Dispatch
    <3>1. request' \in [recipe : Recipes, net : Nets]
      BY <2>10, RecordTypes DEF Dispatch
    <3>2. runtimePersistPending' \in BOOLEAN
      BY <2>10, Zenon DEF Dispatch
    <3>3. UNCHANGED <<slots, intent, durableRevision, scratch, pc, powerOn,
                      resetVars, networkVars, lease, recipe, resetPartial,
                      erased>>
      BY <2>10, Zenon DEF Dispatch
    <3>4. persist' = "queued"
      BY <2>10 DEF Dispatch
    <3> QED
      BY <3>1, <3>2, <3>3, <3>4
  <2>11. CASE PersistResult
    <3>1. request' \in [recipe : Recipes, net : Nets]
      BY <2>11, RecordTypes DEF PersistResult
    <3>2. runtimePersistPending' \in BOOLEAN
      <4>1. PendingAfter(persist) \in BOOLEAN
        BY DEF PendingAfter
      <4> QED
        BY <2>11, <4>1, Zenon DEF PersistResult
    <3> QED
      BY <2>11, <3>1, <3>2 DEF PersistResult
  <2>12. CASE TaskSave
    <3> DEFINE candidate == Candidate(slots, durableRevision, request)
    <3>1. candidate \in Record /\ NoRecord \in Record
      BY RecordTypes
    <3>2. /\ slots' \in [Slots -> Record]
          /\ durableRevision' \in Revisions
          /\ resetPartial' \in BOOLEAN
      BY <2>12, <1>SaveTypes DEF TaskSave
    <3>3. scratch' \in [0 .. 1 -> Record]
      BY <2>12, <3>1 DEF TaskSave, Clobber, Blank
    <3> QED
      BY <2>12, <3>2, <3>3 DEF TaskSave
  <2>13. CASE PowerLoss
    BY <2>13, <1>RestartTypes DEF PowerLoss
  <2> QED
    BY <2>1, <2>2, <2>3, <2>4, <2>5, <2>6, <2>7, <2>8, <2>9, <2>10, <2>11,
       <2>12, <2>13 DEF NetworkStep, ControlStep
<1>1. TypeOK /\ [Next]_vars => TypeOK'
  <2> SUFFICES ASSUME TypeOK, [Next]_vars PROVE TypeOK'
    OBVIOUS
  <2>1. CASE Next
    BY <2>1, <1>BootTypes, <1>TaskTypes DEF Next
  <2>2. CASE UNCHANGED vars
    BY <2>2 DEF TypeOK, vars
  <2> QED
    BY <2>1, <2>2
<1>2. Init => TypeOK
  <2> SUFFICES ASSUME Init PROVE TypeOK
    OBVIOUS
  <2>1. slots \in [Slots -> Record] /\ scratch \in [0 .. 1 -> Record]
    BY RecordTypes DEF Init, Blank
  <2>2. next \in [recipe : Recipes, net : Nets]
        /\ request \in [recipe : Recipes, net : Nets]
    BY RecordTypes DEF Init
  <2>3. durableRevision \in Revisions /\ recipe \in Recipes /\ net \in Nets
    BY RecipeAssumption, RevisionAssumption DEF Init, Revisions, Nets
  <2> QED
    BY <2>1, <2>2, <2>3 DEF Init, TypeOK, Steps
<1> QED
  BY <1>1, <1>2, PTL DEF Spec

-----------------------------------------------------------------------------
(* The erase is latched *)

\* A resumed operation is the one of the record, and a command runs, or has
\* failed, only after the boot.
Latched ==
    /\ EraseIsLatched
    /\ pc = "ensure" /\ caller = "resume" => intent = op
    /\ pc \in {"run", "failed"} => Booted
    /\ caller \in {"resume", "gesture", "web"}

\* A factory reset by command erases nothing before the record of its intent is
\* stored, and a resumed one keeps the record.
THEOREM EraseLatched == Spec => []EraseIsLatched
\* Steps that touch none of what Latched speaks of.
<1>LatchedKept. ASSUME Latched, UNCHANGED <<pc, intent, op, caller, abandoning>>
                PROVE  Latched'
  BY <1>LatchedKept DEF Latched, EraseIsLatched, Booted
\* The steps that leave a recovery, or go on with one.
<1>FailLatched. ASSUME Latched, Fail, pc # "run", UNCHANGED <<intent, op, caller>>
                PROVE  Latched'
  BY <1>FailLatched DEF Fail, Latched, EraseIsLatched, EraseSteps, Booted
<1>1. Init => Latched
  BY DEF Init, Latched, EraseIsLatched, EraseSteps
<1>2. Latched /\ [Next]_vars => Latched'
  <2> SUFFICES ASSUME Latched, [Next]_vars PROVE Latched'
    OBVIOUS
  <2> USE DEF Latched, EraseIsLatched, EraseSteps, Booted
  <2>1. CASE Inspect
    BY <2>1 DEF Inspect
  <2>2. CASE Gesture
    BY <2>2 DEF Gesture
  <2>3. CASE Ensure
    BY <2>3 DEF Ensure, MustLatch
  <2>4. CASE Erase
    <3>1. CASE Fail
      BY <2>4, <3>1, <1>FailLatched DEF Erase
    <3> QED
      BY <2>4, <3>1 DEF Erase
  <2>5. CASE WriteA
    <3>1. CASE Fail
      BY <2>5, <3>1, <1>FailLatched DEF WriteA
    <3>2. CASE ~Fail
      <4>1. pc' = "writeB" /\ UNCHANGED <<intent, op, caller, abandoning>>
        BY <2>5, <3>2 DEF WriteA
      <4> QED
        BY <2>5, <4>1 DEF WriteA
    <3> QED
      BY <3>1, <3>2
  <2>6. CASE WriteB
    <3>1. CASE Fail
      BY <2>6, <3>1, <1>FailLatched DEF WriteB
    <3>2. CASE ~Fail
      BY <2>6, <3>2 DEF WriteB
    <3> QED
      BY <3>1, <3>2
  <2>7. CASE Note
    BY <2>7 DEF Note
  <2>8. CASE ResetBle
    <3>1. CASE Fail
      BY <2>8, <3>1, <1>FailLatched DEF ResetBle
    <3> QED
      BY <2>8, <3>1 DEF ResetBle
  <2>9. CASE Verify
    <3>1. CASE Fail
      BY <2>9, <3>1, <1>FailLatched DEF Verify
    <3> QED
      BY <2>9, <3>1 DEF Verify
  <2>10. CASE NetReset
    <3>1. CASE Fail
      BY <2>10, <3>1, <1>FailLatched DEF NetReset
    <3> QED
      BY <2>10, <3>1 DEF NetReset
  <2>11. CASE ClearAtBoot
    BY <2>11 DEF ClearAtBoot, Restart, AfterRecovery
  <2>12. CASE Abandon
    BY <2>12 DEF Abandon, AfterRecovery
  <2>13. CASE Load
    BY <2>13 DEF Load
  <2>14. CASE ClearByCommand
    BY <2>14 DEF ClearByCommand
  <2>15. CASE WebFailed
    BY <2>15 DEF WebFailed
  <2>16. CASE SafeRestart \/ PowerLoss
    BY <2>16 DEF SafeRestart, PowerLoss, Restart
  <2>17. CASE FactoryResetCommand
    BY <2>17 DEF FactoryResetCommand
  <2>18. CASE SaveCommand \/ ConfirmOrRevert
    <3>1. UNCHANGED <<pc, intent, op, caller, abandoning>>
      BY <2>18 DEF SaveCommand, ConfirmOrRevert
    <3> QED
      BY <3>1, <1>LatchedKept
  <2>19. CASE ControlStep
    <3>1. UNCHANGED <<pc, intent, op, caller, abandoning>>
      BY <2>19 DEF ControlStep, LeaseBegin, LeaseComplete, Commit, Dispatch,
                   PersistResult
    <3> QED
      BY <3>1, <1>LatchedKept
  <2>20. CASE TaskSave
    <3>1. UNCHANGED <<pc, intent, op, caller, abandoning>>
      BY <2>20 DEF TaskSave
    <3> QED
      BY <3>1, <1>LatchedKept
  <2>21. CASE UNCHANGED vars
    BY <2>21, <1>LatchedKept DEF vars
  <2> QED
    BY <2>1, <2>2, <2>3, <2>4, <2>5, <2>6, <2>7, <2>8, <2>9, <2>10, <2>11,
       <2>12, <2>13, <2>14, <2>15, <2>16, <2>17, <2>18, <2>19, <2>20, <2>21
       DEF Next, BootStep, NetworkStep
<1> QED
  BY <1>1, <1>2, PTL DEF Spec, Latched

-----------------------------------------------------------------------------
(* The order of the slots *)

\* While a factory reset runs, no other task saves: the command holds the
\* lease, and before the end of the boot there is no other task.
Quiet ==
    /\ lease = "factory" => persist = "idle"
    /\ Booted /\ pc # "run" => lease = "factory"
    /\ ~Booted => persist = "idle" /\ ~runtimePersistPending
    /\ pc \in {"inspect", "gesture", "netReset"} => ~Booted
    /\ pc = "ensure" /\ Booted => op = "factory"

\* Slot A is the first to pass the wrap: neither its revision nor the durable
\* one is half the range above that of slot B.
InOrder(store, durable) ==
    /\ \A slot \in Slots : store[slot].valid => store[slot].revision # 0
    /\ store["A"].valid /\ store["B"].valid
         => store["A"].revision - store["B"].revision < HalfRange
    /\ durable # 0 /\ store["B"].valid
         => durable - store["B"].revision < HalfRange

\* No slot is newer than the durable revision, when that is known; but slot B
\* may still hold the last revision, which a reset cannot exceed.
Newest(store, durable) ==
    durable # 0 =>
        /\ store["A"].valid => store["A"].revision <= durable
        /\ store["B"].valid
             => \/ store["B"].revision <= durable
                \/ store["B"].revision - durable >= HalfRange
                \/ /\ store["B"].revision = MaxRevision
                   /\ durable = MaxRevision - 1

\* Slot A has not been left behind by half the range.
Near(store, durable) ==
    durable # 0 /\ store["A"].valid
      => durable - store["A"].revision < HalfRange

\* A reset builds on what it has found, unless that is next to the wrap.
Above(revision, found) ==
    found <= revision - 2 \/ revision = MaxRevision

IsFactory(record) == Settings(record.recipe, record.net) = FactorySettings

\* From the write of slot A to the note of its revision the durable revision
\* is behind.
MidReset == pc = "note" \/ (pc = "writeB" /\ scratch[0].valid)

RevisionsInOrder ==
    /\ InOrder(slots, durableRevision)
    /\ ~MidReset => Newest(slots, durableRevision)
    /\ ~resetPartial => Near(slots, durableRevision)
    /\ Booted /\ durableRevision = 0 /\ ~MidReset
         => \A slot \in Slots : ~slots[slot].valid

\* A reset has written slot A, or failed to, and is about to write slot B.
AtSecondSlot ==
    LET revision == scratch[1].revision
    IN  pc = "writeB" =>
            /\ resetPartial
            /\ scratch[1] = RecordOf(revision, FactorySettings)
            /\ revision >= 2
            /\ Above(revision, durableRevision)
            /\ slots["B"].valid => Above(revision, slots["B"].revision)
            /\ IF scratch[0].valid
               THEN slots["A"] = RecordOf(revision - 1, FactorySettings)
                    /\ scratch[0] = slots["A"]
               ELSE slots["A"].valid
                      => /\ Above(revision, slots["A"].revision)
                         /\ InReach(slots["A"], revision)

\* It has read back what it is about to note: both slots, or only one.
AtNote ==
    pc = "note" =>
        \/ /\ secondVerified
           /\ \E revision \in 2 .. MaxRevision :
                 /\ scratch[1] = RecordOf(revision, FactorySettings)
                 /\ slots["B"] = scratch[1]
                 /\ Above(revision, durableRevision)
                 /\ \/ slots["A"] = RecordOf(revision - 1, FactorySettings)
                    \/ /\ resetPartial
                       /\ slots["A"].valid
                            => /\ Above(revision, slots["A"].revision)
                               /\ InReach(slots["A"], revision)
        \/ /\ ~secondVerified
           /\ resetPartial
           /\ \E revision \in 1 .. MaxRevision - 1 :
                 /\ scratch[0] = RecordOf(revision, FactorySettings)
                 /\ slots["A"] = scratch[0]
                 /\ slots["B"].valid
                      => Above(revision + 1, slots["B"].revision)

\* A reset that has ended has left what VerifiedIsFactory says, and the reset
\* of the network is another operation.
AfterReset ==
    /\ pc \in {"ble", "verify"} \/ (pc = "clear" /\ op = "factory")
         => \/ StoredSettings(slots) = FactorySettings
            \/ LastRevisionIn(slots)
            \/ resetPartial /\ AcrossWrap(slots)
    /\ pc = "netReset" => op # "factory"

\* The slots take turns, but for what a reset has written: a save never goes
\* to the slot of the stored settings, unless both hold the factory settings.
TakeTurns ==
    /\ \A slot \in Slots : slots[slot].valid
         => IsFactory(slots[slot]) \/ slot = SlotOf(slots[slot].revision)
    /\ \/ resetPartial
       \/ \A slot \in Slots : slots[slot].valid => IsFactory(slots[slot])
       \/ /\ Stored(slots).valid
          /\ Stored(slots) = slots[SlotOf(Stored(slots).revision)]
          /\ durableRevision \in {0, MaxRevision, Stored(slots).revision}

StoreInvariant ==
    /\ RevisionsInOrder
    /\ AtSecondSlot
    /\ AtNote
    /\ AfterReset
    /\ TakeTurns

\* Between the save of a request and the look at its result, the stored recipe
\* may be that of the request; a reset by command keeps its record to the end.
RecipeInvariant ==
    /\ Booted
         /\ StoredSettings(slots).recipe # recipe
         /\ (persist = "saved"
               => StoredSettings(slots).recipe # request.recipe)
         => \/ runtimePersistPending
            \/ persist \in {"queued", "failed"}
            \/ erased
            \/ intent = "factory"
            \/ durableRevision = MaxRevision
            \/ resetPartial
    /\ Booted => ~abandoning /\ pc # "abandon"
    /\ pc \in {"run", "failed"} => Booted
    /\ Booted /\ pc \in EraseSteps \cup {"clear"} => intent = "factory"

\* Half of the range, and how far the slot that a save keeps is from its
\* revision: wrapping aside, by less than half, with room for a reset.
LEMMA Ranges ==
  /\ HalfRange \in Nat /\ HalfRange >= 5
  /\ MaxRevision = 2 * HalfRange - 1
  /\ \A r \in Record, c \in Revisions :
        r.valid /\ InReach(r, c)
          => \/ c - r.revision <= HalfRange - 2 /\ r.revision - c <= HalfRange - 2
             \/ c - r.revision >= HalfRange + 2
             \/ r.revision - c >= HalfRange + 2
<1>1. /\ HalfRange \in Nat /\ HalfRange >= 5
      /\ MaxRevision = 2 * HalfRange - 1
      /\ MaxGap <= HalfRange - 2
  <2> DEFINE k == MaxRevision \div 2
  <2>1. k \in Nat /\ MaxRevision = 2 * k + 1 /\ k >= 4
    BY RevisionAssumption
  <2>2. HalfRange = k + 1
    BY <2>1 DEF HalfRange
  <2> HIDE DEF k
  <2> QED
    BY <2>1, <2>2, RevisionAssumption
<1>2. ASSUME NEW r \in Record, NEW c \in Revisions, r.valid, InReach(r, c)
      PROVE  \/ c - r.revision <= HalfRange - 2 /\ r.revision - c <= HalfRange - 2
             \/ c - r.revision >= HalfRange + 2
             \/ r.revision - c >= HalfRange + 2
  <2> DEFINE m == MaxRevision + 1
             x == c - r.revision
  <2>1. m \in Nat /\ m > 0 /\ x \in Int /\ -m < x /\ x < m /\ m = 2 * HalfRange
    BY <1>1, <1>2 DEF Record, Revisions
  <2>2. x >= 0 => x % m = x
    BY <2>1
  <2>3. x < 0 => x % m = x + m
    BY <2>1
  <2>4. x % m <= MaxGap \/ x % m >= m - MaxGap
    <3>1. r.revision \in Int /\ c \in Int /\ MaxRevision \in Int /\ MaxGap \in Int
      BY RevisionAssumption DEF Record, Revisions
    <3> QED
      BY <1>2, <3>1 DEF InReach
  <2>5. MaxGap \in Nat
    BY RevisionAssumption
  <2>6. r.revision - c = -x /\ c - r.revision = x
    BY <1>2 DEF Record, Revisions
  <2> HIDE DEF x, m
  <2> QED
    BY <1>1, <2>1, <2>2, <2>3, <2>4, <2>5, <2>6
<1> QED
  BY <1>1, <1>2

\* A save leaves the slots in order, and what it has written is what a boot
\* finds, unless the slots are on both sides of the wrap.
LEMMA SaveStep ==
  ASSUME TypeOK, RevisionsInOrder, pc \notin {"writeB", "note"},
         NEW settings \in [recipe : Recipes, net : Nets], SaveDone(settings)
  PROVE  /\ InOrder(slots', durableRevision')
         /\ Newest(slots', durableRevision')
         /\ ~resetPartial' => Near(slots', durableRevision')
         /\ durableRevision' \in Revisions \ {0, durableRevision}
         /\ \/ Stored(slots') = RecordOf(durableRevision', settings)
               /\ Stored(slots') = slots'[SlotOf(durableRevision')]
            \/ resetPartial' /\ AcrossWrap(slots')
         /\ slots' = [slots EXCEPT ![SlotOf(durableRevision')] =
                                  RecordOf(durableRevision', settings)]
<1> DEFINE base == BaseRevision(slots, durableRevision)
           c == NextRevision(base)
           a == slots["A"].revision
           b == slots["B"].revision
<1>1. /\ base \in Revisions /\ c \in Revisions /\ c # 0
      /\ c = IF base = MaxRevision THEN 1 ELSE base + 1
      /\ c = 1 => SlotOf(c) = "A"
      /\ SlotOf(c) \in Slots
  <2>1. base \in Revisions
    BY RecordTypes, RevisionAssumption
       DEF BaseRevision, Record, Revisions, TypeOK
  <2> QED
    BY <2>1, NextIsNewer DEF NextRevision, SlotOf, Slots, Revisions
<1>2. /\ slots' = [slots EXCEPT ![SlotOf(c)] = RecordOf(c, settings)]
      /\ durableRevision' = c
      /\ \A slot \in Slots \ {SlotOf(c)} : InReach(slots[slot], c)
      /\ resetPartial' = (resetPartial /\ Stored(slots').revision # c)
  BY DEF SaveDone, Candidate, Target, RecordOf
<1>3. /\ a \in Revisions /\ b \in Revisions
      /\ slots["A"] \in Record /\ slots["B"] \in Record
      /\ slots["A"].valid => a # 0
      /\ slots["B"].valid => b # 0
  BY DEF TypeOK, Record, Slots, RevisionsInOrder, InOrder
\* The base orders the slots as a durable revision does.
<1>4. /\ slots["A"].valid /\ slots["B"].valid => a - b < HalfRange
      /\ slots["A"].valid => a <= base
      /\ slots["B"].valid
           => /\ base - b < HalfRange
              /\ \/ b <= base
                 \/ b - base >= HalfRange
                 \/ b = MaxRevision /\ base = MaxRevision - 1
      /\ slots["A"].valid /\ ~resetPartial => base - a < HalfRange
  <2>1. CASE durableRevision # 0
    BY <2>1 DEF RevisionsInOrder, InOrder, Newest, Near, MidReset, BaseRevision
  <2>2. CASE durableRevision = 0
    <3>1. base = IF Stored(slots).valid THEN Stored(slots).revision ELSE 0
      BY <2>2 DEF BaseRevision
    <3>2. slots["A"].valid /\ slots["B"].valid => a - b < HalfRange
      BY DEF RevisionsInOrder, InOrder
    <3> HIDE DEF base
    <3> QED
      BY <1>3, <3>1, <3>2, Ranges DEF Stored, Newer, SecondIsNewer, Revisions
  <2> QED
    BY <2>1, <2>2
<1>9. c # durableRevision
  BY <1>1, Ranges DEF BaseRevision, Revisions
<1> HIDE DEF base, c
<1>5. \A slot \in Slots :
         slots'[slot] = IF slot = SlotOf(c) THEN RecordOf(c, settings)
                                            ELSE slots[slot]
  BY <1>1, <1>2 DEF TypeOK
<1>6. RecordOf(c, settings).valid /\ RecordOf(c, settings).revision = c
  BY DEF RecordOf
<1>7. CASE SlotOf(c) = "A"
  <2>1. slots'["A"] = RecordOf(c, settings) /\ slots'["B"] = slots["B"]
    BY <1>5, <1>7 DEF Slots
  <2>2. slots["B"].valid
          => \/ c - b <= HalfRange - 2 /\ b - c <= HalfRange - 2
             \/ c - b >= HalfRange + 2
             \/ b - c >= HalfRange + 2
    BY <1>1, <1>2, <1>3, <1>7, Ranges DEF Slots
  <2>3. slots["B"].valid => /\ c - b < HalfRange
                            /\ b <= c \/ b - c >= HalfRange
    BY <1>1, <1>3, <1>4, <2>2, Ranges DEF Revisions
  <2>4. Stored(slots') = slots'["A"]
    BY <1>1, <1>3, <1>6, <2>1, <2>3, Ranges
       DEF Stored, Newer, SecondIsNewer, Revisions
  <2> QED
    BY <1>1, <1>2, <1>3, <1>6, <1>7, <1>9, <2>1, <2>3, <2>4, Ranges
       DEF InOrder, Newest, Near, Slots, Revisions
<1>8. CASE SlotOf(c) = "B"
  <2>1. slots'["B"] = RecordOf(c, settings) /\ slots'["A"] = slots["A"]
    BY <1>5, <1>8 DEF Slots
  <2>2. slots["A"].valid
          => \/ c - a <= HalfRange - 2 /\ a - c <= HalfRange - 2
             \/ c - a >= HalfRange + 2
             \/ a - c >= HalfRange + 2
    BY <1>1, <1>2, <1>3, <1>8, Ranges DEF Slots
  <2>3. slots["A"].valid => /\ a < c
                            /\ c - a <= HalfRange - 2 \/ c - a >= HalfRange + 2
                            /\ ~resetPartial => c - a <= HalfRange - 2
    BY <1>1, <1>3, <1>4, <1>8, <2>2, Ranges DEF Revisions
  <2>4. CASE slots["A"].valid => c - a <= HalfRange - 2
    <3>1. Stored(slots') = slots'["B"]
      BY <1>1, <1>3, <1>6, <2>1, <2>3, <2>4, Ranges
         DEF Stored, Newer, SecondIsNewer, Revisions
    <3> QED
      BY <1>1, <1>2, <1>3, <1>6, <1>8, <1>9, <2>1, <2>3, <2>4, <3>1, Ranges
         DEF InOrder, Newest, Near, Slots, Revisions
  <2>5. CASE slots["A"].valid /\ c - a >= HalfRange + 2
    <3>1. Stored(slots') = slots'["A"]
      BY <1>1, <1>3, <1>6, <2>1, <2>3, <2>5, Ranges
         DEF Stored, Newer, SecondIsNewer, Revisions
    <3>2. resetPartial'
      <4>1. Stored(slots').revision # c
        BY <1>1, <1>3, <2>1, <2>3, <2>5, <3>1, Ranges DEF Revisions
      <4>2. resetPartial
        BY <1>1, <1>3, <2>3, <2>5, Ranges DEF Revisions
      <4> QED
        BY <1>2, <4>1, <4>2, Zenon
    <3> QED
      BY <1>1, <1>2, <1>3, <1>6, <1>8, <1>9, <2>1, <2>3, <2>5, <3>1, <3>2,
         Ranges
         DEF InOrder, Newest, Near, Slots, Revisions, AcrossWrap
  <2> QED
    BY <2>3, <2>4, <2>5
<1> QED
  BY <1>1, <1>7, <1>8 DEF Slots
\* What a step that is reported durable has to show, and what one that changes
\* the stored settings has to.
AckStep ==
    durableRevision' \notin {0, durableRevision}
      => \/ /\ Stored(slots').valid
            /\ Stored(slots').revision = durableRevision'
         \/ pc = "note" /\ LastRevisionIn(slots)
         \/ resetPartial /\ AcrossWrap(slots')

KeepStep ==
    StoredSettings(slots') # StoredSettings(slots)
      => \/ /\ Stored(slots').valid
            /\ Stored(slots').revision = durableRevision'
            /\ durableRevision' # durableRevision
         \/ pc \in {"writeA", "writeB"}
         \/ AtWrap
         \/ resetPartial

\* Every step keeps the order of the slots, and shows what it has to.
LEMMA StoreStep ==
  ASSUME TypeOK, Quiet, StoreInvariant, [Next]_vars
  PROVE  StoreInvariant' /\ AckStep /\ KeepStep
<1> DEFINE Still == {"writeB", "note"}
           Goal  == StoreInvariant' /\ AckStep /\ KeepStep
\* Steps that touch nothing the invariant speaks of.
<1>Same. ASSUME UNCHANGED <<slots, durableRevision, scratch, pc, op, caller,
                            secondVerified, resetPartial>>
         PROVE  Goal
  BY <1>Same DEF StoreInvariant, RevisionsInOrder, AtSecondSlot, AtNote, AfterReset,
     TakeTurns, MidReset, Booted, AckStep, KeepStep
\* Steps outside of the two writes of a reset.
<1>GoesOn. ASSUME pc \notin Still, pc' \notin Still,
                  UNCHANGED <<slots, durableRevision, resetPartial>>,
                  Booted' => Booted, AfterReset'
           PROVE  Goal
  BY <1>GoesOn DEF StoreInvariant, RevisionsInOrder, AtSecondSlot, AtNote,
     TakeTurns, MidReset, AckStep, KeepStep
<1>Restarts. ASSUME NEW cold \in BOOLEAN, Restart(cold),
                    UNCHANGED <<slots, resetPartial>>
             PROVE  Goal
  <2>1. /\ pc' = "inspect" /\ durableRevision' = 0 /\ ~Booted'
    BY <1>Restarts DEF Restart, Booted
  <2>2. UNCHANGED <<slots, resetPartial>>
    BY <1>Restarts
  <2>3. RevisionsInOrder'
    BY <2>1, <2>2 DEF StoreInvariant, RevisionsInOrder, InOrder, Newest, Near
  <2>4. TakeTurns'
    BY <2>1, <2>2 DEF StoreInvariant, TakeTurns
  <2> QED
    BY <2>1, <2>2, <2>3, <2>4
       DEF StoreInvariant, AtSecondSlot, AtNote, AfterReset, AckStep, KeepStep
<1>Saved. ASSUME NEW settings \in [recipe : Recipes, net : Nets],
                 SaveDone(settings),
                 pc \notin Still, pc' \notin Still, AfterReset'
          PROVE  Goal
  <2> DEFINE target == SlotOf(durableRevision')
             record == RecordOf(durableRevision', settings)
  <2>1. /\ InOrder(slots', durableRevision')
        /\ Newest(slots', durableRevision')
        /\ ~resetPartial' => Near(slots', durableRevision')
        /\ durableRevision' \in Revisions \ {0, durableRevision}
        /\ \/ Stored(slots') = record /\ Stored(slots') = slots'[target]
           \/ resetPartial' /\ AcrossWrap(slots')
        /\ slots' = [slots EXCEPT ![target] = record]
    BY <1>Saved, SaveStep DEF StoreInvariant
  <2>2. resetPartial' => resetPartial
    BY <1>Saved, Zenon DEF SaveDone
  <2>3. RevisionsInOrder'
    BY <2>1 DEF RevisionsInOrder
  <2>4. record.valid /\ record.revision = durableRevision'
    BY DEF RecordOf
  <2> HIDE DEF record
  <2>5. TakeTurns'
    <3>1. \A slot \in Slots : slots'[slot].valid
            => IsFactory(slots'[slot]) \/ slot = SlotOf(slots'[slot].revision)
      BY <2>1, <2>4 DEF StoreInvariant, TakeTurns, TypeOK
    <3>2. \/ resetPartial'
          \/ /\ Stored(slots').valid
             /\ Stored(slots') = slots'[SlotOf(Stored(slots').revision)]
             /\ durableRevision' = Stored(slots').revision
      BY <2>1, <2>4
    <3> QED
      BY <3>1, <3>2 DEF TakeTurns
  <2>6. AckStep /\ KeepStep
    BY <2>1, <2>2, <2>4 DEF AckStep, KeepStep
  <2> QED
    BY <1>Saved, <2>3, <2>5, <2>6 DEF StoreInvariant, AtSecondSlot, AtNote
\* A record that is lost breaks no order.
<1>Lost. ASSUME NEW slot \in Slots,
                slots' \in {slots, [slots EXCEPT ![slot] = NoRecord]}
         PROVE  /\ \A s \in Slots : slots'[s].valid => slots'[s] = slots[s]
                /\ InOrder(slots, durableRevision) => InOrder(slots', durableRevision)
                /\ Newest(slots, durableRevision) => Newest(slots', durableRevision)
                /\ Near(slots, durableRevision) => Near(slots', durableRevision)
  <2>1. \A s \in Slots : slots'[s].valid => slots'[s] = slots[s]
    BY <1>Lost DEF TypeOK, NoRecord
  <2> QED
    BY <2>1 DEF InOrder, Newest, Near, Slots
<1>NotSaved. ASSUME NEW settings \in [recipe : Recipes, net : Nets],
                    SaveFailed(settings),
                    pc \notin Still, pc' \notin Still, AfterReset',
                    Booted' => Booted \/ ~Stored(slots).valid
             PROVE  Goal
  <2> DEFINE base == BaseRevision(slots, durableRevision)
             c == NextRevision(base)
             target == SlotOf(c)
             stored == Stored(slots)
  <2>1. /\ slots' \in {slots, [slots EXCEPT ![target] = NoRecord]}
        /\ UNCHANGED <<durableRevision, resetPartial>>
    BY <1>NotSaved DEF SaveFailed, Candidate, Target, RecordOf
  <2>2. /\ base \in Revisions
        /\ c = IF base = MaxRevision THEN 1 ELSE base + 1
        /\ target \in Slots
    BY RecordTypes, RevisionAssumption
       DEF BaseRevision, Record, Revisions, TypeOK, NextRevision, SlotOf, Slots
  <2>3. \A s \in Slots : slots'[s].valid => slots'[s] = slots[s]
    BY <2>1, <2>2, <1>Lost
  <2>4. RevisionsInOrder'
    <3>1. ~stored.valid => \A s \in Slots : ~slots[s].valid
      BY DEF Stored, Newer, Slots
    <3> QED
      BY <1>NotSaved, <1>Lost, <2>1, <2>2, <2>3, <3>1
         DEF StoreInvariant, RevisionsInOrder, MidReset
  <2>5. \A s \in Slots : slots'[s].valid
          => IsFactory(slots'[s]) \/ s = SlotOf(slots'[s].revision)
    BY <2>3 DEF StoreInvariant, TakeTurns
  <2>6. CASE slots' = slots
    BY <1>NotSaved, <2>1, <2>4, <2>6 DEF StoreInvariant, AtSecondSlot, AtNote,
       TakeTurns, MidReset, AckStep, KeepStep
  <2>7. CASE slots' = [slots EXCEPT ![target] = NoRecord]
    <3>1. \A s \in Slots : slots'[s] = IF s = target THEN NoRecord ELSE slots[s]
      BY <2>7 DEF TypeOK
    <3>2. ~NoRecord.valid
      BY DEF NoRecord
    <3>3. (\A s \in Slots : slots[s].valid => IsFactory(slots[s]))
            => /\ StoredSettings(slots) = FactorySettings
               /\ StoredSettings(slots') = FactorySettings
      BY <2>3 DEF StoredSettings, Stored, Newer, Slots, IsFactory
    <3>4. CASE base = MaxRevision
      <4>1. target = "A"
        BY <2>2, <3>4, RevisionAssumption DEF SlotOf
      <4>2. slots'["B"].valid => Stored(slots') = slots'["B"]
        BY <3>1, <3>2, <4>1 DEF Stored, Newer, Slots
      <4>3. durableRevision \in {0, MaxRevision}
        BY <3>4 DEF BaseRevision
      <4>4. TakeTurns'
        BY <2>1, <2>5, <3>1, <3>2, <4>1, <4>2, <4>3 DEF TakeTurns, Slots
      <4>5. KeepStep
        BY <3>4 DEF KeepStep, AtWrap
      <4> QED
        BY <1>NotSaved, <2>1, <2>4, <4>4, <4>5
           DEF StoreInvariant, AtSecondSlot, AtNote, AckStep
    <3>5. CASE base # MaxRevision
      <4>1. CASE resetPartial \/ \A s \in Slots : slots[s].valid => IsFactory(slots[s])
        BY <1>NotSaved, <2>1, <2>3, <2>4, <2>5, <3>3, <4>1
           DEF StoreInvariant, AtSecondSlot, AtNote, AckStep, KeepStep,
               TakeTurns
      <4>2. CASE /\ stored.valid
                 /\ stored = slots[SlotOf(stored.revision)]
                 /\ durableRevision \in {0, MaxRevision, stored.revision}
        <5>1. base = stored.revision /\ stored.revision \in Revisions
          BY <3>5, <4>2, RecordTypes DEF BaseRevision, TypeOK, Record
        <5>2. SlotOf(stored.revision) # target /\ SlotOf(stored.revision) \in Slots
          BY <2>2, <3>5, <5>1 DEF SlotOf, Revisions, Slots
        <5>3. Stored(slots') = stored
          BY <3>1, <3>2, <2>2, <4>2, <5>2 DEF Stored, Newer, Slots
        <5> HIDE DEF stored
        <5>4. TakeTurns'
          BY <2>1, <2>5, <3>1, <4>2, <5>2, <5>3 DEF TakeTurns
        <5>5. KeepStep
          BY <5>3 DEF KeepStep, StoredSettings, stored
        <5> QED
          BY <1>NotSaved, <2>1, <2>4, <5>4, <5>5
             DEF StoreInvariant, AtSecondSlot, AtNote, AckStep
      <4> QED
        BY <4>1, <4>2 DEF StoreInvariant, TakeTurns
    <3> QED
      BY <3>4, <3>5
  <2> QED
    BY <2>1, <2>6, <2>7
<1>Loads. ASSUME Load
          PROVE  Goal
  <2>1. /\ pc = "load" /\ pc' = "run" /\ caller' = "web"
    BY <1>Loads DEF Load
  <2>2. AfterReset'
    BY <2>1 DEF AfterReset
  <2>3. CASE ~Stored(slots).valid
    <3>1. SaveDone(FactorySettings) \/ SaveFailed(FactorySettings)
      BY <1>Loads, <2>3 DEF Load
    <3> QED
      BY <2>1, <2>2, <2>3, <3>1, <1>Saved, <1>NotSaved, RecordTypes
  <2>4. CASE Stored(slots).valid
    <3> DEFINE stored == Stored(slots)
               a == slots["A"].revision
               b == slots["B"].revision
    <3>1. /\ durableRevision' = stored.revision
          /\ UNCHANGED <<slots, resetPartial>>
      BY <1>Loads, <2>4 DEF Load
    <3>2. /\ InOrder(slots, durableRevision)
          /\ slots["A"].valid => a # 0
          /\ slots["B"].valid => b # 0
          /\ a \in Revisions /\ b \in Revisions
      BY DEF StoreInvariant, RevisionsInOrder, InOrder, Slots, TypeOK, Record
    <3>3. stored.revision # 0
      BY <2>4, <3>2 DEF Stored, Newer
    <3>4. /\ InOrder(slots, stored.revision)
          /\ Newest(slots, stored.revision)
          /\ Near(slots, stored.revision)
      BY <2>4, <3>2, Ranges
         DEF InOrder, Newest, Near, Stored, Newer, SecondIsNewer, Revisions
    <3> HIDE DEF stored
    <3>5. RevisionsInOrder'
      BY <3>1, <3>3, <3>4 DEF RevisionsInOrder
    <3>6. TakeTurns'
      BY <3>1 DEF StoreInvariant, TakeTurns, stored
    <3>7. AckStep /\ KeepStep
      BY <2>4, <3>1 DEF AckStep, KeepStep, stored
    <3> QED
      BY <2>1, <2>2, <3>5, <3>6, <3>7 DEF StoreInvariant, AtSecondSlot, AtNote
  <2> QED
    BY <2>3, <2>4
\* The two writes of a reset, and what it notes.
<1>First. ASSUME WriteA
          PROVE  Goal
  <2> DEFINE base   == ExistingMax(slots, durableRevision)
             first  == RecordOf(base + 1, FactorySettings)
             second == RecordOf(base + 2, FactorySettings)
             a == slots["A"].revision
             b == slots["B"].revision
  <2>1. /\ pc = "writeA"
        /\ UNCHANGED <<durableRevision, op, caller>>
    BY <1>First DEF WriteA
  <2>2. /\ first.valid /\ first.revision = base + 1 /\ IsFactory(first)
        /\ second.valid /\ second.revision = base + 2
        /\ ~NoRecord.valid
    BY DEF RecordOf, IsFactory, NoRecord, FactorySettings, Settings
  <2>3. /\ a \in Revisions /\ b \in Revisions /\ durableRevision \in Revisions
        /\ slots["A"] \in Record /\ slots["B"] \in Record
    BY DEF TypeOK, Record, Slots
  <2>4. /\ base \in 0 .. MaxRevision - 2
        /\ Above(base + 2, durableRevision)
        /\ slots["A"].valid => Above(base + 2, a)
        /\ slots["B"].valid => Above(base + 2, b)
        /\ \/ base <= durableRevision
           \/ slots["A"].valid /\ base <= a
           \/ slots["B"].valid /\ base <= b
    BY <2>3, Ranges DEF ExistingMax, AtLeast, Above, Revisions
  <2>5. InOrder(slots, durableRevision)
    BY DEF StoreInvariant, RevisionsInOrder
  <2>6. slots["B"].valid => base - b < HalfRange
    BY <2>3, <2>4, <2>5, Ranges DEF InOrder, Revisions
  <2> HIDE DEF base, first, second
  <2>7. CASE /\ InReach(slots["B"], first.revision)
             /\ slots' = [slots EXCEPT !["A"] = first]
             /\ scratch' = [Blank EXCEPT ![0] = first, ![1] = second]
             /\ resetPartial' = TRUE
             /\ pc' = "writeB"
    <3>1. /\ slots'["A"] = first /\ slots'["B"] = slots["B"]
          /\ scratch'[0] = first /\ scratch'[1] = second
          /\ \A s \in Slots : slots'[s] = IF s = "A" THEN first ELSE slots[s]
      BY <2>7 DEF TypeOK, Slots, Blank
    <3>2. slots["B"].valid => first.revision - b < HalfRange
      <4>1. first.revision \in Revisions
        BY <2>2, <2>4, Ranges DEF Revisions
      <4>2. slots["B"].valid
              => \/ first.revision - b <= HalfRange - 2
                 \/ first.revision - b >= HalfRange + 2
                 \/ b - first.revision >= HalfRange + 2
        <5>1. InReach(slots["B"], first.revision)
          BY <2>7
        <5>2. \A r \in Record, c \in Revisions :
                 r.valid /\ InReach(r, c)
                   => \/ c - r.revision <= HalfRange - 2
                      \/ c - r.revision >= HalfRange + 2
                      \/ r.revision - c >= HalfRange + 2
          BY Ranges
        <5> QED
          BY <2>3, <4>1, <5>1, <5>2
      <4>3. b \in Int /\ base \in Int /\ HalfRange \in Nat
        BY <2>3, <2>4, Ranges DEF Revisions
      <4> QED
        BY <2>2, <2>6, <4>1, <4>2, <4>3 DEF Revisions
    <3>3. InOrder(slots', durableRevision)
      <4>1. first.revision # 0 /\ first.revision = base + 1
        BY <2>2, <2>4
      <4> QED
        BY <2>5, <3>1, <3>2, <4>1 DEF InOrder, Slots
    <3>4. RevisionsInOrder'
      BY <2>1, <2>2, <2>7, <3>1, <3>3 DEF RevisionsInOrder, MidReset
    <3>5. AtSecondSlot'
      <4>1. /\ second = RecordOf(second.revision, FactorySettings)
            /\ first = RecordOf(second.revision - 1, FactorySettings)
            /\ second.revision >= 2
        <5>1. base + 2 - 1 = base + 1
          BY <2>4
        <5> QED
          BY <2>2, <2>4, <5>1 DEF first, second
      <4> QED
        BY <2>1, <2>2, <2>4, <2>7, <3>1, <4>1 DEF AtSecondSlot
    <3>6. TakeTurns'
      BY <2>2, <2>7, <3>1 DEF StoreInvariant, TakeTurns
    <3> QED
      BY <2>1, <2>7, <3>4, <3>5, <3>6
         DEF StoreInvariant, AtNote, AfterReset, AckStep, KeepStep
  <2>8. CASE /\ slots' \in {slots, [slots EXCEPT !["A"] = NoRecord]}
             /\ InReach(slots'["A"], second.revision)
             /\ scratch' = [Blank EXCEPT ![1] = second]
             /\ resetPartial' = TRUE
             /\ pc' = "writeB"
    <3>1. /\ slots'["A"] = slots["A"] \/ ~slots'["A"].valid
          /\ slots'["B"] = slots["B"]
          /\ ~scratch'[0].valid /\ scratch'[1] = second
      BY <2>2, <2>8 DEF TypeOK, Slots, Blank
    <3>2. \A s \in Slots : slots'[s].valid => slots'[s] = slots[s]
      BY <2>8, <1>Lost DEF Slots
    <3>3. RevisionsInOrder'
      BY <2>1, <2>8, <3>1, <3>2, <1>Lost
         DEF StoreInvariant, RevisionsInOrder, MidReset, Slots, Booted
    <3>4. AtSecondSlot'
      BY <2>1, <2>2, <2>4, <2>8, <3>1 DEF AtSecondSlot, second
    <3>5. TakeTurns'
      BY <2>8, <3>2 DEF StoreInvariant, TakeTurns
    <3> QED
      BY <2>1, <2>8, <3>3, <3>4, <3>5
         DEF StoreInvariant, AtNote, AfterReset, AckStep, KeepStep
  <2>9. CASE Fail /\ UNCHANGED <<slots, resetPartial>>
    <3>1. pc' \notin Still /\ AfterReset'
      BY <2>1, <2>9 DEF Fail, AfterReset
    <3> QED
      BY <2>1, <2>9, <3>1, <1>GoesOn DEF Booted
  <2> QED
    BY <1>First, <2>7, <2>8, <2>9 DEF WriteA, base, first, second
<1>Second. ASSUME WriteB
           PROVE  Goal
  <2> DEFINE r == scratch[1].revision
             a == slots["A"].revision
             b == slots["B"].revision
  <2>1. /\ pc = "writeB"
        /\ UNCHANGED <<durableRevision, op, caller>>
    BY <1>Second DEF WriteB
  <2>2. /\ resetPartial
        /\ scratch[1] = RecordOf(r, FactorySettings)
        /\ r \in 2 .. MaxRevision
        /\ Above(r, durableRevision)
        /\ slots["B"].valid => Above(r, b)
        /\ IF scratch[0].valid
           THEN slots["A"] = RecordOf(r - 1, FactorySettings) /\ scratch[0] = slots["A"]
           ELSE slots["A"].valid => Above(r, a) /\ InReach(slots["A"], r)
    BY <2>1 DEF StoreInvariant, AtSecondSlot, TypeOK, Record, Revisions
  <2>3. \A n \in Revisions : /\ RecordOf(n, FactorySettings).valid
                             /\ RecordOf(n, FactorySettings).revision = n
                             /\ IsFactory(RecordOf(n, FactorySettings))
    BY DEF RecordOf, IsFactory, FactorySettings, Settings
  <2>4. /\ InOrder(slots, durableRevision)
        /\ a \in Revisions /\ b \in Revisions /\ durableRevision \in Revisions
    BY DEF StoreInvariant, RevisionsInOrder, TypeOK, Record, Slots
  <2>5. /\ r - 1 \in Revisions /\ r \in Revisions /\ r # 0
    BY <2>2, Ranges DEF Revisions
  <2>6. CASE /\ slots' = [slots EXCEPT !["B"] = scratch[1]]
             /\ secondVerified' = TRUE
             /\ resetPartial' = ~scratch[0].valid
             /\ pc' = "note"
             /\ UNCHANGED scratch
    <3>1. /\ slots'["B"] = scratch[1] /\ slots'["A"] = slots["A"]
          /\ \A s \in Slots : slots'[s] = IF s = "B" THEN scratch[1] ELSE slots[s]
      BY <2>6 DEF TypeOK, Slots
    <3>2. slots["A"].valid => a <= r
      BY <2>2, <2>3, <2>4, <2>5 DEF Above, Revisions
    <3>3. InOrder(slots', durableRevision)
      BY <2>2, <2>3, <2>4, <2>5, <3>1, <3>2, Ranges
         DEF InOrder, Slots, Above, Revisions
    <3>4. ~resetPartial' => scratch[0].valid
      BY <2>6, Zenon
    <3>5. ~resetPartial' => Near(slots', durableRevision)
      BY <2>2, <2>3, <2>4, <2>5, <3>1, <3>4, Ranges DEF Near, Above, Revisions
    <3>6. RevisionsInOrder'
      BY <2>1, <2>6, <3>3, <3>5 DEF RevisionsInOrder, MidReset
    <3>7. AtNote'
      <4>1. \/ slots'["A"] = RecordOf(r - 1, FactorySettings)
            \/ /\ resetPartial'
               /\ slots'["A"].valid => /\ Above(r, slots'["A"].revision)
                                      /\ InReach(slots'["A"], r)
        BY <2>2, <3>1, <3>4
      <4> QED
        BY <2>1, <2>2, <2>6, <3>1, <4>1 DEF AtNote
    <3>8. TakeTurns'
      <4>1. IsFactory(slots'["B"])
        BY <2>2, <2>3, <2>5, <3>1
      <4>2. ~resetPartial' => IsFactory(slots'["A"])
        BY <2>2, <2>3, <2>5, <3>1, <3>4
      <4> QED
        BY <3>1, <4>1, <4>2 DEF StoreInvariant, TakeTurns, Slots
    <3> QED
      BY <2>1, <2>6, <3>6, <3>7, <3>8
         DEF StoreInvariant, AtSecondSlot, AfterReset, AckStep, KeepStep
  <2>7. CASE /\ slots' \in {slots, [slots EXCEPT !["B"] = NoRecord]}
             /\ secondVerified' = FALSE
             /\ UNCHANGED resetPartial
             /\ scratch[0].valid
             /\ scratch' = [scratch EXCEPT ![1] = NoRecord]
             /\ pc' = "note"
    <3>1. /\ slots'["B"] = slots["B"] \/ ~slots'["B"].valid
          /\ slots'["A"] = slots["A"]
          /\ scratch'[0] = scratch[0]
      BY <2>7 DEF TypeOK, Slots, NoRecord
    <3>2. \A s \in Slots : slots'[s].valid => slots'[s] = slots[s]
      BY <2>7, <1>Lost DEF Slots
    <3>3. RevisionsInOrder'
      BY <2>1, <2>2, <2>4, <2>7, <1>Lost DEF RevisionsInOrder, MidReset, Slots
    <3>4. AtNote'
      <4>1. r - 1 \in 1 .. MaxRevision - 1
        BY <2>2, Ranges
      <4>2. slots'["B"].valid => Above(r - 1 + 1, slots'["B"].revision)
        BY <2>2, <3>1, <2>5 DEF Revisions
      <4> QED
        BY <2>1, <2>2, <2>7, <3>1, <4>1, <4>2 DEF AtNote
    <3>5. TakeTurns'
      BY <2>2, <2>7, <3>2 DEF StoreInvariant, TakeTurns
    <3> QED
      BY <2>1, <2>7, <3>3, <3>4, <3>5
         DEF StoreInvariant, AtSecondSlot, AfterReset, AckStep, KeepStep
  <2>8. CASE /\ slots' \in {slots, [slots EXCEPT !["B"] = NoRecord]}
             /\ UNCHANGED resetPartial
             /\ ~scratch[0].valid
             /\ Fail
    <3>1. pc' \notin Still /\ AfterReset'
      BY <2>1, <2>8 DEF Fail, AfterReset
    <3>2. \A s \in Slots : slots'[s].valid => slots'[s] = slots[s]
      BY <2>8, <1>Lost DEF Slots
    <3>3. RevisionsInOrder'
      BY <2>1, <2>8, <3>1, <3>2, <1>Lost
         DEF StoreInvariant, RevisionsInOrder, MidReset, Slots, Booted
    <3>4. TakeTurns'
      BY <2>2, <2>8, <3>2 DEF StoreInvariant, TakeTurns
    <3> QED
      BY <2>1, <3>1, <3>3, <3>4
         DEF StoreInvariant, AtSecondSlot, AtNote, AckStep, KeepStep
  <2> QED
    BY <1>Second, <2>6, <2>7, <2>8 DEF WriteB
<1>Noted. ASSUME Note
          PROVE  Goal
  <2> DEFINE a == slots["A"].revision
             b == slots["B"].revision
             Outcome == \/ StoredSettings(slots) = FactorySettings
                           /\ Stored(slots).valid
                           /\ Stored(slots).revision = durableRevision'
                        \/ LastRevisionIn(slots)
                        \/ resetPartial /\ AcrossWrap(slots)
  <2>1. /\ pc = "note" /\ pc' \in {"abandon", "ble"}
        /\ UNCHANGED <<slots, resetPartial, op, caller>>
        /\ durableRevision' =
             (IF secondVerified THEN scratch[1] ELSE scratch[0]).revision
    BY <1>Noted DEF Note
  <2>2. \A n \in Revisions : /\ RecordOf(n, FactorySettings).valid
                             /\ RecordOf(n, FactorySettings).revision = n
                             /\ IsFactory(RecordOf(n, FactorySettings))
    BY DEF RecordOf, IsFactory, FactorySettings, Settings
  <2>3. /\ InOrder(slots, durableRevision)
        /\ slots["A"] \in Record /\ slots["B"] \in Record
        /\ a \in Revisions /\ b \in Revisions /\ durableRevision \in Revisions
    BY DEF StoreInvariant, RevisionsInOrder, TypeOK, Record, Slots
  <2>4. /\ durableRevision' # 0
        /\ InOrder(slots, durableRevision')
        /\ Newest(slots, durableRevision')
        /\ ~resetPartial => Near(slots, durableRevision')
                            /\ \A s \in Slots : IsFactory(slots[s])
        /\ Outcome
    <3>1. CASE secondVerified
      <4>1. PICK r \in 2 .. MaxRevision :
              /\ scratch[1] = RecordOf(r, FactorySettings)
              /\ slots["B"] = scratch[1]
              /\ Above(r, durableRevision)
              /\ \/ slots["A"] = RecordOf(r - 1, FactorySettings)
                 \/ /\ resetPartial
                    /\ slots["A"].valid
                         => /\ Above(r, slots["A"].revision)
                            /\ InReach(slots["A"], r)
        BY <2>1, <3>1 DEF StoreInvariant, AtNote
      <4>2. /\ r \in Revisions /\ r # 0 /\ r - 1 \in Revisions
            /\ durableRevision' = r /\ b = r
            /\ slots["B"].valid /\ IsFactory(slots["B"])
        BY <2>1, <2>2, <3>1, <4>1, Ranges DEF Revisions
      <4>3. CASE slots["A"] = RecordOf(r - 1, FactorySettings)
        <5>1. slots["A"].valid /\ a = r - 1 /\ IsFactory(slots["A"])
          BY <2>2, <4>2, <4>3
        <5>2. Stored(slots) = slots["B"]
          BY <4>2, <5>1, Ranges DEF Stored, Newer, SecondIsNewer, Revisions
        <5>3. Outcome
          BY <4>2, <5>2 DEF StoredSettings, IsFactory
        <5> QED
          BY <2>3, <4>2, <5>1, <5>3, Ranges
             DEF InOrder, Newest, Near, Revisions, Slots
      <4>4. CASE /\ resetPartial
                 /\ slots["A"].valid => Above(r, a) /\ InReach(slots["A"], r)
        <5>1. Outcome
          <6>1. CASE ~slots["A"].valid \/ (a < r /\ r - a < HalfRange)
            <7>1. Stored(slots) = slots["B"]
              BY <2>3, <4>2, <6>1, Ranges
                 DEF Stored, Newer, SecondIsNewer, Revisions
            <7> QED
              BY <4>2, <7>1 DEF StoredSettings, IsFactory
          <6>2. CASE slots["A"].valid /\ ~(a < r /\ r - a < HalfRange)
            <7>1. a = MaxRevision \/ r - a > HalfRange
              BY <2>3, <4>2, <4>4, <6>2, Ranges DEF Above, Revisions
            <7> QED
              BY <4>2, <4>4, <6>2, <7>1 DEF LastRevisionIn, AcrossWrap, Slots
          <6> QED
            BY <6>1, <6>2
        <5>2. slots["A"].valid => a <= r
          BY <2>3, <4>2, <4>4 DEF Above, Revisions
        <5> QED
          BY <2>3, <4>2, <4>4, <5>1, <5>2, Ranges
             DEF InOrder, Newest, Revisions, Slots
      <4> QED
        BY <4>1, <4>3, <4>4
    <3>2. CASE ~secondVerified
      <4>1. PICK r \in 1 .. MaxRevision - 1 :
              /\ scratch[0] = RecordOf(r, FactorySettings)
              /\ slots["A"] = scratch[0]
              /\ slots["B"].valid => Above(r + 1, slots["B"].revision)
        BY <2>1, <3>2 DEF StoreInvariant, AtNote
      <4>2. /\ r \in Revisions /\ r # 0 /\ resetPartial
            /\ durableRevision' = r /\ a = r
            /\ slots["A"].valid /\ IsFactory(slots["A"])
        BY <2>1, <2>2, <3>2, <4>1, Ranges DEF Revisions, StoreInvariant, AtNote
      <4>3. slots["B"].valid => r - b < HalfRange
        BY <2>3, <4>2 DEF InOrder
      <4>4. Outcome
        <5>1. CASE ~slots["B"].valid \/ b <= r
          <6>1. Stored(slots) = slots["A"]
            BY <2>3, <4>2, <4>3, <5>1, Ranges
               DEF Stored, Newer, SecondIsNewer, Revisions
          <6> QED
            BY <4>2, <6>1 DEF StoredSettings, IsFactory
        <5>2. CASE slots["B"].valid /\ b > r
          <6>1. b = MaxRevision
            BY <2>3, <4>1, <4>2, <5>2, Ranges DEF Above, Revisions
          <6> QED
            BY <6>1 DEF LastRevisionIn, Slots
        <5> QED
          BY <2>3, <4>2, <5>1, <5>2 DEF Revisions
      <4>5. slots["B"].valid => b <= r \/ (b = MaxRevision /\ r = MaxRevision - 1)
        BY <2>3, <4>1, <4>2, Ranges DEF Above, Revisions
      <4> QED
        BY <2>3, <4>2, <4>3, <4>4, <4>5, Ranges
           DEF InOrder, Newest, Revisions, Slots
    <3> QED
      BY <3>1, <3>2
  <2>5. RevisionsInOrder'
    BY <2>1, <2>4 DEF RevisionsInOrder
  <2>6. TakeTurns'
    BY <2>1, <2>4 DEF StoreInvariant, TakeTurns
  <2>7. AfterReset'
    BY <2>1, <2>4 DEF AfterReset
  <2>8. AckStep /\ KeepStep
    BY <2>1, <2>4 DEF AckStep, KeepStep
  <2> QED
    BY <2>1, <2>5, <2>6, <2>7, <2>8 DEF StoreInvariant, AtSecondSlot, AtNote
\* Every step.
<1>1. CASE BootStep
  <2>1. CASE Inspect
    BY <2>1, <1>GoesOn DEF Inspect, AfterReset, Booted, Quiet
  <2>2. CASE Gesture
    BY <2>2, <1>GoesOn DEF Gesture, AfterReset, Booted, Quiet
  <2>3. CASE Ensure
    BY <2>3, <1>GoesOn DEF Ensure, AfterReset, Booted
  <2>4. CASE Erase
    BY <2>4, <1>GoesOn DEF Erase, Fail, AfterReset, Booted
  <2>5. CASE WriteA \/ WriteB \/ Note
    BY <2>5, <1>First, <1>Second, <1>Noted
  <2>6. CASE ResetBle
    BY <2>6, <1>GoesOn DEF ResetBle, Fail, StoreInvariant, AfterReset, Booted
  <2>7. CASE Verify
    BY <2>7, <1>GoesOn DEF Verify, Fail, StoreInvariant, AfterReset, Booted
  <2>8. CASE NetReset
    <3> DEFINE found == Stored(slots)
               kept  == IF found.valid THEN found.recipe ELSE DefaultRecipe
    <3>1. Settings(kept, "none") \in [recipe : Recipes, net : Nets]
      BY RecordTypes, RecipeAssumption DEF Record, Nets, TypeOK
    <3>2. /\ pc = "netReset" /\ op # "factory" /\ op' = op /\ ~Booted /\ ~Booted'
      BY <2>8 DEF NetReset, StoreInvariant, AfterReset, Quiet, Booted
    <3>3. pc' \in {"abandon", "clear", "failed", "netReset"}
      BY <2>8, <3>2 DEF NetReset, Fail
    <3>4. AfterReset'
      BY <3>2, <3>3 DEF AfterReset
    <3>5. SaveDone(Settings(kept, "none")) \/ SaveFailed(Settings(kept, "none"))
      BY <2>8 DEF NetReset
    <3> QED
      BY <3>1, <3>2, <3>3, <3>4, <3>5, <1>Saved, <1>NotSaved
  <2>9. CASE ClearAtBoot
    <3>1. CASE Restart(FALSE)
      BY <2>9, <3>1, <1>Restarts DEF ClearAtBoot
    <3>2. CASE ~Restart(FALSE)
      BY <2>9, <3>2, <1>GoesOn
         DEF ClearAtBoot, AfterRecovery, AfterReset, Booted
    <3> QED
      BY <3>1, <3>2
  <2>10. CASE Abandon
    BY <2>10, <1>GoesOn DEF Abandon, AfterRecovery, AfterReset, Booted
  <2>11. CASE Load
    BY <2>11, <1>Loads
  <2> QED
    BY <1>1, <2>1, <2>2, <2>3, <2>4, <2>5, <2>6, <2>7, <2>8, <2>9, <2>10, <2>11
       DEF BootStep
<1>2. CASE NetworkStep
  <2>1. CASE ClearByCommand
    BY <2>1, <1>GoesOn DEF ClearByCommand, AfterReset, Booted
  <2>2. CASE WebFailed
    BY <2>2, <1>GoesOn DEF WebFailed, AfterReset, Booted
  <2>3. CASE SafeRestart
    BY <2>3, <1>Restarts DEF SafeRestart
  <2>4. CASE FactoryResetCommand
    BY <2>4, <1>GoesOn DEF FactoryResetCommand, AfterReset, Booted
  <2>5. CASE SaveCommand \/ ConfirmOrRevert
    <3>1. PICK newNet \in Nets :
            SaveDone(Settings(recipe, newNet)) \/ SaveFailed(Settings(recipe, newNet))
      BY <2>5, Zenon DEF SaveCommand, ConfirmOrRevert
    <3>2. Settings(recipe, newNet) \in [recipe : Recipes, net : Nets]
      BY RecordTypes DEF TypeOK
    <3>3. pc = "run" /\ UNCHANGED <<pc, op, caller>>
      BY <2>5 DEF SaveCommand, ConfirmOrRevert
    <3> QED
      BY <3>1, <3>2, <3>3, <1>Saved, <1>NotSaved DEF AfterReset, Booted
  <2> QED
    BY <1>2, <2>1, <2>2, <2>3, <2>4, <2>5 DEF NetworkStep
<1>3. CASE ControlStep
  BY <1>3, <1>Same
     DEF ControlStep, LeaseBegin, LeaseComplete, Commit, Dispatch, PersistResult
<1>4. CASE TaskSave
  <2>1. /\ persist = "queued" /\ UNCHANGED <<pc, op, caller, secondVerified>>
        /\ request \in [recipe : Recipes, net : Nets]
    BY <1>4 DEF TaskSave, TypeOK
  <2>2. Booted /\ pc = "run"
    BY <2>1 DEF Quiet
  <2>3. SaveDone(request) \/ SaveFailed(request)
    BY <1>4, <2>2 DEF TaskSave
  <2> QED
    BY <2>1, <2>2, <2>3, <1>Saved, <1>NotSaved DEF AfterReset, Booted
<1>5. CASE PowerLoss
  BY <1>5, <1>Restarts DEF PowerLoss
<1>6. CASE UNCHANGED vars
  BY <1>6, <1>Same DEF vars
<1> QED
  BY <1>1, <1>2, <1>3, <1>4, <1>5, <1>6 DEF Next

\* When no save of the settings task is in flight as a factory reset is
\* accepted, a reset is alone, and the slots are in order, always.
THEOREM StoreInvariantHolds ==
  ~Overlap => (Spec => [](TypeOK /\ Quiet /\ StoreInvariant))
\* A reset is alone, and runs under the lease when it is a command.
<1>QuietStep. ASSUME ~Overlap, Quiet, [Next]_vars
              PROVE  Quiet'
  <2> USE <1>QuietStep
  <2> USE DEF Quiet, Booted
  <2>1. CASE Inspect
    BY <2>1 DEF Inspect
  <2>2. CASE Gesture
    BY <2>2 DEF Gesture
  <2>3. CASE Ensure
    BY <2>3 DEF Ensure, MustLatch
  <2>4. CASE Erase
    BY <2>4 DEF Erase, Fail
  <2>5. CASE WriteA
    <3>1. /\ pc = "writeA"
          /\ UNCHANGED <<lease, caller, op, persist, runtimePersistPending>>
      BY <2>5 DEF WriteA
    <3>2. pc' = "writeB" \/ Fail
      BY <2>5 DEF WriteA
    <3> QED
      BY <3>1, <3>2 DEF Fail
  <2>6. CASE WriteB
    <3>1. /\ pc = "writeB"
          /\ UNCHANGED <<lease, caller, op, persist, runtimePersistPending>>
      BY <2>6 DEF WriteB
    <3>2. pc' = "note" \/ Fail
      BY <2>6 DEF WriteB
    <3> QED
      BY <3>1, <3>2 DEF Fail
  <2>7. CASE Note
    BY <2>7 DEF Note
  <2>8. CASE ResetBle
    BY <2>8 DEF ResetBle, Fail
  <2>9. CASE Verify
    BY <2>9 DEF Verify, Fail
  <2>10. CASE NetReset
    BY <2>10 DEF NetReset, Fail
  <2>11. CASE ClearAtBoot
    BY <2>11 DEF ClearAtBoot, Restart, AfterRecovery
  <2>12. CASE Abandon
    BY <2>12 DEF Abandon, AfterRecovery
  <2>13. CASE Load
    BY <2>13 DEF Load
  <2>14. CASE ClearByCommand
    BY <2>14 DEF ClearByCommand
  <2>15. CASE WebFailed
    BY <2>15 DEF WebFailed
  <2>16. CASE SafeRestart \/ PowerLoss
    BY <2>16 DEF SafeRestart, PowerLoss, Restart
  <2>17. CASE FactoryResetCommand
    BY <2>17 DEF FactoryResetCommand
  <2>18. CASE SaveCommand
    BY <2>18 DEF SaveCommand
  <2>19. CASE ConfirmOrRevert
    BY <2>19 DEF ConfirmOrRevert
  <2>20. CASE LeaseBegin
    BY <2>20 DEF LeaseBegin
  <2>21. CASE LeaseComplete
    BY <2>21 DEF LeaseComplete
  <2>22. CASE Commit
    BY <2>22 DEF Commit
  <2>23. CASE Dispatch
    BY <2>23 DEF Dispatch
  <2>24. CASE PersistResult
    BY <2>24 DEF PersistResult
  <2>25. CASE TaskSave
    BY <2>25 DEF TaskSave
  <2>26. CASE UNCHANGED vars
    BY <2>26 DEF vars
  <2> QED
    BY <2>1, <2>2, <2>3, <2>4, <2>5, <2>6, <2>7, <2>8, <2>9, <2>10, <2>11,
       <2>12, <2>13, <2>14, <2>15, <2>16, <2>17, <2>18, <2>19, <2>20, <2>21,
       <2>22, <2>23, <2>24, <2>25, <2>26
       DEF Next, BootStep, NetworkStep, ControlStep
<1> SUFFICES ASSUME ~Overlap
             PROVE  Spec => [](TypeOK /\ Quiet /\ StoreInvariant)
  OBVIOUS
<1>1. Init => Quiet /\ StoreInvariant
  <2> SUFFICES ASSUME Init PROVE Quiet /\ StoreInvariant
    OBVIOUS
  <2>1. /\ ~Booted /\ pc = "inspect" /\ durableRevision = 0
        /\ ~resetPartial
        /\ \A slot \in Slots : ~slots[slot].valid
    BY DEF Init, Booted, NoRecord
  <2>2. Quiet
    BY DEF Init, Quiet, Booted
  <2>3. RevisionsInOrder
    BY <2>1 DEF RevisionsInOrder, InOrder, Newest, Near, Booted, Slots
  <2>4. TakeTurns
    BY <2>1 DEF TakeTurns
  <2> QED
    BY <2>1, <2>2, <2>3, <2>4
       DEF StoreInvariant, AtSecondSlot, AtNote, AfterReset
<1>2. TypeOK /\ Quiet /\ StoreInvariant /\ [Next]_vars
        => Quiet' /\ StoreInvariant'
  BY <1>QuietStep, StoreStep
<1> QED
  BY <1>1, <1>2, TypeCorrect, PTL DEF Spec

\* What DeviceConfigStorage::save and the factory reset report as durable is
\* the record that the next boot will find, also across the wrap and over the
\* records that earlier failures have left, but for the two exceptions.
THEOREM AckedHolds == ~Overlap => (Spec => AckedIsStored)
<1> SUFFICES ASSUME ~Overlap PROVE Spec => AckedIsStored
  OBVIOUS
<1>1. TypeOK /\ Quiet /\ StoreInvariant /\ [Next]_vars => AckStep
  BY StoreStep
<1> QED
  BY <1>1, StoreInvariantHolds, PTL DEF Spec, AckedIsStored, AckStep

\* The settings that a boot would find change only by a save that has been
\* verified or by a factory reset: a save that fails loses the older record,
\* never the stored one, except at the wrap and after a partial reset.
THEOREM KeptHolds == ~Overlap => (Spec => StoredIsKept)
<1> SUFFICES ASSUME ~Overlap PROVE Spec => StoredIsKept
  OBVIOUS
<1>1. TypeOK /\ Quiet /\ StoreInvariant /\ [Next]_vars => KeepStep
  BY StoreStep
<1>2. KeepStep
        => (StoredSettings(slots') # StoredSettings(slots)
              => \/ /\ Stored(slots').valid
                    /\ Stored(slots').revision = durableRevision'
                 \/ pc \in {"writeA", "writeB"}
                 \/ AtWrap
                 \/ resetPartial)
  BY Zenon DEF KeepStep
<1> QED
  BY <1>1, <1>2, StoreInvariantHolds, PTL DEF Spec, StoredIsKept

\* A factory reset that has passed verifyFactorySettings, which compares only
\* the network, has left the factory settings as a whole for the next boot.
THEOREM VerifiedHolds == ~Overlap => (Spec => []VerifiedIsFactory)
<1> SUFFICES ASSUME ~Overlap PROVE Spec => []VerifiedIsFactory
  OBVIOUS
<1>1. StoreInvariant => VerifiedIsFactory
  BY DEF StoreInvariant, AfterReset, VerifiedIsFactory
<1> QED
  BY <1>1, StoreInvariantHolds, PTL

\* While the tasks run, a recipe that differs from the stored one is on its way
\* to the store: the flag, the mailbox or the task has it.
THEOREM UnsavedHolds == ~Overlap => (Spec => []UnsavedIsPending)
<1>RecipeStep. ASSUME TypeOK, Quiet, StoreInvariant, RecipeInvariant, [Next]_vars
               PROVE  RecipeInvariant'
  <2> USE <1>RecipeStep
  <2> DEFINE stored  == StoredSettings(slots).recipe
             Excused == \/ runtimePersistPending
                        \/ persist \in {"queued", "failed"}
                        \/ erased
                        \/ intent = "factory"
                        \/ durableRevision = MaxRevision
                        \/ resetPartial
             Differs == /\ stored # recipe
                        /\ persist = "saved" => stored # request.recipe
             OnItsWay == Booted /\ Differs => Excused
             ByCommand == /\ Booted => ~abandoning /\ pc # "abandon"
                          /\ pc \in {"run", "failed"} => Booted
                          /\ Booted /\ pc \in EraseSteps \cup {"clear"}
                               => intent = "factory"
  <2>0. OnItsWay /\ ByCommand
    BY Zenon DEF RecipeInvariant
  <2>1. OnItsWay' /\ ByCommand' => RecipeInvariant'
    BY Zenon DEF RecipeInvariant
  \* The record of a reset by command.
  <2>2. ByCommand'
    <3> USE <2>0 DEF EraseSteps, Booted
    <3>1. CASE Inspect \/ Gesture
      BY <3>1 DEF Inspect, Gesture, Quiet
    <3>2. CASE Ensure
      BY <3>2 DEF Ensure, Quiet, MustLatch
    <3>3. CASE Erase
      BY <3>3 DEF Erase, Fail
    <3>4. CASE WriteA
      <4>1. /\ pc = "writeA" /\ UNCHANGED <<intent, caller>>
            /\ (pc' = "writeB" /\ UNCHANGED abandoning) \/ Fail
        BY <3>4 DEF WriteA
      <4> QED
        BY <4>1 DEF Fail
    <3>5. CASE WriteB
      <4>1. /\ pc = "writeB" /\ UNCHANGED <<intent, caller>>
            /\ (pc' = "note" /\ UNCHANGED abandoning) \/ Fail
        BY <3>5 DEF WriteB
      <4> QED
        BY <4>1 DEF Fail
    <3>6. CASE Note
      BY <3>6 DEF Note
    <3>7. CASE ResetBle \/ Verify
      BY <3>7 DEF ResetBle, Verify, Fail
    <3>8. CASE NetReset
      <4>1. /\ ~Booted /\ UNCHANGED <<intent, caller>>
            /\ pc' \in {"abandon", "clear"} \/ Fail
        BY <3>8 DEF NetReset, Quiet
      <4> QED
        BY <4>1 DEF Fail
    <3>9. CASE ClearAtBoot
      BY <3>9 DEF ClearAtBoot, Restart, AfterRecovery
    <3>10. CASE Abandon
      BY <3>10 DEF Abandon, AfterRecovery
    <3>11. CASE Load
      BY <3>11 DEF Load
    <3>12. CASE ClearByCommand \/ WebFailed
      BY <3>12 DEF ClearByCommand, WebFailed
    <3>13. CASE SafeRestart \/ PowerLoss
      BY <3>13 DEF SafeRestart, PowerLoss, Restart
    <3>14. CASE FactoryResetCommand
      BY <3>14 DEF FactoryResetCommand
    <3>15. CASE UNCHANGED <<pc, intent, caller, abandoning>>
      BY <3>15
    <3>16. CASE \/ SaveCommand \/ ConfirmOrRevert \/ ControlStep
                \/ TaskSave \/ UNCHANGED vars
      BY <3>15, <3>16 DEF SaveCommand, ConfirmOrRevert, ControlStep, LeaseBegin,
         LeaseComplete, Commit, Dispatch, PersistResult, TaskSave, vars
    <3> QED
      BY <3>1, <3>2, <3>3, <3>4, <3>5, <3>6, <3>7, <3>8, <3>9, <3>10, <3>11, <3>12,
         <3>13, <3>14, <3>16 DEF Next, BootStep, NetworkStep
  \* Steps that leave the settings alone, or that come before the tasks.
  <2>Before. ASSUME ~Booted' PROVE OnItsWay'
    BY <2>Before
  <2>Kept. ASSUME Booted' => Booted, stored' = stored \/ Excused',
                  UNCHANGED <<recipe, persist, request, runtimePersistPending,
                             erased, durableRevision, resetPartial>>,
                  intent = "factory" => intent' = "factory"
           PROVE  OnItsWay'
    <3> USE <2>Kept, <2>0
    <3>1. CASE Excused'
      BY <3>1
    <3>2. CASE ~Excused'
      <4>1. ~Excused
        BY <3>2
      <4>2. stored' = stored
        BY <3>2
      <4> HIDE DEF stored, Excused
      <4> QED
        BY <4>1, <4>2 DEF Booted
    <3> QED
      BY <3>1, <3>2
  \* A reset by command keeps its record.
  <2>Latched. ASSUME intent = "factory", intent' = intent PROVE OnItsWay'
    BY <2>Latched
  \* What a save leaves in the slots.
  <2>Saved. ASSUME pc \notin {"writeB", "note"},
                   NEW settings \in [recipe : Recipes, net : Nets], SaveDone(settings)
            PROVE  stored' = settings.recipe \/ resetPartial'
    <3>1. Stored(slots') = RecordOf(durableRevision', settings) \/ resetPartial'
      BY <2>Saved, SaveStep DEF StoreInvariant
    <3> QED
      BY <3>1 DEF StoredSettings, RecordOf, Settings
  <2>NotSaved. ASSUME pc \notin {"writeA", "writeB", "note"}, Booted,
                      NEW settings \in [recipe : Recipes, net : Nets],
                      SaveFailed(settings)
               PROVE  /\ UNCHANGED <<durableRevision, resetPartial>>
                      /\ \/ stored' = stored
                         \/ durableRevision' = MaxRevision
                         \/ resetPartial'
    <3>1. UNCHANGED <<durableRevision, resetPartial>>
      BY <2>NotSaved DEF SaveFailed
    <3>2. stored' = stored \/ AtWrap \/ resetPartial
      BY <2>NotSaved, <3>1, StoreStep DEF KeepStep
    <3>3. CASE AtWrap
      <4>1. CASE durableRevision = 0
        <5>1. ~Stored(slots).valid
          BY <2>NotSaved, <4>1
             DEF StoreInvariant, RevisionsInOrder, MidReset, Stored, Newer,
                 Slots
        <5> QED
          BY <3>3, <4>1, <5>1, Ranges DEF AtWrap, BaseRevision
      <4> QED
        BY <3>1, <3>3, <4>1 DEF AtWrap, BaseRevision
    <3> QED
      BY <3>1, <3>2, <3>3
  <2>3. OnItsWay'
    <3>1. CASE BootStep
      <4>1. CASE Inspect \/ Gesture \/ NetReset
        BY <4>1, <2>Before DEF Inspect, Gesture, NetReset, Quiet, Booted
      <4>2. CASE ClearAtBoot
        BY <4>2, <2>Before DEF ClearAtBoot, Restart, Booted
      <4>3. CASE Abandon
        BY <4>3, <2>0, <2>Before DEF Abandon, Booted
      <4>4. CASE WriteA \/ WriteB \/ Note
        <5>1. pc \in EraseSteps /\ UNCHANGED <<intent, caller>>
          BY <4>4 DEF WriteA, WriteB, Note, EraseSteps
        <5> QED
          BY <5>1, <2>0, <2>Before, <2>Latched DEF Booted
      <4>5. CASE Ensure
        <5>1. CASE Booted
          BY <4>5, <5>1, <2>Kept DEF Ensure, Quiet
        <5> QED
          BY <4>5, <5>1, <2>Before DEF Ensure, Booted
      <4>6. CASE Erase \/ ResetBle \/ Verify
        BY <4>6, <2>Kept DEF Erase, ResetBle, Verify, Booted
      <4>7. CASE Load
        <5>1. /\ recipe' = stored /\ slots' = slots
              \/ /\ ~Stored(slots).valid
                 /\ recipe' = DefaultRecipe
                 /\ SaveDone(FactorySettings) \/ SaveFailed(FactorySettings)
          BY <4>7 DEF Load, StoredSettings, Settings
        <5>2. pc = "load"
          BY <4>7 DEF Load
        <5>3. CASE recipe' = stored /\ slots' = slots
          BY <5>3
        <5>4. CASE recipe' = DefaultRecipe /\ SaveDone(FactorySettings)
          BY <5>2, <5>4, <2>Saved, RecordTypes DEF FactorySettings, Settings
        <5>5. CASE /\ ~Stored(slots).valid
                   /\ recipe' = DefaultRecipe
                   /\ SaveFailed(FactorySettings)
          <6>1. \A slot \in Slots : ~slots[slot].valid
            BY <5>5 DEF Stored, Newer, Slots
          <6>2. \A slot \in Slots : ~slots'[slot].valid
            BY <5>5, <6>1 DEF SaveFailed, NoRecord, TypeOK
          <6> QED
            BY <5>5, <6>2
               DEF StoredSettings, Stored, Newer, Slots, FactorySettings,
                   Settings
        <5> QED
          BY <5>1, <5>3, <5>4, <5>5
      <4> QED
        BY <3>1, <4>1, <4>2, <4>3, <4>4, <4>5, <4>6, <4>7 DEF BootStep
    <3>2. CASE ClearByCommand
      <4>1. erased' = ~resetPartial /\ resetPartial' = resetPartial
        BY <3>2 DEF ClearByCommand
      <4> QED
        BY <4>1
    <3>3. CASE WebFailed \/ FactoryResetCommand
      BY <3>3, <2>Kept DEF WebFailed, FactoryResetCommand, Booted
    <3>4. CASE SafeRestart \/ PowerLoss
      BY <3>4, <2>Before DEF SafeRestart, PowerLoss, Restart, Booted
    <3>5. CASE SaveCommand \/ ConfirmOrRevert
      <4>1. PICK newNet \in Nets :
              \/ SaveDone(Settings(recipe, newNet))
              \/ SaveFailed(Settings(recipe, newNet)) /\ UNCHANGED erased
        BY <3>5, Zenon DEF SaveCommand, ConfirmOrRevert
      <4>2. /\ Settings(recipe, newNet) \in [recipe : Recipes, net : Nets]
            /\ Settings(recipe, newNet).recipe = recipe
        BY RecordTypes DEF TypeOK, Settings
      <4>3. /\ pc = "run"
            /\ UNCHANGED <<caller, intent, recipe, persist, request,
                           runtimePersistPending>>
        BY <3>5 DEF SaveCommand, ConfirmOrRevert
      <4>4. CASE SaveDone(Settings(recipe, newNet))
        BY <4>2, <4>3, <4>4, <2>Saved
      <4>5. CASE SaveFailed(Settings(recipe, newNet)) /\ UNCHANGED erased
        <5>1. Booted
          BY <4>3, <2>0
        <5> QED
          BY <4>2, <4>3, <4>5, <5>1, <2>NotSaved, <2>Kept
      <4> QED
        BY <4>1, <4>4, <4>5
    <3>6. CASE LeaseBegin \/ LeaseComplete
      BY <3>6, <2>Kept DEF LeaseBegin, LeaseComplete, Booted
    <3>7. CASE Commit \/ Dispatch
      BY <3>7 DEF Commit, Dispatch
    <3>8. CASE PersistResult
      <4>1. /\ persist \in {"saved", "failed"} /\ persist' = "idle"
            /\ runtimePersistPending' = PendingAfter(persist)
            /\ UNCHANGED <<slots, caller, recipe, erased, intent,
                           durableRevision, resetPartial>>
        BY <3>8 DEF PersistResult
      <4>2. CASE PendingAfter(persist)
        BY <4>1, <4>2
      <4>3. CASE ~PendingAfter(persist)
        <5>1. persist = "saved" /\ recipe = request.recipe /\ ~runtimePersistPending
          BY <4>1, <4>3 DEF PendingAfter
        <5> QED
          BY <4>1, <5>1, <2>0 DEF Booted
      <4> QED
        BY <4>2, <4>3
    <3>9. CASE TaskSave
      <4>1. /\ persist = "queued" /\ UNCHANGED <<recipe, request>>
            /\ persist' = "failed" \/ (pc # "writeB" /\ SaveDone(request))
        BY <3>9 DEF TaskSave
      <4>2. CASE persist' = "failed"
        BY <4>2
      <4>3. CASE SaveDone(request) /\ persist' # "failed"
        <5>1. pc = "run"
          BY <4>1 DEF Quiet
        <5>2. persist' = "saved" /\ request' = request
          BY <3>9, <4>3 DEF TaskSave
        <5> QED
          BY <4>3, <5>1, <5>2, <2>Saved DEF TypeOK
      <4> QED
        BY <4>1, <4>2, <4>3
    <3>10. CASE UNCHANGED vars
      BY <3>10, <2>Kept DEF vars, Booted
    <3> QED
      BY <3>1, <3>2, <3>3, <3>4, <3>5, <3>6, <3>7, <3>8, <3>9, <3>10
         DEF Next, NetworkStep, ControlStep
  <2> QED
    BY <2>1, <2>2, <2>3
<1> SUFFICES ASSUME ~Overlap PROVE Spec => []UnsavedIsPending
  OBVIOUS
<1>1. Init => RecipeInvariant
  BY DEF Init, RecipeInvariant, Booted, EraseSteps
<1>2. TypeOK /\ Quiet /\ StoreInvariant /\ RecipeInvariant /\ [Next]_vars
        => RecipeInvariant'
  BY <1>RecipeStep
<1>3. RecipeInvariant => UnsavedIsPending
  <2> SUFFICES ASSUME RecipeInvariant,
                      pc = "run", Stored(slots).valid,
                      Stored(slots).recipe # recipe, persist = "idle"
               PROVE  \/ runtimePersistPending
                      \/ erased
                      \/ intent = "factory"
                      \/ AtWrap
                      \/ resetPartial
    BY Zenon DEF UnsavedIsPending
  <2>1. Booted
    BY DEF RecipeInvariant
  <2>2. StoredSettings(slots).recipe # recipe
    BY DEF StoredSettings, Settings
  <2>3. durableRevision = MaxRevision => AtWrap
    BY RevisionAssumption DEF AtWrap, BaseRevision
  <2> QED
    BY <2>1, <2>2, <2>3 DEF RecipeInvariant
<1> QED
  BY <1>1, <1>2, <1>3, StoreInvariantHolds, PTL DEF Spec

-----------------------------------------------------------------------------
(* Erased credentials *)

SlotsClean == \A slot \in Slots : slots[slot].net = "none"

\* Once erased, no copy of the credentials is left: in no slot, in no task and
\* in no request; the parts of a reset establish this one after the other.
Clean ==
    /\ next.net = "none"
    /\ erased => SlotsClean /\ net = "none"
    /\ erased /\ persist = "queued" => request.net = "none"
    /\ pc \in {"writeB", "note"}
         => scratch[0].net = "none" /\ scratch[1].net = "none"
    /\ pc = "writeB"
         => resetPartial /\ (scratch[0].valid => slots["A"].net = "none")
    /\ Booted /\ pc \in {"note", "ble", "verify", "clear"} /\ ~resetPartial
         => SlotsClean

\* When no save of the settings task is in flight as a factory reset is
\* accepted, the credentials that the reset has erased come back from no task's
\* copy of them and from no older record, until the user gives new ones.
THEOREM CredentialsErased == ~Overlap => (Spec => []CredentialsStayErased)
\* A save without credentials puts none into the slots.
<1>SaveClean. ASSUME TypeOK, SlotsClean,
                     NEW settings \in [recipe : Recipes, net : Nets],
                     \/ SaveDone(settings) /\ settings.net = "none"
                     \/ SaveFailed(settings)
              PROVE  SlotsClean'
  <2> USE <1>SaveClean
  <2> DEFINE candidate == Candidate(slots, durableRevision, settings)
  <2>1. /\ candidate \in Record /\ candidate.net = settings.net
        /\ Target(slots, candidate) \in Slots
    BY RecordTypes DEF TypeOK
  <2>2. NoRecord.net = "none"
    BY DEF NoRecord
  <2> HIDE DEF candidate
  <2>3. CASE slots' = slots
    BY <2>3 DEF SlotsClean
  <2>4. CASE \E record \in {candidate, NoRecord} :
                /\ slots' = [slots EXCEPT ![Target(slots, candidate)] = record]
                /\ record.net = "none"
    BY <2>1, <2>2, <2>4 DEF SlotsClean, TypeOK
  <2> QED
    BY <2>1, <2>2, <2>3, <2>4 DEF SaveDone, SaveFailed, candidate
\* Steps that touch none of what Clean speaks of.
<1>CleanKept. ASSUME Clean, UNCHANGED <<slots, scratch, pc, caller, next, net, persist,
                                        request, resetPartial, erased>>
              PROVE  Clean'
  BY <1>CleanKept DEF Clean, SlotsClean, Booted
\* Steps to another part of the boot sequence.
<1>CleanGoesOn. ASSUME Clean,
                       pc' \notin {"writeB", "note", "ble", "verify", "clear"},
                       UNCHANGED <<slots, next, net, persist, request, erased>>
                PROVE  Clean'
  BY <1>CleanGoesOn DEF Clean, SlotsClean
\* The reset of the settings and of the BLE companion settings.
<1>ResetClean. ASSUME TypeOK, Quiet, Clean,
                      Erase \/ WriteA \/ WriteB \/ Note \/ ResetBle \/ Verify
               PROVE  Clean'
  <2> USE <1>ResetClean
  <2>1. CASE Erase
    BY <2>1, <1>CleanGoesOn DEF Erase, Fail
  <2>2. CASE WriteA
    <3> DEFINE base   == ExistingMax(slots, durableRevision)
               first  == RecordOf(base + 1, FactorySettings)
               second == RecordOf(base + 2, FactorySettings)
    <3>1. /\ first.net = "none" /\ second.net = "none"
          /\ NoRecord.net = "none" /\ ~NoRecord.valid
      BY DEF RecordOf, FactorySettings, Settings, NoRecord
    <3> HIDE DEF first, second, base
    <3>2. UNCHANGED <<next, net, persist, request, erased>>
      BY <2>2 DEF WriteA
    <3>3. SlotsClean => SlotsClean'
      <4>1. slots' \in {slots, [slots EXCEPT !["A"] = first],
                        [slots EXCEPT !["A"] = NoRecord]}
        BY <2>2 DEF WriteA, base, first
      <4> QED
        BY <3>1, <4>1 DEF SlotsClean, TypeOK, Slots
    <3>4. CASE pc' = "writeB"
      <4>1. /\ resetPartial' = TRUE
            /\ \/ /\ slots' = [slots EXCEPT !["A"] = first]
                  /\ scratch' = [Blank EXCEPT ![0] = first, ![1] = second]
               \/ scratch' = [Blank EXCEPT ![1] = second]
        BY <2>2, <3>4 DEF WriteA, Fail, base, first, second
      <4>2. scratch'[0].net = "none" /\ scratch'[1].net = "none"
        BY <3>1, <4>1 DEF Blank
      <4>3. scratch'[0].valid => slots'["A"].net = "none"
        BY <3>1, <4>1 DEF Blank, TypeOK, Slots
      <4> QED
        BY <3>2, <3>3, <3>4, <4>1, <4>2, <4>3 DEF Clean
    <3>5. CASE pc' # "writeB"
      <4>1. pc' \in {"failed", "abandon", "writeA", "netReset"}
        BY <2>2, <3>5 DEF WriteA, Fail
      <4> QED
        BY <3>2, <3>3, <4>1 DEF Clean
    <3> QED
      BY <3>4, <3>5
  <2>3. CASE WriteB
    <3>1. /\ UNCHANGED <<next, net, persist, request, erased, caller>>
          /\ pc = "writeB"
      BY <2>3 DEF WriteB
    <3>2. NoRecord.net = "none"
      BY DEF NoRecord
    <3>3. SlotsClean => SlotsClean'
      <4>1. slots' \in {slots, [slots EXCEPT !["B"] = scratch[1]],
                        [slots EXCEPT !["B"] = NoRecord]}
        BY <2>3 DEF WriteB
      <4> QED
        BY <3>1, <3>2, <4>1 DEF Clean, SlotsClean, TypeOK, Slots
    <3>4. CASE pc' = "note"
      <4>1. scratch'[0].net = "none" /\ scratch'[1].net = "none"
        <5>1. \/ scratch' = scratch
              \/ scratch' = [scratch EXCEPT ![1] = NoRecord]
          BY <2>3, <3>4 DEF WriteB, Fail
        <5> QED
          BY <3>1, <3>2, <5>1 DEF Clean, TypeOK
      <4>2. ~resetPartial' => SlotsClean'
        <5>1. ~resetPartial' => /\ slots' = [slots EXCEPT !["B"] = scratch[1]]
                                /\ scratch[0].valid
          BY <2>3, <3>1 DEF WriteB, Clean
        <5> QED
          BY <3>1, <5>1 DEF Clean, SlotsClean, TypeOK, Slots
      <4> QED
        BY <3>1, <3>3, <3>4, <4>1, <4>2 DEF Clean
    <3>5. CASE pc' # "note"
      <4>1. pc' \in {"failed", "abandon", "writeA", "netReset"}
        BY <2>3, <3>5 DEF WriteB, Fail
      <4> QED
        BY <3>1, <3>3, <4>1 DEF Clean
    <3> QED
      BY <3>4, <3>5
  <2>4. CASE Note
    <3>1. /\ pc = "note" /\ pc' \in {"abandon", "ble"}
          /\ UNCHANGED <<slots, net, persist, request, erased, caller,
                         resetPartial>>
      BY <2>4 DEF Note
    <3>2. next'.net = "none"
      BY <2>4, <3>1 DEF Note, Clean, Settings
    <3> QED
      BY <3>1, <3>2 DEF Clean, SlotsClean, Booted
  <2>5. CASE ResetBle
    BY <2>5 DEF ResetBle, Fail, Clean, SlotsClean, Booted
  <2>6. CASE Verify
    BY <2>6 DEF Verify, Fail, Clean, SlotsClean, Booted
  <2> QED
    BY <2>1, <2>2, <2>3, <2>4, <2>5, <2>6
\* Every step.
<1>CleanStep. ASSUME TypeOK, Quiet, Clean, [Next]_vars
              PROVE  Clean'
  <2> USE <1>CleanStep
  <2>0. next'.net = "none" /\ net' = "none" /\ persist' = "idle"
        /\ request'.net = "none"
        /\ pc' = "inspect" /\ UNCHANGED <<slots, erased>> => Clean'
    BY DEF Clean, SlotsClean
  <2>1. CASE Inspect
    <3>1. CASE pc' \in {"gesture", "writeA", "ensure"}
      BY <2>1, <3>1, <1>CleanGoesOn DEF Inspect
    <3> QED
      BY <2>1, <3>1 DEF Inspect
  <2>2. CASE Gesture
    BY <2>2, <1>CleanGoesOn DEF Gesture
  <2>3. CASE Ensure
    BY <2>3, <1>CleanGoesOn DEF Ensure
  <2>4. CASE Erase \/ WriteA \/ WriteB \/ Note \/ ResetBle \/ Verify
    BY <2>4, <1>ResetClean
  <2>5. CASE NetReset
    <3> DEFINE found == Stored(slots)
               kept  == IF found.valid THEN found.recipe ELSE DefaultRecipe
    <3>1. /\ Settings(kept, "none") \in [recipe : Recipes, net : Nets]
          /\ Settings(kept, "none").net = "none"
      BY RecordTypes, RecipeAssumption
         DEF Record, Nets, TypeOK, Settings
    <3>2. SlotsClean => SlotsClean'
      BY <2>5, <3>1, <1>SaveClean DEF NetReset
    <3>3. /\ UNCHANGED <<next, net, persist, request, erased, caller>>
          /\ pc' \notin {"writeB", "note"}
          /\ ~Booted
      BY <2>5 DEF NetReset, Fail, Quiet
    <3> QED
      BY <3>2, <3>3 DEF Clean, Booted
  <2>6. CASE ClearAtBoot
    <3>1. CASE Restart(FALSE)
      BY <2>0, <2>6, <3>1 DEF ClearAtBoot, Restart, FactorySettings, Settings
    <3>2. CASE ~Restart(FALSE)
      BY <2>6, <3>2, <1>CleanGoesOn DEF ClearAtBoot, AfterRecovery
    <3> QED
      BY <3>1, <3>2
  <2>7. CASE Abandon
    BY <2>7, <1>CleanGoesOn DEF Abandon, AfterRecovery
  <2>8. CASE Load
    <3>1. SlotsClean => SlotsClean' /\ net' = "none"
      BY <2>8, <1>SaveClean, RecordTypes
         DEF Load, SlotsClean, FactorySettings, Settings, Slots, TypeOK
    <3>2. /\ next'.net = "none" /\ pc' = "run"
          /\ UNCHANGED <<persist, request, erased>>
      BY <2>8 DEF Load, FactorySettings, Settings
    <3> QED
      BY <3>1, <3>2 DEF Clean
  <2>9. CASE ClearByCommand
    <3>1. /\ pc = "clear" /\ Booted /\ pc' = "run"
          /\ UNCHANGED <<slots, persist>>
          /\ net' = next.net
          /\ next'.net = "none"
          /\ erased' => ~resetPartial
      BY <2>9 DEF ClearByCommand, NetworkAfterReset, FactorySettings, Settings
    <3>2. persist = "idle"
      BY <3>1 DEF Quiet
    <3> QED
      BY <3>1, <3>2 DEF Clean, SlotsClean
  <2>10. CASE WebFailed
    BY <2>10 DEF WebFailed, Clean, SlotsClean, FactorySettings, Settings
  <2>11. CASE SafeRestart \/ PowerLoss
    BY <2>0, <2>11
       DEF SafeRestart, PowerLoss, Restart, FactorySettings, Settings
  <2>12. CASE FactoryResetCommand
    BY <2>12, <1>CleanGoesOn DEF FactoryResetCommand
  <2>13. CASE SaveCommand
    <3>1. PICK newNet \in Nets, restart \in BOOLEAN :
             \/ /\ SaveDone(Settings(recipe, newNet))
                /\ net' = newNet
                /\ erased' = (erased /\ newNet = "none")
             \/ /\ SaveFailed(Settings(recipe, newNet))
                /\ UNCHANGED <<net, erased>>
      BY <2>13, Zenon DEF SaveCommand
    <3>2. Settings(recipe, newNet) \in [recipe : Recipes, net : Nets]
      BY RecordTypes DEF TypeOK
    <3>3. pc = "run" /\ UNCHANGED <<pc, next, persist, request>>
      BY <2>13 DEF SaveCommand
    <3>4. erased' => erased
      BY <3>1, Zenon
    <3>5. erased' => SlotsClean' /\ net' = "none"
      BY <3>1, <3>2, <3>4, <1>SaveClean DEF Clean, Settings
    <3> QED
      BY <3>3, <3>4, <3>5 DEF Clean
  <2>14. CASE ConfirmOrRevert
    <3>1. ~erased
      BY <2>14 DEF ConfirmOrRevert, Clean
    <3>2. UNCHANGED <<next, erased, pc>> /\ pc = "run"
      BY <2>14 DEF ConfirmOrRevert
    <3> QED
      BY <3>1, <3>2 DEF Clean
  <2>15. CASE LeaseBegin
    BY <2>15, <1>CleanKept DEF LeaseBegin
  <2>16. CASE LeaseComplete
    BY <2>16, <1>CleanKept DEF LeaseComplete
  <2>17. CASE Commit
    <3>1. /\ ~erased'
          /\ UNCHANGED <<slots, scratch, pc, caller, next, net, persist, request,
                         resetPartial>>
      BY <2>17 DEF Commit
    <3> QED
      BY <3>1 DEF Clean, SlotsClean, Booted
  <2>18. CASE Dispatch
    <3>1. /\ request'.net = net
          /\ UNCHANGED <<slots, scratch, pc, caller, next, net, resetPartial,
                         erased>>
      BY <2>18 DEF Dispatch, Settings
    <3> QED
      BY <3>1 DEF Clean, SlotsClean, Booted
  <2>19. CASE PersistResult
    <3>1. /\ persist' = "idle"
          /\ UNCHANGED <<slots, scratch, pc, caller, next, net, resetPartial,
                         erased>>
      BY <2>19 DEF PersistResult
    <3> QED
      BY <3>1 DEF Clean, SlotsClean, Booted
  <2>20. CASE TaskSave
    <3>1. /\ persist = "queued" /\ persist' # "queued"
          /\ UNCHANGED <<pc, caller, next, net, erased>>
      BY <2>20 DEF TaskSave
    <3>2. Booted /\ pc = "run"
      BY <3>1 DEF Quiet
    <3>3. erased => SlotsClean'
      <4>1. CASE erased
        <5>1. request.net = "none" /\ SlotsClean
          BY <3>1, <4>1 DEF Clean
        <5>2. SaveDone(request) \/ SaveFailed(request)
          BY <2>20, <3>2 DEF TaskSave
        <5> QED
          BY <5>1, <5>2, <1>SaveClean DEF TypeOK
      <4> QED
        BY <4>1
    <3> QED
      BY <3>1, <3>2, <3>3 DEF Clean
  <2>21. CASE UNCHANGED vars
    BY <2>21, <1>CleanKept DEF vars
  <2> QED
    BY <2>1, <2>2, <2>3, <2>4, <2>5, <2>6, <2>7, <2>8, <2>9, <2>10, <2>11,
       <2>12, <2>13, <2>14, <2>15, <2>16, <2>17, <2>18, <2>19, <2>20, <2>21
       DEF Next, BootStep, NetworkStep, ControlStep
<1> SUFFICES ASSUME ~Overlap PROVE Spec => []CredentialsStayErased
  OBVIOUS
<1>1. Init => Clean
  BY DEF Init, Clean, Booted, FactorySettings, Settings
<1>2. TypeOK /\ Quiet /\ Clean /\ [Next]_vars => Clean'
  BY <1>CleanStep
<1>3. TypeOK /\ Clean => CredentialsStayErased
  BY RecordTypes
     DEF TypeOK, Clean, SlotsClean, Slots, CredentialsStayErased,
         StoredSettings, FactorySettings, Settings
<1> QED
  BY <1>1, <1>2, <1>3, StoreInvariantHolds, PTL DEF Spec
=============================================================================
