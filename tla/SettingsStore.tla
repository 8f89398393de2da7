---------------------------- MODULE SettingsStore ----------------------------
(***************************************************************************)
(* The durable settings and everybody who writes them: the boot sequence   *)
(* with its recovery (setup() in shotStopper.cpp), the network task that   *)
(* carries out accepted commands under a maintenance lease, the control    *)
(* task that hands its live recipe to the settings task, and power loss.   *)
(*                                                                         *)
(* pc is the next step of the boot sequence and then of the network task,  *)
(* which does nothing before setup() has ended.  A factory reset holds the *)
(* flash lock from its first slot to its second; every other use of the    *)
(* lock is one step here.                                                  *)
(*                                                                         *)
(* Flash: a write that is reported done has stored its record; one that is *)
(* reported failed, or cut by a power loss, has left the old record or a   *)
(* torn one.                                                               *)
(***************************************************************************)
EXTENDS DualSlotStore

CONSTANT Overlap   \* a runtime save may be in flight when a factory reset
                   \* is accepted

ASSUME OverlapAssumption == Overlap \in BOOLEAN

VARIABLES
    (* flash *)
    slots,            \* SETTINGS_SLOT_A and SETTINGS_SLOT_B
    intent,           \* the recovery record: none, torn or an operation
    (* memory of the store *)
    durableRevision,  \* durableStorageRevision, 0 when not valid
    scratch,          \* persistedSettingsScratch(0) and (1), while they matter
    (* the boot sequence and the network task *)
    pc,
    powerOn,          \* the boot followed a power-on, not a restart
    op,               \* the recovery operation that is running
    caller,           \* resume, gesture or web: who started it
    abandoning,       \* the second attempt, after which the record is dropped
    secondVerified,   \* reset: slot B was read back
    next,             \* the settings the reset hands to its caller
    net,              \* settings_ of the network task: its network
    restartPending,   \* restartPending_
    (* the control task and the settings task *)
    lease,            \* none, or its command: save or factory; done when it
                      \* awaits completion
    recipe,           \* runtimeConfig, presetBank and bullseyeMelodyConfig
    runtimePersistPending,
    persist,          \* the settings task: idle, queued, saved or failed
    request,          \* settingsPersistRequest
    (* history variables *)
    resetPartial,     \* a reset touched the slots, they were not both
                      \* verified, and no save that a boot would find has
                      \* succeeded since
    erased            \* a factory reset by command is complete, in both
                      \* slots, and the user has changed nothing since

flashVars   == <<slots, intent>>
resetVars   == <<op, caller, abandoning, secondVerified, next>>
persistVars == <<runtimePersistPending, persist, request>>
controlVars == <<lease, recipe, persistVars>>
networkVars == <<net, restartPending>>
vars == <<flashVars, durableRevision, scratch, pc, powerOn, resetVars,
          networkVars, controlVars, resetPartial, erased>>

\* What the steps of a recovery leave alone.
bystanders == <<powerOn, networkVars, controlVars, erased>>

EraseSteps == {"erase", "writeA", "writeB", "note", "ble", "verify"}
Steps == EraseSteps \cup {"inspect", "gesture", "ensure", "netReset", "clear",
                          "abandon", "load", "run", "failed"}

Blank == [i \in 0 .. 1 |-> NoRecord]
Goto(step) == pc' = step

\* setup() has ended and the tasks run.
Booted == caller = "web"

-----------------------------------------------------------------------------
(* savePersistedSettings, by whoever holds the lock *)

\* A save that returns TRUE has verified its record in its slot.
SaveDone(settings) ==
    LET candidate == Candidate(slots, durableRevision, settings)
        target    == Target(slots, candidate)
    IN  /\ \A slot \in Slots \ {target} :
              InReach(slots[slot], candidate.revision)
        /\ slots' = [slots EXCEPT ![target] = candidate]
        /\ durableRevision' = candidate.revision
        /\ resetPartial' = (resetPartial
                              /\ Stored(slots').revision # candidate.revision)

SaveFailed(settings) ==
    LET candidate == Candidate(slots, durableRevision, settings)
    IN  /\ slots' \in
             {slots, [slots EXCEPT ![Target(slots, candidate)] = NoRecord]}
        /\ UNCHANGED <<durableRevision, resetPartial>>

-----------------------------------------------------------------------------
(* Boot: resumePendingBootRecovery, maybeRunBootRecoveryGesture *)

\* A record of an operation resumes it; a torn one rebuilds the settings.
Inspect ==
    /\ pc = "inspect"
    /\ \/ intent = "none" /\ Goto("gesture") /\ UNCHANGED <<op, abandoning>>
       \/ /\ intent = "torn"
          /\ Goto("writeA")
          /\ op' = "factory"
          /\ abandoning' = TRUE
       \/ /\ intent \in {"factory", "network"}
          /\ Goto("ensure")
          /\ op' = intent
          /\ abandoning' = FALSE
    /\ UNCHANGED <<flashVars, durableRevision, scratch, caller, secondVerified,
                   next, resetPartial, bystanders>>

\* The gesture is taken only after a power-on, with the paddle held.
Gesture ==
    /\ pc = "gesture"
    /\ abandoning' = FALSE
    /\ \/ Goto("load") /\ UNCHANGED <<op, caller>>
       \/ /\ powerOn
          /\ op' \in {"factory", "network"}
          /\ caller' = "gesture"
          /\ Goto("ensure")
    /\ UNCHANGED <<flashVars, durableRevision, scratch, secondVerified, next,
                   resetPartial, bystanders>>

\* Where the boot sequence goes on when a recovery ends without a restart.
AfterRecovery == IF caller = "resume" THEN "gesture" ELSE "load"

\* A failed command is tried again or given up (see WebFailed); a failed boot
\* recovery rebuilds the settings once more and then drops the record.
Fail ==
    \/ Booted /\ Goto("failed") /\ UNCHANGED abandoning
    \/ ~Booted /\ abandoning /\ Goto("abandon") /\ UNCHANGED abandoning
    \/ /\ ~Booted /\ ~abandoning
       /\ abandoning' = TRUE
       /\ Goto(IF op = "factory" THEN "writeA" ELSE "netReset")

FaultyMustLatch == FALSE

\* The command refuses to erase anything without a record of the intent.
MustLatch == Booted

\* ensureRecoveryIntent
Ensure ==
    /\ pc = "ensure"
    /\ LET start == IF op = "factory" THEN "erase" ELSE "netReset"
       IN  \/ intent = op /\ Goto(start) /\ UNCHANGED intent
           \/ intent # op /\ Goto(start) /\ intent' = op
           \/ /\ intent # op
              /\ intent' \in {intent, "torn"}
              /\ Goto(IF MustLatch THEN "failed" ELSE start)
    /\ UNCHANGED <<slots, durableRevision, scratch, resetVars,
                   resetPartial, bystanders>>

-----------------------------------------------------------------------------
(* resetAllDurableStores and resetPersistedSettingsToFactory *)

\* The shot log, the curves and the last shot, which are not modelled, may
\* fail to be erased.
Erase ==
    /\ pc = "erase"
    /\ \/ Goto("writeA") /\ UNCHANGED abandoning
       \/ Fail
    /\ UNCHANGED <<flashVars, durableRevision, scratch, op, caller,
                   secondVerified, next, resetPartial, bystanders>>

\* The lock is taken; scratch(0) is slot A as it will be read back.
WriteA ==
    LET base   == ExistingMax(slots, durableRevision)
        first  == RecordOf(base + 1, FactorySettings)
        second == RecordOf(base + 2, FactorySettings)
    IN  /\ pc = "writeA"
        /\ \/ /\ InReach(slots["B"], first.revision)
              /\ slots' = [slots EXCEPT !["A"] = first]
              /\ scratch' = [Blank EXCEPT ![0] = first, ![1] = second]
              /\ resetPartial' = TRUE
              /\ Goto("writeB")
              /\ UNCHANGED abandoning
           \/ /\ slots' \in {slots, [slots EXCEPT !["A"] = NoRecord]}
              /\ InReach(slots'["A"], second.revision)
              /\ scratch' = [Blank EXCEPT ![1] = second]
              /\ resetPartial' = TRUE
              /\ Goto("writeB")
              /\ UNCHANGED abandoning
           \/ Fail /\ UNCHANGED <<slots, scratch, resetPartial>>
        /\ UNCHANGED <<intent, durableRevision, op, caller,
                       secondVerified, next, bystanders>>

\* The second slot, the verification of both, and the unlock.
WriteB ==
    /\ pc = "writeB"
    /\ \/ /\ slots' = [slots EXCEPT !["B"] = scratch[1]]
          /\ secondVerified' = TRUE
          /\ resetPartial' = ~scratch[0].valid
          /\ Goto("note")
          /\ UNCHANGED <<scratch, abandoning>>
       \/ /\ slots' \in {slots, [slots EXCEPT !["B"] = NoRecord]}
          /\ secondVerified' = FALSE
          /\ UNCHANGED resetPartial
          /\ \/ /\ scratch[0].valid
                /\ scratch' = [scratch EXCEPT ![1] = NoRecord]
                /\ Goto("note")
                /\ UNCHANGED abandoning
             \/ ~scratch[0].valid /\ scratch' = Blank /\ Fail
    /\ UNCHANGED <<intent, durableRevision, op, caller, next, bystanders>>

\* After the unlock: the result is copied out of the scratch buffer, and its
\* revision noted.
Note ==
    LET result == IF secondVerified THEN scratch[1] ELSE scratch[0]
    IN  /\ pc = "note"
        /\ next' = Settings(result.recipe, result.net)
        /\ durableRevision' = result.revision
        /\ scratch' = Blank
        /\ secondVerified' = FALSE
        /\ Goto(IF abandoning THEN "abandon" ELSE "ble")
        /\ UNCHANGED <<flashVars, op, caller, abandoning, resetPartial,
                       bystanders>>

\* Likewise the BLE companion settings.
ResetBle ==
    /\ pc = "ble"
    /\ \/ Goto("verify") /\ UNCHANGED abandoning
       \/ Fail
    /\ UNCHANGED <<flashVars, durableRevision, scratch, op, caller,
                   secondVerified, next, resetPartial, bystanders>>

\* Everything is loaded again; verifyFactorySettings looks at the network.
Verify ==
    /\ pc = "verify"
    /\ \/ /\ Stored(slots).valid /\ Stored(slots).net = "none"
          /\ Goto("clear")
          /\ UNCHANGED abandoning
       \/ Fail
    /\ UNCHANGED <<flashVars, durableRevision, scratch, op, caller,
                   secondVerified, next, resetPartial, bystanders>>

\* resetPersistedNetworkAccess, which loads the settings again after its save
NetReset ==
    LET found == Stored(slots)
        kept  == IF found.valid THEN found.recipe ELSE DefaultRecipe
    IN  /\ pc = "netReset"
        /\ \/ /\ SaveDone(Settings(kept, "none"))
              /\ Goto(IF abandoning THEN "abandon" ELSE "clear")
              /\ UNCHANGED abandoning
           \/ SaveDone(Settings(kept, "none")) /\ Fail
           \/ SaveFailed(Settings(kept, "none")) /\ Fail
        /\ UNCHANGED <<intent, scratch, op, caller, secondVerified, next,
                       bystanders>>

-----------------------------------------------------------------------------
(* The end of a recovery, and restarts *)

\* RAM after a reset.
Restart(cold) ==
    /\ Goto("inspect")
    /\ powerOn' = cold
    /\ durableRevision' = 0
    /\ scratch' = Blank
    /\ op' = "none" /\ caller' = "resume" /\ abandoning' = FALSE
    /\ secondVerified' = FALSE /\ next' = FactorySettings
    /\ net' = "none" /\ restartPending' = FALSE
    /\ lease' = "none"
    /\ recipe' = DefaultRecipe
    /\ runtimePersistPending' = FALSE
    /\ persist' = "idle" /\ request' = FactorySettings

FaultyMayRestart == TRUE

\* bootRecoveryShouldRestartAfterSuccess, after clearRecoveryIntent
MayRestart == intent' = "none"

\* A boot that could not drop the record goes on, or it would repeat forever.
ClearAtBoot ==
    /\ pc = "clear" /\ ~Booted
    /\ intent' \in {"none", intent}
    /\ \/ MayRestart /\ Restart(FALSE)
       \/ /\ ~MayRestart
          /\ Goto(AfterRecovery)
          /\ UNCHANGED <<powerOn, durableRevision, scratch, resetVars,
                         networkVars, controlVars>>
    /\ UNCHANGED <<slots, resetPartial, erased>>

FaultyNetworkAfterReset == net

\* settings_ = next
NetworkAfterReset == next.net

\* The command: settings_ are the factory settings, a restart is due.
ClearByCommand ==
    /\ pc = "clear" /\ Booted
    /\ intent' \in {"none", intent}
    /\ net' = NetworkAfterReset
    /\ restartPending' = TRUE
    /\ lease' = "done"
    /\ erased' = ~resetPartial
    /\ op' = "none" /\ next' = FactorySettings
    /\ Goto("run")
    /\ UNCHANGED <<slots, durableRevision, scratch, powerOn, caller,
                   abandoning, secondVerified, recipe, persistVars,
                   resetPartial>>

\* abandonFailedBootRecovery, abandonMalformedRecoveryIntent
Abandon ==
    /\ pc = "abandon"
    /\ intent' \in {"none", intent}
    /\ Goto(AfterRecovery)
    /\ UNCHANGED <<slots, durableRevision, scratch, resetVars,
                   resetPartial, bystanders>>

\* The rest of setup(): the stored settings, or the defaults and a first save.
Load ==
    LET found == Stored(slots)
    IN  /\ pc = "load"
        /\ \/ /\ found.valid
              /\ recipe' = found.recipe
              /\ net' = found.net
              /\ durableRevision' = found.revision
              /\ UNCHANGED <<slots, resetPartial>>
           \/ /\ ~found.valid
              /\ recipe' = DefaultRecipe
              /\ net' = "none"
              /\ SaveDone(FactorySettings) \/ SaveFailed(FactorySettings)
        /\ op' = "none" /\ caller' = "web" /\ abandoning' = FALSE
        /\ next' = FactorySettings
        /\ powerOn' = FALSE
        /\ Goto("run")
        /\ UNCHANGED <<intent, scratch, secondVerified, restartPending,
                   lease, persistVars, erased>>

SafeRestart ==
    /\ pc = "run" /\ restartPending /\ lease = "none"
    /\ Restart(FALSE)
    /\ UNCHANGED <<flashVars, resetPartial, erased>>

\* At any time; PowerLoss also stands for every other reset.
PowerLoss ==
    /\ Restart(TRUE)
    /\ UNCHANGED <<flashVars, resetPartial, erased>>

-----------------------------------------------------------------------------
(* The network task: processPersistedCommand, and saves of its own *)

FactoryResetCommand ==
    /\ pc = "run" /\ lease = "factory"
    /\ op' = "factory"
    /\ abandoning' = FALSE
    /\ Goto("ensure")
    /\ UNCHANGED <<flashVars, durableRevision, scratch, caller, secondVerified,
                   next, resetPartial, bystanders>>

\* SAVE_NETWORK, FORGET_NETWORK, RESTART and the like, over the live recipe;
\* those that change the network also restart.
SaveCommand ==
    /\ pc = "run" /\ lease = "save"
    /\ \E newNet \in Nets, restart \in BOOLEAN :
          /\ restart \/ newNet = net
          /\ \/ /\ SaveDone(Settings(recipe, newNet))
                /\ net' = newNet
                /\ restartPending' = (restartPending \/ restart)
                /\ lease' = "done"
                /\ erased' = (erased /\ newNet = "none")
             \/ /\ SaveFailed(Settings(recipe, newNet))
                /\ restartPending' = FALSE
                /\ lease' \in {"save", "done"}
                /\ UNCHANGED <<net, erased>>
    /\ UNCHANGED <<intent, scratch, pc, powerOn, resetVars,
                   recipe, persistVars>>

\* processAcceptedMaintenanceCommand: up to COMMAND_MAX_ATTEMPTS attempts.
WebFailed ==
    /\ pc = "failed"
    /\ lease' \in {"factory", "done"}
    /\ op' = "none" /\ next' = FactorySettings
    /\ Goto("run")
    /\ UNCHANGED <<flashVars, durableRevision, scratch, powerOn, caller,
                   abandoning, secondVerified, networkVars, recipe, persistVars,
                   resetPartial, erased>>

\* confirmPendingNetwork, revertPendingNetwork: saves outside of any lease.
ConfirmOrRevert ==
    /\ pc = "run" /\ ~restartPending /\ net = "sta"
    /\ \E newNet \in Nets :
          \/ SaveDone(Settings(recipe, newNet)) /\ net' = newNet
          \/ SaveFailed(Settings(recipe, newNet)) /\ UNCHANGED net
    /\ UNCHANGED <<intent, scratch, pc, powerOn, resetVars,
                   restartPending, controlVars, erased>>

-----------------------------------------------------------------------------
(* The control task *)

\* beginMaintenanceLease, until the command is forwarded
LeaseBegin ==
    /\ Booted /\ lease = "none"
    /\ \/ lease' = "save"
       \/ lease' = "factory" /\ (Overlap \/ persist = "idle")
    /\ UNCHANGED <<flashVars, durableRevision, scratch, pc, powerOn, resetVars,
                   networkVars, recipe, persistVars, resetPartial, erased>>

\* completeMaintenanceLease
LeaseComplete ==
    /\ lease = "done"
    /\ lease' = "none"
    /\ UNCHANGED <<flashVars, durableRevision, scratch, pc, powerOn, resetVars,
                   networkVars, recipe, persistVars, resetPartial, erased>>

\* commitLiveRuntimeConfig, queueRuntimePersist
Commit ==
    /\ Booted /\ lease = "none"
    /\ recipe' \in Recipes \ {recipe}
    /\ runtimePersistPending' = TRUE
    /\ erased' = FALSE
    /\ UNCHANGED <<flashVars, durableRevision, scratch, pc, powerOn, resetVars,
                   networkVars, lease, persist, request, resetPartial>>

\* serviceRuntimePersistence, dispatchSettingsPersist
Dispatch ==
    /\ runtimePersistPending /\ persist = "idle" /\ lease = "none"
    /\ request' = Settings(recipe, net)
    /\ persist' = "queued"
    /\ runtimePersistPending' = FALSE
    /\ UNCHANGED <<flashVars, durableRevision, scratch, pc, powerOn, resetVars,
                   networkVars, lease, recipe, resetPartial, erased>>

FaultyPendingAfter(result) ==
    recipe # request.recipe \/ runtimePersistPending

\* A failed save, and one that the live recipe has overtaken, is done again.
PendingAfter(result) ==
    result = "failed" \/ recipe # request.recipe \/ runtimePersistPending

\* serviceSettingsPersistResult, but for the preferred scale: see ScaleWorker.
PersistResult ==
    /\ persist \in {"saved", "failed"}
    /\ runtimePersistPending' = PendingAfter(persist)
    /\ persist' = "idle"
    /\ request' = FactorySettings
    /\ UNCHANGED <<flashVars, durableRevision, scratch, pc, powerOn, resetVars,
                   networkVars, lease, recipe, resetPartial, erased>>

-----------------------------------------------------------------------------
(* The settings task *)

\* What a save leaves in the scratch buffer that a reset has yet to read.
Clobber(candidate, readBack) ==
    scratch' = IF pc = "note"
               THEN [Blank EXCEPT ![0] = readBack, ![1] = candidate]
               ELSE scratch

\* settingsPersistTask; while a reset holds the lock it can only time out.
TaskSave ==
    LET candidate == Candidate(slots, durableRevision, request)
    IN  /\ persist = "queued"
        /\ \/ /\ pc # "writeB"
              /\ SaveDone(request)
              /\ Clobber(candidate, candidate)
              /\ persist' = "saved"
           \/ /\ pc # "writeB"
              /\ SaveFailed(request)
              /\ Clobber(candidate, NoRecord)
              /\ persist' = "failed"
           \/ /\ pc = "writeB"
              /\ persist' = "failed"
              /\ UNCHANGED <<slots, durableRevision, resetPartial, scratch>>
        /\ UNCHANGED <<intent, pc, powerOn, resetVars, networkVars,
                       lease, recipe, runtimePersistPending, request, erased>>

-----------------------------------------------------------------------------

Init ==
    /\ slots = [slot \in Slots |-> NoRecord]
    /\ intent = "none"
    /\ durableRevision = 0 /\ scratch = Blank
    /\ pc = "inspect" /\ powerOn = TRUE
    /\ op = "none" /\ caller = "resume" /\ abandoning = FALSE
    /\ secondVerified = FALSE /\ next = FactorySettings
    /\ net = "none" /\ restartPending = FALSE
    /\ lease = "none"
    /\ recipe = DefaultRecipe
    /\ runtimePersistPending = FALSE
    /\ persist = "idle" /\ request = FactorySettings
    /\ resetPartial = FALSE /\ erased = FALSE

BootStep ==
    \/ Inspect \/ Gesture \/ Ensure \/ Erase \/ WriteA \/ WriteB \/ Note
    \/ ResetBle \/ Verify \/ NetReset \/ ClearAtBoot \/ Abandon \/ Load

NetworkStep ==
    \/ ClearByCommand \/ WebFailed \/ SafeRestart
    \/ FactoryResetCommand \/ SaveCommand \/ ConfirmOrRevert

ControlStep ==
    \/ LeaseBegin \/ LeaseComplete \/ Commit \/ Dispatch \/ PersistResult

Next == BootStep \/ NetworkStep \/ ControlStep \/ TaskSave \/ PowerLoss

Spec == Init /\ [][Next]_vars

\* setup() and a command in progress go on.
FairSpec == Spec /\ WF_vars(BootStep \/ ClearByCommand \/ WebFailed)

-----------------------------------------------------------------------------
(* Properties *)

\* Every variable has its type.
TypeOK ==
    /\ slots \in [Slots -> Record]
    /\ intent \in {"none", "torn", "factory", "network"}
    /\ durableRevision \in Revisions
    /\ scratch \in [0 .. 1 -> Record]
    /\ pc \in Steps
    /\ powerOn \in BOOLEAN
    /\ op \in {"none", "factory", "network"}
    /\ caller \in {"resume", "gesture", "web"}
    /\ abandoning \in BOOLEAN
    /\ secondVerified \in BOOLEAN
    /\ next \in [recipe : Recipes, net : Nets]
    /\ net \in Nets
    /\ restartPending \in BOOLEAN
    /\ lease \in {"none", "save", "factory", "done"}
    /\ recipe \in Recipes
    /\ runtimePersistPending \in BOOLEAN
    /\ persist \in {"idle", "queued", "saved", "failed"}
    /\ request \in [recipe : Recipes, net : Nets]
    /\ resetPartial \in BOOLEAN
    /\ erased \in BOOLEAN

\* The corners of the code that the properties except.  A save that wraps,
\* 2^32 - 1 to 1, goes to the slot of the newest record.
AtWrap == BaseRevision(slots, durableRevision) = MaxRevision

\* A reset in the last two revisions gives no greater ones to its records.
LastRevisionIn(store) == \E slot \in Slots : store[slot].revision = MaxRevision

\* Slot B is before the wrap and slot A behind it.  A reset whose revisions are
\* those of slot B, and that leaves slot A alone, is older than slot A then, and
\* so are the saves after it.
AcrossWrap(store) ==
    /\ \A slot \in Slots : store[slot].valid
    /\ store["B"].revision - store["A"].revision > HalfRange

\* Outside of a factory reset, the settings a boot would find change only by
\* a save that is reported done: one that fails, or is cut by a power loss,
\* never costs the stored settings, whichever slots earlier failures and
\* resets have left the newest record in.  Not so at the wrap, and after a
\* reset of which one slot could not be written.
StoredIsKept ==
    [][StoredSettings(slots') # StoredSettings(slots)
         => \/ /\ Stored(slots').valid
               /\ Stored(slots').revision = durableRevision'
            \/ pc \in {"writeA", "writeB"}
            \/ AtWrap
            \/ resetPartial]_vars

\* What a save or a reset reports as durable is what the next boot will find,
\* also across the wrap and over the records that earlier failures have left.
\* A reset in the last two revisions before the wrap is left out, and one that
\* fails in one slot while the two are on both sides of the wrap.
AckedIsStored ==
    [][durableRevision' \notin {0, durableRevision}
         => \/ /\ Stored(slots').valid
               /\ Stored(slots').revision = durableRevision'
            \/ pc = "note" /\ LastRevisionIn(slots)
            \/ resetPartial /\ AcrossWrap(slots')]_vars

\* verifyFactorySettings compares the network only; yet when it has passed, the
\* whole record that a boot would find is the factory one, even if one of the
\* slots still has the settings from before; with the same two exceptions.
VerifiedIsFactory ==
    pc = "clear" /\ op = "factory"
      => \/ StoredSettings(slots) = FactorySettings
         \/ LastRevisionIn(slots)
         \/ resetPartial /\ AcrossWrap(slots)

\* A factory reset by command erases nothing before the record of its intent is
\* stored, and a resumed one keeps the record until it has ended: a power loss
\* in between is always followed by another attempt.
EraseIsLatched ==
    pc \in EraseSteps /\ ~abandoning /\ caller # "gesture"
      => intent = "factory"

\* While the tasks run, a recipe in use that differs from the stored one is on
\* its way to the store, whatever has failed or been overtaken in between.
\* After a factory reset it is meant to be lost.
UnsavedIsPending ==
    pc = "run" /\ Stored(slots).valid /\ Stored(slots).recipe # recipe
      => \/ runtimePersistPending
         \/ persist # "idle"
         \/ erased
         \/ intent = "factory"
         \/ AtWrap
         \/ resetPartial

\* The credentials that a factory reset by command has erased come back from
\* no task's copy of them, and from no older record, until the user gives new
\* ones.  Not so if one slot could not be written: see the README.
CredentialsStayErased ==
    erased => StoredSettings(slots).net = "none"

\* docs/settings/factory-reset.md says that the workflow settings, the presets
\* and the preferred scale are erased: no save of the settings task brings them
\* back when the user has touched nothing since.
SettingsStayErased ==
    [][erased /\ persist' = "saved"
         => StoredSettings(slots').recipe = DefaultRecipe]_vars

\* ShotStopperFlashIoScratch.h says that the users of the scratch buffer hold
\* the flash lock for the whole use of it: what the reset reads there is what
\* it put there.
ScratchIsOwn ==
    LET result == IF secondVerified THEN scratch[1] ELSE scratch[0]
    IN  pc = "note" => Settings(result.recipe, result.net) = FactorySettings

\* A pending or torn recovery, failing writes and a record that cannot be
\* cleared hold no boot up for ever, nor restart it without end.
BootReachesRun ==
    <>[][~(powerOn' /\ pc' = "inspect")]_vars => []<>(pc = "run")
=============================================================================
