-------------------------- MODULE ControlLoopProofs --------------------------
(***************************************************************************)
(* Proofs about ControlLoop, for every HardMax, Limits, PaddlePositions,   *)
(* Prompt and Delayed that satisfy the assumptions of RelayDriver and      *)
(* ControlLoop.                                                            *)
(*                                                                         *)
(* First the types, in four parts, each a numbered step of the first       *)
(* theorem: the flags of the driver and of the loop (Boolean, for Zenon)   *)
(* and their other values (for SMT).  Then the inductive invariants that   *)
(* ControlLoop names, and from them the theorems.                          *)
(***************************************************************************)
EXTENDS ControlLoop, TLAPS

USE DEF driverVars, pinVars, latchVars, timerVars, localVars, stopperVars,
        inputVars, faultVars, loopVars, Goto, Off

-----------------------------------------------------------------------------
(* Types *)

\* Every variable keeps its type, in every behaviour.
THEOREM TypeCorrect == Spec => []TypeOK
\* What each operation of the driver does to the driver's flags.
<1>UnchangedFlags. ASSUME DriverFlagsOK, UNCHANGED driverVars
                   PROVE  DriverFlagsOK'
  BY <1>UnchangedFlags DEF DriverFlagsOK
\* tripRelaySafetyLocked keeps the flags of the driver Boolean.
<1>TripFlags. ASSUME NEW hard, NEW oper, NEW lockout, DriverFlagsOK,
                     TripLocked(hard, oper, lockout)
              PROVE  DriverFlagsOK'
  BY <1>TripFlags, Zenon DEF TripLocked, DriverFlagsOK
\* So do the publication of ARMING, the commit of a close and the open request ...
<1>PublicationFlags. ASSUME DriverFlagsOK
                     PROVE  /\ \A lim, keep : PublishArming(lim, keep) => DriverFlagsOK'
                            /\ CommitClose => DriverFlagsOK'
                            /\ OpenCircuit => DriverFlagsOK'
  <2> USE <1>PublicationFlags
  <2> USE DEF DriverFlagsOK
  <2>1. ASSUME NEW lim, NEW keep, PublishArming(lim, keep) PROVE DriverFlagsOK'
    BY <2>1, Zenon DEF PublishArming
  <2>2. ASSUME CommitClose PROVE DriverFlagsOK'
    BY <2>2, Zenon DEF CommitClose
  <2>3. ASSUME OpenCircuit PROVE DriverFlagsOK'
    BY <2>3, Zenon DEF OpenCircuit
  <2> QED
    BY <2>1, <2>2, <2>3
\* ... and a reset, which sets the flags of the loop as well.
<1>ResetFlags. ASSUME NEW marker, ResetTo(marker)
               PROVE  DriverFlagsOK' /\ LoopFlagsOK'
  BY <1>ResetFlags, Zenon DEF ResetTo, ResetDriver, DriverFlagsOK, LoopFlagsOK
\* The interrupt assigns its latches from a comparison.
<1>InterruptFlags. ASSUME DriverFlagsOK, SafetyTimerISR
                   PROVE  DriverFlagsOK'
  <2> USE <1>InterruptFlags
  <2>1. /\ (operationalLimitAtArm >= HardMax) \in BOOLEAN
        /\ (operationalLimitAtArm < HardMax) \in BOOLEAN
    BY SMT
  <2> QED
    BY <2>1, Zenon DEF SafetyTimerISR, DriverFlagsOK
\* The esp_timer callbacks, due or delayed, keep the flags of the driver Boolean.
<1>ServiceTimerFlags. ASSUME DriverFlagsOK, DueCallback \/ DelayedCallback
                      PROVE  DriverFlagsOK'
  <2> USE <1>ServiceTimerFlags
  <2>1. CASE HardTimerCallback
    BY <2>1, <1>TripFlags DEF HardTimerCallback, DriverFlagsOK
  <2>2. CASE OperationalTimerCallback
    BY <2>2, <1>TripFlags DEF OperationalTimerCallback, DriverFlagsOK
  <2>3. CASE DelayedCallback
    BY <2>3, <1>TripFlags DEF DelayedCallback
  <2> QED
    BY <2>1, <2>2, <2>3 DEF DueCallback
\* Every step keeps the flags of the driver.
<1>DriverFlagsStep. ASSUME DriverFlagsOK, [Next]_vars
                    PROVE  DriverFlagsOK'
  <2> USE <1>DriverFlagsStep
  <2>1. CASE Boot
    BY <2>1 DEF Boot, DriverFlagsOK
  <2>2. CASE Service
    BY <2>2, <1>UnchangedFlags, <1>TripFlags DEF Service
  <2>3. CASE ReassertRead
    BY <2>3, <1>UnchangedFlags DEF ReassertRead, ReassertDone
  <2>4. CASE ReassertWrite
    BY <2>4 DEF ReassertWrite, DriverFlagsOK
  <2>5. CASE ReassertCheck
    BY <2>5, <1>UnchangedFlags, <1>TripFlags DEF ReassertCheck, DesyncRemains,
       ReassertDone
  <2>6. CASE Deadline
    BY <2>6, <1>UnchangedFlags, <1>TripFlags DEF Deadline
  <2>7. CASE StopTimersAfterTrip
    BY <2>7 DEF StopTimersAfterTrip, StopTimers, DriverFlagsOK
  <2>8. CASE Restore
    BY <2>8, <1>UnchangedFlags, <1>TripFlags DEF Restore
  <2>9. CASE Restart
    BY <2>9, <1>UnchangedFlags DEF Restart
  <2>10. CASE SampleInput
    BY <2>10, <1>UnchangedFlags DEF SampleInput
  <2>11. CASE MirrorOff
    BY <2>11, <1>UnchangedFlags DEF MirrorOff
  <2>12. CASE MirrorOn
    BY <2>12, <1>UnchangedFlags DEF MirrorOn
  <2>13. CASE Close
    BY <2>13, <1>UnchangedFlags, <1>TripFlags DEF Close
  <2>14. CASE CloseStopTimers
    BY <2>14 DEF CloseStopTimers, StopTimers, DriverFlagsOK
  <2>15. CASE Publish
    BY <2>15, <1>PublicationFlags DEF Publish
  <2>16. CASE ArmIsr
    BY <2>16 DEF ArmIsr, ArmIndependentTimer, DriverFlagsOK
  <2>17. CASE ArmService
    BY <2>17 DEF ArmService, ArmServiceTimers, DriverFlagsOK
  <2>18. CASE ArmFailed
    BY <2>18, <1>TripFlags DEF ArmFailed
  <2>19. CASE Commit
    BY <2>19, <1>UnchangedFlags, <1>PublicationFlags DEF Commit
  <2>20. CASE Cancel
    BY <2>20 DEF Cancel, StopTimers, DriverFlagsOK
  <2>21. CASE Open
    BY <2>21, <1>PublicationFlags DEF Open
  <2>22. CASE OpenStopTimers
    BY <2>22 DEF OpenStopTimers, StopTimers, DriverFlagsOK
  <2>23. CASE Policy
    BY <2>23, <1>UnchangedFlags DEF Policy
  <2>24. CASE HandleGlobal
    BY <2>24 DEF HandleGlobal, DriverFlagsOK
  <2>25. CASE HandleGlobalStop
    BY <2>25, <1>UnchangedFlags DEF HandleGlobalStop
  <2>26. CASE HandleOperational
    BY <2>26 DEF HandleOperational, DriverFlagsOK
  <2>27. CASE WebCommand
    BY <2>27, <1>UnchangedFlags DEF WebCommand
  <2>28. CASE Feed
    BY <2>28, <1>UnchangedFlags, <1>TripFlags DEF Feed
  <2>29. CASE Reboot
    BY <2>29, <1>ResetFlags DEF Reboot, StopTimers
  <2>30. CASE ISR
    BY <2>30, <1>InterruptFlags DEF ISR
  <2>31. CASE ServiceTimers
    BY <2>31, <1>ServiceTimerFlags DEF ServiceTimers
  <2>32. CASE Tick
    BY <2>32 DEF Tick, Elapse, CountDown, AtMost, DriverFlagsOK
  <2>33. CASE OtherTasks
    BY <2>33, <1>UnchangedFlags DEF OtherTasks
  <2>34. CASE GpioGlitch
    BY <2>34 DEF GpioGlitch, DriverFlagsOK
  <2>35. CASE Crash
    BY <2>35, <1>ResetFlags DEF Crash, StopTimers
  <2>36. CASE UNCHANGED vars
    BY <2>36, <1>UnchangedFlags DEF vars
  <2>37. CASE BeginRinse
    BY <2>37, <1>UnchangedFlags DEF BeginRinse
  <2> QED
    BY <2>1, <2>2, <2>3, <2>4, <2>5, <2>6, <2>7, <2>8, <2>9, <2>10, <2>11,
       <2>12, <2>13, <2>14, <2>15, <2>16, <2>17, <2>18, <2>19, <2>20, <2>21,
       <2>22, <2>23, <2>24, <2>25, <2>26, <2>27, <2>28, <2>29, <2>30, <2>31,
       <2>32, <2>33, <2>34, <2>35, <2>36, <2>37 DEF Next, Control
\* The return of a close leaves session.active Boolean.
<1>ReturnFlags. ASSUME NEW succeeded \in BOOLEAN, LoopFlagsOK, ReturnFromClose(succeeded)
                PROVE  (sessionActive \in BOOLEAN)'
  BY <1>ReturnFlags, Zenon DEF ReturnFromClose, LoopFlagsOK
\* Every step keeps the flags of the loop.
<1>LoopFlagsStep. ASSUME DriverFlagsOK, LoopFlagsOK, [Next]_vars
                  PROVE  LoopFlagsOK'
  <2> USE <1>LoopFlagsStep
  <2> USE DEF DriverFlagsOK, LoopFlagsOK
  <2>1. CASE Boot
    BY <2>1, PaddleAssumption DEF Boot
  <2>2. CASE Service
    BY <2>2, Zenon DEF Service
  <2>3. CASE ReassertRead
    BY <2>3, <1>ReturnFlags DEF ReassertRead, ReassertDone
  <2>4. CASE ReassertWrite
    BY <2>4 DEF ReassertWrite
  <2>5. CASE ReassertCheck
    BY <2>5, <1>ReturnFlags DEF ReassertCheck, ReassertDone
  <2>6. CASE Deadline
    BY <2>6 DEF Deadline
  <2>7. CASE StopTimersAfterTrip
    BY <2>7, <1>ReturnFlags DEF StopTimersAfterTrip, ReturnFromTrip
  <2>8. CASE Restore
    BY <2>8 DEF Restore
  <2>9. CASE Restart
    BY <2>9 DEF Restart
  <2>10. CASE SampleInput
    BY <2>10, PaddleAssumption DEF SampleInput
  <2>11. CASE MirrorOff
    BY <2>11 DEF MirrorOff
  <2>12. CASE MirrorOn
    BY <2>12 DEF MirrorOn
  <2>13. CASE Close
    BY <2>13, <1>ReturnFlags DEF Close
  <2>14. CASE CloseStopTimers
    BY <2>14 DEF CloseStopTimers
  <2>15. CASE Publish
    BY <2>15 DEF Publish
  <2>16. CASE ArmIsr
    BY <2>16 DEF ArmIsr
  <2>17. CASE ArmService
    BY <2>17 DEF ArmService
  <2>18. CASE ArmFailed
    BY <2>18 DEF ArmFailed
  <2>19. CASE Commit
    BY <2>19, <1>ReturnFlags DEF Commit
  <2>20. CASE Cancel
    BY <2>20, <1>ReturnFlags DEF Cancel
  <2>21. CASE Open
    BY <2>21 DEF Open
  <2>22. CASE OpenStopTimers
    BY <2>22 DEF OpenStopTimers, ReturnFromOpen
  <2>23. CASE Policy
    BY <2>23 DEF Policy
  <2>24. CASE HandleGlobal
    BY <2>24 DEF HandleGlobal, EndTripped
  <2>25. CASE HandleGlobalStop
    BY <2>25 DEF HandleGlobalStop, EndTripped
  <2>26. CASE HandleOperational
    BY <2>26 DEF HandleOperational, EndTripped
  <2>27. CASE WebCommand
    BY <2>27 DEF WebCommand
  <2>28. CASE Feed
    BY <2>28 DEF Feed
  <2>29. CASE Reboot
    BY <2>29, <1>ResetFlags DEF Reboot
  <2>30. CASE ISR
    BY <2>30 DEF ISR
  <2>31. CASE ServiceTimers
    BY <2>31 DEF ServiceTimers
  <2>32. CASE Tick
    BY <2>32 DEF Tick
  <2>33. CASE OtherTasks
    BY <2>33 DEF OtherTasks
  <2>34. CASE GpioGlitch
    BY <2>34 DEF GpioGlitch
  <2>35. CASE Crash
    BY <2>35, <1>ResetFlags DEF Crash
  <2>36. CASE UNCHANGED vars
    BY <2>36 DEF vars
  <2>37. CASE BeginRinse
    BY <2>37 DEF BeginRinse
  <2> QED
    BY <2>1, <2>2, <2>3, <2>4, <2>5, <2>6, <2>7, <2>8, <2>9, <2>10, <2>11,
       <2>12, <2>13, <2>14, <2>15, <2>16, <2>17, <2>18, <2>19, <2>20, <2>21,
       <2>22, <2>23, <2>24, <2>25, <2>26, <2>27, <2>28, <2>29, <2>30, <2>31,
       <2>32, <2>33, <2>34, <2>35, <2>36, <2>37 DEF Next, Control
\* Every step keeps the states, limits and timers of the driver in range.
<1>DriverValuesStep. ASSUME DriverValuesOK, LoopValuesOK, [Next]_vars
                     PROVE  DriverValuesOK'
  <2> USE <1>DriverValuesStep
  <2> USE HardMaxAssumption, LimitsAssumption DEF DriverValuesOK,
              LoopValuesOK, States, Timer
  <2>1. CASE Boot
    BY <2>1 DEF Boot
  <2>2. CASE Service
    BY <2>2 DEF Service, TripLocked
  <2>3. CASE ReassertRead
    BY <2>3 DEF ReassertRead, ReassertDone, ReturnFromClose
  <2>4. CASE ReassertWrite
    BY <2>4 DEF ReassertWrite
  <2>5. CASE ReassertCheck
    BY <2>5 DEF ReassertCheck, DesyncRemains, TripLocked, ReassertDone,
       ReturnFromClose
  <2>6. CASE Deadline
    BY <2>6 DEF Deadline, TripLocked
  <2>7. CASE StopTimersAfterTrip
    BY <2>7 DEF StopTimersAfterTrip, StopTimers, ReturnFromClose
  <2>8. CASE Restore
    BY <2>8 DEF Restore, TripLocked
  <2>9. CASE Restart
    BY <2>9 DEF Restart
  <2>10. CASE SampleInput
    BY <2>10 DEF SampleInput
  <2>11. CASE MirrorOff
    BY <2>11 DEF MirrorOff
  <2>12. CASE MirrorOn
    BY <2>12 DEF MirrorOn
  <2>13. CASE Close
    BY <2>13 DEF Close, TripLocked, ReturnFromClose
  <2>14. CASE CloseStopTimers
    BY <2>14 DEF CloseStopTimers, StopTimers
  <2>15. CASE Publish
    BY <2>15 DEF Publish, PublishArming
  <2>16. CASE ArmIsr
    BY <2>16 DEF ArmIsr, ArmIndependentTimer
  <2>17. CASE ArmService
    BY <2>17 DEF ArmService, ArmServiceTimers
  <2>18. CASE ArmFailed
    BY <2>18 DEF ArmFailed, TripLocked
  <2>19. CASE Commit
    BY <2>19 DEF Commit, CommitClose, MayCommit, ReturnFromClose
  <2>20. CASE Cancel
    BY <2>20 DEF Cancel, StopTimers, ReturnFromClose
  <2>21. CASE Open
    BY <2>21 DEF Open, OpenCircuit
  <2>22. CASE OpenStopTimers
    BY <2>22 DEF OpenStopTimers, StopTimers
  <2>23. CASE Policy
    BY <2>23 DEF Policy
  <2>24. CASE HandleGlobal
    BY <2>24 DEF HandleGlobal
  <2>25. CASE HandleGlobalStop
    BY <2>25 DEF HandleGlobalStop
  <2>26. CASE HandleOperational
    BY <2>26 DEF HandleOperational
  <2>27. CASE WebCommand
    BY <2>27 DEF WebCommand
  <2>28. CASE Feed
    BY <2>28 DEF Feed, TripLocked
  <2>29. CASE Reboot
    BY <2>29 DEF Reboot, ResetTo, ResetDriver, StopTimers
  <2>30. CASE ISR
    BY <2>30 DEF ISR, SafetyTimerISR
  <2>31. CASE ServiceTimers
    BY <2>31 DEF ServiceTimers, DueCallback, HardTimerCallback,
       OperationalTimerCallback, DelayedCallback, TripLocked
  <2>32. CASE Tick
    BY <2>32 DEF Tick, Elapse, CountDown, AtMost
  <2>33. CASE OtherTasks
    BY <2>33 DEF OtherTasks
  <2>34. CASE GpioGlitch
    BY <2>34 DEF GpioGlitch
  <2>35. CASE Crash
    BY <2>35 DEF Crash, ResetTo, ResetDriver, StopTimers
  <2>36. CASE UNCHANGED vars
    BY <2>36 DEF vars
  <2>37. CASE BeginRinse
    BY <2>37 DEF BeginRinse
  <2> QED
    BY <2>1, <2>2, <2>3, <2>4, <2>5, <2>6, <2>7, <2>8, <2>9, <2>10, <2>11,
       <2>12, <2>13, <2>14, <2>15, <2>16, <2>17, <2>18, <2>19, <2>20, <2>21,
       <2>22, <2>23, <2>24, <2>25, <2>26, <2>27, <2>28, <2>29, <2>30, <2>31,
       <2>32, <2>33, <2>34, <2>35, <2>36, <2>37 DEF Next, Control
\* Every step leads to a step of the program, called by one of its callers.
<1>LoopValuesStep. ASSUME DriverValuesOK, LoopValuesOK, [Next]_vars
                   PROVE  LoopValuesOK'
  <2> USE <1>LoopValuesStep
  <2> USE DEF DriverValuesOK, LoopValuesOK, Steps, Calls, States
  <2>1. CASE Boot
    BY <2>1 DEF Boot
  <2>2. CASE Service
    BY <2>2 DEF Service, TripLocked
  <2>3. CASE ReassertRead
    BY <2>3 DEF ReassertRead, ReassertDone, ReturnFromClose
  <2>4. CASE ReassertWrite
    BY <2>4 DEF ReassertWrite
  <2>5. CASE ReassertCheck
    BY <2>5 DEF ReassertCheck, DesyncRemains, TripLocked, ReassertDone,
       ReturnFromClose
  <2>6. CASE Deadline
    BY <2>6 DEF Deadline, TripLocked
  <2>7. CASE StopTimersAfterTrip
    BY <2>7 DEF StopTimersAfterTrip, StopTimers, ReturnFromTrip,
       ReturnFromClose
  <2>8. CASE Restore
    BY <2>8 DEF Restore, TripLocked
  <2>9. CASE Restart
    BY <2>9 DEF Restart
  <2>10. CASE SampleInput
    BY <2>10 DEF SampleInput
  <2>11. CASE MirrorOff
    BY <2>11 DEF MirrorOff
  <2>12. CASE MirrorOn
    BY <2>12 DEF MirrorOn
  <2>13. CASE Close
    BY <2>13 DEF Close, TripLocked, ReturnFromClose
  <2>14. CASE CloseStopTimers
    BY <2>14 DEF CloseStopTimers, StopTimers
  <2>15. CASE Publish
    BY <2>15 DEF Publish, PublishArming
  <2>16. CASE ArmIsr
    BY <2>16 DEF ArmIsr, ArmIndependentTimer
  <2>17. CASE ArmService
    BY <2>17 DEF ArmService, ArmServiceTimers
  <2>18. CASE ArmFailed
    BY <2>18 DEF ArmFailed, TripLocked
  <2>19. CASE Commit
    BY <2>19 DEF Commit, CommitClose, MayCommit, ReturnFromClose
  <2>20. CASE Cancel
    BY <2>20 DEF Cancel, StopTimers, ReturnFromClose
  <2>21. CASE Open
    BY <2>21 DEF Open, OpenCircuit
  <2>22. CASE OpenStopTimers
    BY <2>22 DEF OpenStopTimers, StopTimers, ReturnFromOpen
  <2>23. CASE Policy
    BY <2>23 DEF Policy
  <2>24. CASE HandleGlobal
    BY <2>24 DEF HandleGlobal, EndTripped
  <2>25. CASE HandleGlobalStop
    BY <2>25 DEF HandleGlobalStop, EndTripped
  <2>26. CASE HandleOperational
    BY <2>26 DEF HandleOperational, EndTripped
  <2>27. CASE WebCommand
    BY <2>27 DEF WebCommand
  <2>28. CASE Feed
    BY <2>28 DEF Feed, TripLocked
  <2>29. CASE Reboot
    BY <2>29 DEF Reboot, ResetTo, ResetDriver, StopTimers
  <2>30. CASE ISR
    BY <2>30 DEF ISR, SafetyTimerISR
  <2>31. CASE ServiceTimers
    BY <2>31 DEF ServiceTimers, DueCallback, HardTimerCallback,
       OperationalTimerCallback, DelayedCallback, TripLocked
  <2>32. CASE Tick
    BY <2>32 DEF Tick, Elapse, CountDown, AtMost
  <2>33. CASE OtherTasks
    BY <2>33 DEF OtherTasks
  <2>34. CASE GpioGlitch
    BY <2>34 DEF GpioGlitch
  <2>35. CASE Crash
    BY <2>35 DEF Crash, ResetTo, ResetDriver, StopTimers
  <2>36. CASE UNCHANGED vars
    BY <2>36 DEF vars
  <2>37. CASE BeginRinse
    BY <2>37 DEF BeginRinse
  <2> QED
    BY <2>1, <2>2, <2>3, <2>4, <2>5, <2>6, <2>7, <2>8, <2>9, <2>10, <2>11,
       <2>12, <2>13, <2>14, <2>15, <2>16, <2>17, <2>18, <2>19, <2>20, <2>21,
       <2>22, <2>23, <2>24, <2>25, <2>26, <2>27, <2>28, <2>29, <2>30, <2>31,
       <2>32, <2>33, <2>34, <2>35, <2>36, <2>37 DEF Next, Control
<1>1. Init => TypeOK
  <2> SUFFICES ASSUME Init PROVE TypeOK
    OBVIOUS
  <2>1. DriverFlagsOK /\ LoopFlagsOK
    BY Zenon DEF Init, InitDriver, DriverFlagsOK, LoopFlagsOK
  <2>2. DriverValuesOK /\ LoopValuesOK
    BY HardMaxAssumption, SMT
    DEF Init, InitDriver, DriverValuesOK, LoopValuesOK, Steps, Calls, States,
        Timer
  <2> QED
    BY <2>1, <2>2 DEF TypeOK
<1>2. TypeOK /\ [Next]_vars => TypeOK'
  BY <1>DriverFlagsStep, <1>DriverValuesStep, <1>LoopFlagsStep, <1>LoopValuesStep
  DEF TypeOK
<1> QED
  BY <1>1, <1>2, PTL DEF Spec

-----------------------------------------------------------------------------
(* The circuit and its published state *)

\* The circuit is closed only in the published state CLOSED.
LEMMA PublishedInvariant == Spec => []ClosedIsPublished
\* The state CLOSED is published with the close, and every opening is done
\* before the step that follows it.
<1>PublishedStep. ASSUME TypeOK, ClosedIsPublished, [Next]_vars
                  PROVE  ClosedIsPublished'
  <2> USE <1>PublishedStep
  <2> USE DEF TypeOK, DriverValuesOK, LoopValuesOK, Steps, Calls, States,
              Timer, OpenSteps, ArmingSteps, ClosedIsPublished
  <2>1. CASE Boot
    BY <2>1 DEF Boot
  <2>2. CASE Service
    BY <2>2 DEF Service, TripLocked
  <2>3. CASE ReassertRead
    BY <2>3 DEF ReassertRead, ReassertDone, ReturnFromClose, StartCalls
  <2>4. CASE ReassertWrite
    BY <2>4 DEF ReassertWrite
  <2>5. CASE ReassertCheck
    BY <2>5 DEF ReassertCheck, DesyncRemains, TripLocked, ReassertDone,
       ReturnFromClose, StartCalls
  <2>6. CASE Deadline
    BY <2>6 DEF Deadline, TripLocked, DeadlinePassed
  <2>7. CASE StopTimersAfterTrip
    BY <2>7 DEF StopTimersAfterTrip, StopTimers, ReturnFromTrip,
       ReturnFromClose, StartCalls
  <2>8. CASE Restore
    BY <2>8 DEF Restore, TripLocked
  <2>9. CASE Restart
    BY <2>9 DEF Restart
  <2>10. CASE SampleInput
    BY <2>10 DEF SampleInput
  <2>11. CASE MirrorOff
    BY <2>11 DEF MirrorOff
  <2>12. CASE MirrorOn
    BY <2>12 DEF MirrorOn
  <2>13. CASE Close
    BY <2>13 DEF Close, TripLocked, ReturnFromClose, StartCalls
  <2>14. CASE CloseStopTimers
    BY <2>14 DEF CloseStopTimers, StopTimers
  <2>15. CASE Publish
    BY <2>15 DEF Publish, PublishArming
  <2>16. CASE ArmIsr
    BY <2>16 DEF ArmIsr, ArmIndependentTimer
  <2>17. CASE ArmService
    BY <2>17 DEF ArmService, ArmServiceTimers
  <2>18. CASE ArmFailed
    BY <2>18 DEF ArmFailed, TripLocked
  <2>19. CASE Commit
    BY <2>19 DEF Commit, CommitClose, MayCommit, ReturnFromClose, StartCalls
  <2>20. CASE Cancel
    BY <2>20 DEF Cancel, StopTimers, ReturnFromClose, StartCalls
  <2>21. CASE Open
    BY <2>21 DEF Open, OpenCircuit
  <2>22. CASE OpenStopTimers
    BY <2>22 DEF OpenStopTimers, StopTimers, ReturnFromOpen
  <2>23. CASE Policy
    BY <2>23 DEF Policy
  <2>24. CASE HandleGlobal
    BY <2>24 DEF HandleGlobal, EndTripped
  <2>25. CASE HandleGlobalStop
    BY <2>25 DEF HandleGlobalStop, EndTripped
  <2>26. CASE HandleOperational
    BY <2>26 DEF HandleOperational, EndTripped
  <2>27. CASE WebCommand
    BY <2>27 DEF WebCommand
  <2>28. CASE Feed
    BY <2>28 DEF Feed, TripLocked
  <2>29. CASE Reboot
    BY <2>29 DEF Reboot, ResetTo, ResetDriver, StopTimers
  <2>30. CASE ISR
    BY <2>30 DEF ISR, SafetyTimerISR, CommandedClosed
  <2>31. CASE ServiceTimers
    BY <2>31 DEF ServiceTimers, DueCallback, HardTimerCallback,
       OperationalTimerCallback, DelayedCallback, TripLocked, CommandedClosed, OperationalDeadline
  <2>32. CASE Tick
    BY <2>32 DEF Tick, Elapse, CountDown, AtMost
  <2>33. CASE OtherTasks
    BY <2>33 DEF OtherTasks
  <2>34. CASE GpioGlitch
    BY <2>34 DEF GpioGlitch
  <2>35. CASE Crash
    BY <2>35 DEF Crash, ResetTo, ResetDriver, StopTimers
  <2>36. CASE UNCHANGED vars
    BY <2>36 DEF vars
  <2>37. CASE BeginRinse
    BY <2>37 DEF BeginRinse
  <2> QED
    BY <2>1, <2>2, <2>3, <2>4, <2>5, <2>6, <2>7, <2>8, <2>9, <2>10, <2>11,
       <2>12, <2>13, <2>14, <2>15, <2>16, <2>17, <2>18, <2>19, <2>20, <2>21,
       <2>22, <2>23, <2>24, <2>25, <2>26, <2>27, <2>28, <2>29, <2>30, <2>31,
       <2>32, <2>33, <2>34, <2>35, <2>36, <2>37 DEF Next, Control
<1>1. Init => ClosedIsPublished
  BY DEF Init, InitDriver, ClosedIsPublished
<1>2. TypeOK /\ ClosedIsPublished /\ [Next]_vars => ClosedIsPublished'
  BY <1>PublishedStep
<1> QED
  BY <1>1, <1>2, TypeCorrect, PTL DEF Spec

-----------------------------------------------------------------------------
(* The contact opens within its limit *)

\* With a prompt interrupt its alarm covers every closed circuit.
LEMMA AlarmInvariant ==
  ASSUME "isr" \in Prompt
  PROVE  Spec => []AlarmCovers
\* AlarmCovers says nothing about an open circuit outside a close.
<1>OpenedIsCovered. ASSUME ~circuitClosed', pc' \notin ArmingSteps
                    PROVE  AlarmCovers'
  BY <1>OpenedIsCovered DEF AlarmCovers, ArmingSteps
\* A trip opens the circuit, and so leaves it covered.
<1>TripIsCovered. ASSUME NEW hard, NEW oper, NEW lockout, TripLocked(hard, oper, lockout),
                         pc' \notin ArmingSteps
                  PROVE  AlarmCovers'
  BY <1>TripIsCovered, <1>OpenedIsCovered DEF TripLocked
\* Every step keeps the contact covered by an alarm of the interrupt.
<1>AlarmStep. ASSUME "isr" \in Prompt, TypeOK, ClosedIsPublished, AlarmCovers,
                     [Next]_vars
              PROVE  AlarmCovers'
  <2> USE <1>AlarmStep
  <2>0. /\ limit \in 1 .. HardMax /\ operationalLimitAtArm \in 1 .. HardMax
        /\ contactAge \in Nat
    BY HardMaxAssumption, LimitsAssumption
    DEF TypeOK, DriverValuesOK, LoopValuesOK
  <2> USE DEF TypeOK, DriverValuesOK, LoopValuesOK, Steps, Calls, States,
              Timer, OpenSteps, ArmingSteps, ClosedIsPublished,
              AlarmCovers
  <2>1. CASE Boot
    BY <2>1 DEF Boot
  <2>2. CASE Service
    <3>1. CASE watchdogFault
      BY <2>2, <3>1, <1>TripIsCovered DEF Service, ArmingSteps
    <3>2. CASE ~watchdogFault
      BY <2>2, <3>2 DEF Service, AlarmCovers, ArmingSteps
    <3> QED
      BY <3>1, <3>2
  <2>3. CASE ReassertRead
    BY <2>3 DEF ReassertRead, ReassertDone, ReturnFromClose, StartCalls
  <2>4. CASE ReassertWrite
    BY <2>4 DEF ReassertWrite
  <2>5. CASE ReassertCheck
    BY <2>5 DEF ReassertCheck, DesyncRemains, TripLocked, ReassertDone,
       ReturnFromClose, StartCalls
  <2>6. CASE Deadline
    <3>1. CASE DeadlinePassed
      BY <2>6, <3>1, <1>TripIsCovered DEF Deadline, ArmingSteps
    <3>2. CASE ~DeadlinePassed
      BY <2>6, <3>2 DEF Deadline, AlarmCovers, ArmingSteps
    <3> QED
      BY <3>1, <3>2
  <2>7. CASE StopTimersAfterTrip
    BY <2>7 DEF StopTimersAfterTrip, StopTimers, ReturnFromTrip,
       ReturnFromClose, StartCalls
  <2>8. CASE Restore
    <3>1. CASE restoreFailed
      BY <2>8, <3>1, <1>TripIsCovered DEF Restore, ArmingSteps
    <3>2. CASE ~restoreFailed
      BY <2>8, <3>2 DEF Restore, AlarmCovers, ArmingSteps
    <3> QED
      BY <3>1, <3>2
  <2>9. CASE Restart
    BY <2>9 DEF Restart
  <2>10. CASE SampleInput
    BY <2>10 DEF SampleInput
  <2>11. CASE MirrorOff
    BY <2>11 DEF MirrorOff
  <2>12. CASE MirrorOn
    BY <2>12 DEF MirrorOn
  <2>13. CASE Close
    BY <2>13 DEF Close, TripLocked, ReturnFromClose, StartCalls
  <2>14. CASE CloseStopTimers
    BY <2>14 DEF CloseStopTimers, StopTimers
  <2>15. CASE Publish
    BY <2>15, <2>0 DEF Publish, PublishArming
  <2>16. CASE ArmIsr
    <3>1. CASE ArmIndependentTimer(limit) /\ armed' = TRUE
      BY <2>0, <2>16, <3>1 DEF ArmIsr, ArmIndependentTimer
    <3>2. CASE UNCHANGED timerVars /\ armed' = FALSE
      BY <2>16, <3>2 DEF ArmIsr
    <3> QED
      BY <2>16, <3>1, <3>2 DEF ArmIsr
  <2>17. CASE ArmService
    <3>1. /\ UNCHANGED <<circuitClosed, relaySafetyState,
                         operationalLimitAtArm, limit>>
          /\ pc = "armService" /\ pc' = IF armed' THEN "commit" ELSE "armFailed"
      BY <2>17 DEF ArmService
    <3>2. CASE ArmServiceTimers(limit) /\ armed' = armed
      BY <3>1, <3>2 DEF ArmServiceTimers
    <3>3. CASE UNCHANGED timerVars /\ armed' = FALSE
      BY <3>1, <3>3
    <3> QED
      BY <2>17, <3>2, <3>3 DEF ArmService
  <2>18. CASE ArmFailed
    BY <2>18 DEF ArmFailed, TripLocked
  <2>19. CASE Commit
    BY <2>19, <2>0 DEF Commit, CommitClose, MayCommit, ReturnFromClose,
       StartCalls
  <2>20. CASE Cancel
    BY <2>20 DEF Cancel, StopTimers, ReturnFromClose, StartCalls
  <2>21. CASE Open
    BY <2>21, <2>0 DEF Open, OpenCircuit
  <2>22. CASE OpenStopTimers
    BY <2>22 DEF OpenStopTimers, StopTimers, ReturnFromOpen
  <2>23. CASE Policy
    BY <2>23 DEF Policy
  <2>24. CASE HandleGlobal
    BY <2>24 DEF HandleGlobal, EndTripped
  <2>25. CASE HandleGlobalStop
    BY <2>25 DEF HandleGlobalStop, EndTripped
  <2>26. CASE HandleOperational
    BY <2>26 DEF HandleOperational, EndTripped
  <2>27. CASE WebCommand
    BY <2>27 DEF WebCommand
  <2>28. CASE Feed
    <3>1. CASE pc' = "service" /\ UNCHANGED driverVars
      BY <2>28, <3>1 DEF Feed
    <3>2. CASE pc' = "stopTimers" /\ TripLocked(FALSE, FALSE, TRUE)
      BY <3>2, <1>TripIsCovered
    <3> QED
      BY <2>28, <3>1, <3>2, Zenon DEF Feed
  <2>29. CASE Reboot
    BY <2>29 DEF Reboot, ResetTo, ResetDriver, StopTimers
  <2>30. CASE ISR
    BY <2>30, <2>0 DEF ISR, SafetyTimerISR, CommandedClosed
  <2>31. CASE ServiceTimers
    <3> USE DEF ServiceTimers, DueCallback, HardTimerCallback,
                OperationalTimerCallback, DelayedCallback, TripLocked
    <3>1. UNCHANGED <<pc, limit, armed, gptimer, contactAge,
                      operationalLimitAtArm>>
      BY <2>31, Zenon
    <3>2. circuitClosed' => circuitClosed
      BY <2>31, Zenon
    <3>3. relaySafetyState' = "ARMING" => relaySafetyState = "ARMING"
      BY <2>31
    <3> QED
      BY <3>1, <3>2, <3>3
  <2>32. CASE Tick
    BY <2>32, <2>0 DEF Tick, Elapse, CountDown, AtMost
  <2>33. CASE OtherTasks
    BY <2>33 DEF OtherTasks
  <2>34. CASE GpioGlitch
    BY <2>34 DEF GpioGlitch
  <2>35. CASE Crash
    <3>1. ~circuitClosed' /\ pc' = "boot"
      BY <2>35, Zenon DEF Crash, ResetTo, ResetDriver
    <3> QED
      BY <3>1, <1>OpenedIsCovered
  <2>36. CASE UNCHANGED vars
    BY <2>36 DEF vars
  <2>37. CASE BeginRinse
    BY <2>37 DEF BeginRinse
  <2> QED
    BY <2>1, <2>2, <2>3, <2>4, <2>5, <2>6, <2>7, <2>8, <2>9, <2>10, <2>11,
       <2>12, <2>13, <2>14, <2>15, <2>16, <2>17, <2>18, <2>19, <2>20, <2>21,
       <2>22, <2>23, <2>24, <2>25, <2>26, <2>27, <2>28, <2>29, <2>30, <2>31,
       <2>32, <2>33, <2>34, <2>35, <2>36, <2>37 DEF Next, Control
<1>1. Init => AlarmCovers
  BY DEF Init, InitDriver, AlarmCovers, ArmingSteps
<1>2. TypeOK /\ ClosedIsPublished /\ AlarmCovers /\ [Next]_vars
        => AlarmCovers'
  BY <1>AlarmStep
<1> QED
  BY <1>1, <1>2, TypeCorrect, PublishedInvariant, PTL DEF Spec

\* With an interrupt that fires when it is due, no contact stays commanded
\* closed longer than the limit it was armed with (independentSafetyTimer).
THEOREM ContactBounded ==
  ASSUME "isr" \in Prompt
  PROVE  Spec => []ContactWithinLimit
<1>1. TypeOK /\ AlarmCovers => ContactWithinLimit
  BY HardMaxAssumption, LimitsAssumption
  DEF TypeOK, DriverValuesOK, Timer, AlarmCovers, ContactWithinLimit
<1> QED
  BY <1>1, TypeCorrect, AlarmInvariant, PTL

-----------------------------------------------------------------------------
(* A closed circuit belongs to a cycle *)

\* A closed circuit has a cycle that will open it.
THEOREM ClosedIsOwned == Spec => []ClosedBelongsToCycle
\* Every step keeps the circuit, closed or being closed, within a cycle.
<1>OwnerStep. ASSUME TypeOK, ClosedIsPublished, CloseBelongsToCycle,
                     ClosedBelongsToCycle, [Next]_vars
              PROVE  CloseBelongsToCycle' /\ ClosedBelongsToCycle'
  <2> USE <1>OwnerStep
  <2> USE DEF TypeOK, DriverValuesOK, LoopValuesOK, Steps, Calls, States,
              Timer, OpenSteps, ArmingSteps, ClosedIsPublished,
              CloseBelongsToCycle, ClosedBelongsToCycle
  <2>1. CASE Boot
    BY <2>1 DEF Boot
  <2>2. CASE Service
    BY <2>2 DEF Service, TripLocked
  <2>3. CASE ReassertRead
    BY <2>3 DEF ReassertRead, ReassertDone, ReturnFromClose, StartCalls
  <2>4. CASE ReassertWrite
    BY <2>4 DEF ReassertWrite
  <2>5. CASE ReassertCheck
    BY <2>5 DEF ReassertCheck, DesyncRemains, TripLocked, ReassertDone,
       ReturnFromClose, StartCalls
  <2>6. CASE Deadline
    BY <2>6 DEF Deadline, TripLocked, DeadlinePassed
  <2>7. CASE StopTimersAfterTrip
    BY <2>7 DEF StopTimersAfterTrip, StopTimers, ReturnFromTrip,
       ReturnFromClose, StartCalls
  <2>8. CASE Restore
    BY <2>8 DEF Restore, TripLocked
  <2>9. CASE Restart
    BY <2>9 DEF Restart
  <2>10. CASE SampleInput
    BY <2>10 DEF SampleInput
  <2>11. CASE MirrorOff
    BY <2>11 DEF MirrorOff
  <2>12. CASE MirrorOn
    BY <2>12 DEF MirrorOn
  <2>13. CASE Close
    <3>0. pc = "close" /\ sessionActive
      BY <2>13 DEF Close
    <3>1. CASE circuitClosed
      BY <2>13, <3>0, <3>1 DEF Close
    <3>2. CASE ~circuitClosed /\ relaySafetyState = "LOCKOUT"
      <4>1. ReturnFromClose(FALSE) /\ UNCHANGED driverVars
        BY <2>13, <3>2 DEF Close
      <4> QED
        BY <3>2, <4>1 DEF ReturnFromClose
    <3>3. CASE ~circuitClosed /\ relaySafetyState # "LOCKOUT" /\ watchdogFault
      BY <2>13, <3>0, <3>3 DEF Close, TripLocked
    <3>4. CASE ~circuitClosed /\ relaySafetyState # "LOCKOUT" /\ ~watchdogFault
      BY <2>13, <3>0, <3>4 DEF Close
    <3> QED
      BY <3>1, <3>2, <3>3, <3>4
  <2>14. CASE CloseStopTimers
    BY <2>14 DEF CloseStopTimers, StopTimers
  <2>15. CASE Publish
    BY <2>15 DEF Publish, PublishArming
  <2>16. CASE ArmIsr
    BY <2>16 DEF ArmIsr, ArmIndependentTimer
  <2>17. CASE ArmService
    BY <2>17 DEF ArmService, ArmServiceTimers
  <2>18. CASE ArmFailed
    BY <2>18 DEF ArmFailed, TripLocked
  <2>19. CASE Commit
    <3>0. pc = "commit" /\ sessionActive /\ ~circuitClosed
      BY <2>19 DEF Commit
    <3>1. CASE MayCommit
      <4>1. ReturnFromClose(TRUE)
        BY <2>19, <3>1 DEF Commit
      <4> QED
        BY <3>0, <4>1 DEF ReturnFromClose
    <3>2. CASE ~MayCommit
      BY <2>19, <3>0, <3>2 DEF Commit
    <3> QED
      BY <3>1, <3>2
  <2>20. CASE Cancel
    BY <2>20 DEF Cancel, StopTimers, ReturnFromClose, StartCalls
  <2>21. CASE Open
    BY <2>21 DEF Open, OpenCircuit
  <2>22. CASE OpenStopTimers
    BY <2>22 DEF OpenStopTimers, StopTimers, ReturnFromOpen
  <2>23. CASE Policy
    BY <2>23 DEF Policy
  <2>24. CASE HandleGlobal
    BY <2>24 DEF HandleGlobal, EndTripped
  <2>25. CASE HandleGlobalStop
    BY <2>25 DEF HandleGlobalStop, EndTripped
  <2>26. CASE HandleOperational
    BY <2>26 DEF HandleOperational, EndTripped
  <2>27. CASE WebCommand
    BY <2>27 DEF WebCommand
  <2>28. CASE Feed
    BY <2>28 DEF Feed, TripLocked
  <2>29. CASE Reboot
    BY <2>29 DEF Reboot, ResetTo, ResetDriver, StopTimers
  <2>30. CASE ISR
    BY <2>30 DEF ISR, SafetyTimerISR, CommandedClosed
  <2>31. CASE ServiceTimers
    BY <2>31 DEF ServiceTimers, DueCallback, HardTimerCallback,
       OperationalTimerCallback, DelayedCallback, TripLocked, CommandedClosed, OperationalDeadline
  <2>32. CASE Tick
    BY <2>32 DEF Tick, Elapse, CountDown, AtMost
  <2>33. CASE OtherTasks
    BY <2>33 DEF OtherTasks
  <2>34. CASE GpioGlitch
    BY <2>34 DEF GpioGlitch
  <2>35. CASE Crash
    BY <2>35 DEF Crash, ResetTo, ResetDriver, StopTimers
  <2>36. CASE UNCHANGED vars
    BY <2>36 DEF vars
  <2>37. CASE BeginRinse
    BY <2>37 DEF BeginRinse
  <2> QED
    BY <2>1, <2>2, <2>3, <2>4, <2>5, <2>6, <2>7, <2>8, <2>9, <2>10, <2>11,
       <2>12, <2>13, <2>14, <2>15, <2>16, <2>17, <2>18, <2>19, <2>20, <2>21,
       <2>22, <2>23, <2>24, <2>25, <2>26, <2>27, <2>28, <2>29, <2>30, <2>31,
       <2>32, <2>33, <2>34, <2>35, <2>36, <2>37 DEF Next, Control
<1>1. Init => CloseBelongsToCycle /\ ClosedBelongsToCycle
  BY DEF Init, InitDriver, CloseBelongsToCycle, ClosedBelongsToCycle
<1>2. /\ TypeOK /\ ClosedIsPublished
      /\ CloseBelongsToCycle /\ ClosedBelongsToCycle
      /\ [Next]_vars
      => CloseBelongsToCycle' /\ ClosedBelongsToCycle'
  BY <1>OwnerStep
<1> QED
  BY <1>1, <1>2, TypeCorrect, PublishedInvariant, PTL DEF Spec

-----------------------------------------------------------------------------
(* A lockout lasts *)

\* A lockout lasts until the next boot, with the circuit open.
THEOREM LockoutLasts == Spec => LockoutLatched
\* No step enters a close, or a trip, that could leave the lockout.
<1>LockoutStep. ASSUME TypeOK, ClosedIsPublished, LockoutBarsClose, [Next]_vars
                PROVE  LockoutBarsClose'
  <2> USE <1>LockoutStep
  <2> USE DEF TypeOK, DriverValuesOK, LoopValuesOK, Steps, Calls, States,
              Timer, OpenSteps, ArmingSteps, ClosedIsPublished,
              LockoutBarsClose
  <2>1. CASE Boot
    BY <2>1 DEF Boot
  <2>2. CASE Service
    BY <2>2 DEF Service, TripLocked
  <2>3. CASE ReassertRead
    BY <2>3 DEF ReassertRead, ReassertDone, ReturnFromClose, StartCalls
  <2>4. CASE ReassertWrite
    BY <2>4 DEF ReassertWrite
  <2>5. CASE ReassertCheck
    BY <2>5 DEF ReassertCheck, DesyncRemains, TripLocked, ReassertDone,
       ReturnFromClose, StartCalls
  <2>6. CASE Deadline
    BY <2>6 DEF Deadline, TripLocked, DeadlinePassed
  <2>7. CASE StopTimersAfterTrip
    BY <2>7 DEF StopTimersAfterTrip, StopTimers, ReturnFromTrip,
       ReturnFromClose, StartCalls
  <2>8. CASE Restore
    BY <2>8 DEF Restore, TripLocked
  <2>9. CASE Restart
    BY <2>9 DEF Restart
  <2>10. CASE SampleInput
    BY <2>10 DEF SampleInput
  <2>11. CASE MirrorOff
    BY <2>11 DEF MirrorOff
  <2>12. CASE MirrorOn
    BY <2>12 DEF MirrorOn
  <2>13. CASE Close
    BY <2>13 DEF Close, TripLocked, ReturnFromClose, StartCalls
  <2>14. CASE CloseStopTimers
    BY <2>14 DEF CloseStopTimers, StopTimers
  <2>15. CASE Publish
    BY <2>15 DEF Publish, PublishArming
  <2>16. CASE ArmIsr
    BY <2>16 DEF ArmIsr, ArmIndependentTimer
  <2>17. CASE ArmService
    BY <2>17 DEF ArmService, ArmServiceTimers
  <2>18. CASE ArmFailed
    BY <2>18 DEF ArmFailed, TripLocked
  <2>19. CASE Commit
    BY <2>19 DEF Commit, CommitClose, MayCommit, ReturnFromClose, StartCalls
  <2>20. CASE Cancel
    BY <2>20 DEF Cancel, StopTimers, ReturnFromClose, StartCalls
  <2>21. CASE Open
    BY <2>21 DEF Open, OpenCircuit
  <2>22. CASE OpenStopTimers
    BY <2>22 DEF OpenStopTimers, StopTimers, ReturnFromOpen
  <2>23. CASE Policy
    BY <2>23 DEF Policy
  <2>24. CASE HandleGlobal
    BY <2>24 DEF HandleGlobal, EndTripped
  <2>25. CASE HandleGlobalStop
    BY <2>25 DEF HandleGlobalStop, EndTripped
  <2>26. CASE HandleOperational
    BY <2>26 DEF HandleOperational, EndTripped
  <2>27. CASE WebCommand
    BY <2>27 DEF WebCommand
  <2>28. CASE Feed
    BY <2>28 DEF Feed, TripLocked
  <2>29. CASE Reboot
    BY <2>29 DEF Reboot, ResetTo, ResetDriver, StopTimers
  <2>30. CASE ISR
    BY <2>30 DEF ISR, SafetyTimerISR, CommandedClosed
  <2>31. CASE ServiceTimers
    BY <2>31 DEF ServiceTimers, DueCallback, HardTimerCallback,
       OperationalTimerCallback, DelayedCallback, TripLocked, CommandedClosed, OperationalDeadline
  <2>32. CASE Tick
    BY <2>32 DEF Tick, Elapse, CountDown, AtMost
  <2>33. CASE OtherTasks
    BY <2>33 DEF OtherTasks
  <2>34. CASE GpioGlitch
    BY <2>34 DEF GpioGlitch
  <2>35. CASE Crash
    BY <2>35 DEF Crash, ResetTo, ResetDriver, StopTimers
  <2>36. CASE UNCHANGED vars
    BY <2>36 DEF vars
  <2>37. CASE BeginRinse
    BY <2>37 DEF BeginRinse
  <2> QED
    BY <2>1, <2>2, <2>3, <2>4, <2>5, <2>6, <2>7, <2>8, <2>9, <2>10, <2>11,
       <2>12, <2>13, <2>14, <2>15, <2>16, <2>17, <2>18, <2>19, <2>20, <2>21,
       <2>22, <2>23, <2>24, <2>25, <2>26, <2>27, <2>28, <2>29, <2>30, <2>31,
       <2>32, <2>33, <2>34, <2>35, <2>36, <2>37 DEF Next, Control
\* No step but a reset leaves the lockout.
<1>LockoutHeld. ASSUME TypeOK, ClosedIsPublished, LockoutBarsClose, relaySafetyState =
                       "LOCKOUT", pc' # "boot", [Next]_vars
                PROVE  relaySafetyState' = "LOCKOUT" /\ ~circuitClosed'
  <2> USE <1>LockoutHeld
  <2> USE DEF TypeOK, DriverValuesOK, LoopValuesOK, Steps, Calls, States,
              Timer, OpenSteps, ArmingSteps, ClosedIsPublished,
              LockoutBarsClose
  <2>1. CASE Boot
    BY <2>1 DEF Boot
  <2>2. CASE Service
    BY <2>2 DEF Service, TripLocked
  <2>3. CASE ReassertRead
    BY <2>3 DEF ReassertRead, ReassertDone, ReturnFromClose, StartCalls
  <2>4. CASE ReassertWrite
    BY <2>4 DEF ReassertWrite
  <2>5. CASE ReassertCheck
    BY <2>5 DEF ReassertCheck, DesyncRemains, TripLocked, ReassertDone,
       ReturnFromClose, StartCalls
  <2>6. CASE Deadline
    BY <2>6 DEF Deadline, TripLocked, DeadlinePassed
  <2>7. CASE StopTimersAfterTrip
    BY <2>7 DEF StopTimersAfterTrip, StopTimers, ReturnFromTrip,
       ReturnFromClose, StartCalls
  <2>8. CASE Restore
    BY <2>8 DEF Restore, TripLocked
  <2>9. CASE Restart
    BY <2>9 DEF Restart
  <2>10. CASE SampleInput
    BY <2>10 DEF SampleInput
  <2>11. CASE MirrorOff
    BY <2>11 DEF MirrorOff
  <2>12. CASE MirrorOn
    BY <2>12 DEF MirrorOn
  <2>13. CASE Close
    BY <2>13 DEF Close, TripLocked, ReturnFromClose, StartCalls
  <2>14. CASE CloseStopTimers
    BY <2>14 DEF CloseStopTimers, StopTimers
  <2>15. CASE Publish
    BY <2>15 DEF Publish, PublishArming
  <2>16. CASE ArmIsr
    BY <2>16 DEF ArmIsr, ArmIndependentTimer
  <2>17. CASE ArmService
    BY <2>17 DEF ArmService, ArmServiceTimers
  <2>18. CASE ArmFailed
    BY <2>18 DEF ArmFailed, TripLocked
  <2>19. CASE Commit
    BY <2>19 DEF Commit, CommitClose, MayCommit, ReturnFromClose, StartCalls
  <2>20. CASE Cancel
    BY <2>20 DEF Cancel, StopTimers, ReturnFromClose, StartCalls
  <2>21. CASE Open
    BY <2>21 DEF Open, OpenCircuit
  <2>22. CASE OpenStopTimers
    BY <2>22 DEF OpenStopTimers, StopTimers, ReturnFromOpen
  <2>23. CASE Policy
    BY <2>23 DEF Policy
  <2>24. CASE HandleGlobal
    BY <2>24 DEF HandleGlobal, EndTripped
  <2>25. CASE HandleGlobalStop
    BY <2>25 DEF HandleGlobalStop, EndTripped
  <2>26. CASE HandleOperational
    BY <2>26 DEF HandleOperational, EndTripped
  <2>27. CASE WebCommand
    BY <2>27 DEF WebCommand
  <2>28. CASE Feed
    BY <2>28 DEF Feed, TripLocked
  <2>29. CASE Reboot
    BY <2>29 DEF Reboot, ResetTo, ResetDriver, StopTimers
  <2>30. CASE ISR
    BY <2>30 DEF ISR, SafetyTimerISR, CommandedClosed
  <2>31. CASE ServiceTimers
    BY <2>31 DEF ServiceTimers, DueCallback, HardTimerCallback,
       OperationalTimerCallback, DelayedCallback, TripLocked, CommandedClosed, OperationalDeadline
  <2>32. CASE Tick
    BY <2>32 DEF Tick, Elapse, CountDown, AtMost
  <2>33. CASE OtherTasks
    BY <2>33 DEF OtherTasks
  <2>34. CASE GpioGlitch
    BY <2>34 DEF GpioGlitch
  <2>35. CASE Crash
    BY <2>35 DEF Crash, ResetTo, ResetDriver, StopTimers
  <2>36. CASE UNCHANGED vars
    BY <2>36 DEF vars
  <2>37. CASE BeginRinse
    BY <2>37 DEF BeginRinse
  <2> QED
    BY <2>1, <2>2, <2>3, <2>4, <2>5, <2>6, <2>7, <2>8, <2>9, <2>10, <2>11,
       <2>12, <2>13, <2>14, <2>15, <2>16, <2>17, <2>18, <2>19, <2>20, <2>21,
       <2>22, <2>23, <2>24, <2>25, <2>26, <2>27, <2>28, <2>29, <2>30, <2>31,
       <2>32, <2>33, <2>34, <2>35, <2>36, <2>37 DEF Next, Control
<1>1. Init => LockoutBarsClose
  BY DEF Init, InitDriver, LockoutBarsClose
<1>2. TypeOK /\ ClosedIsPublished /\ LockoutBarsClose /\ [Next]_vars
        => LockoutBarsClose'
  BY <1>LockoutStep
<1>3. TypeOK /\ ClosedIsPublished /\ LockoutBarsClose /\ [Next]_vars
        => [relaySafetyState = "LOCKOUT" /\ pc' # "boot"
              => relaySafetyState' = "LOCKOUT" /\ ~circuitClosed']_vars
  BY <1>LockoutHeld
<1> QED
  BY <1>1, <1>2, <1>3, TypeCorrect, PublishedInvariant, PTL
  DEF Spec, LockoutLatched

-----------------------------------------------------------------------------
(* A cancelled close stays open *)

\* A deadline inside the close transaction keeps K1 open.
THEOREM CancelledStays == Spec => CancelledCloseStaysOpen
\* Every step keeps the pin of a cancelled close open.
<1>CancelledStep. ASSUME TypeOK, ClosedIsPublished, CancelledIsOpen, [Next]_vars
                  PROVE  CancelledIsOpen'
  <2> USE <1>CancelledStep
  <2> USE DEF TypeOK, DriverValuesOK, LoopValuesOK, Steps, Calls, States,
              Timer, OpenSteps, ArmingSteps, ClosedIsPublished,
              CancelledIsOpen
  <2>1. CASE Boot
    BY <2>1 DEF Boot
  <2>2. CASE Service
    BY <2>2 DEF Service, TripLocked
  <2>3. CASE ReassertRead
    BY <2>3 DEF ReassertRead, ReassertDone, ReturnFromClose, StartCalls
  <2>4. CASE ReassertWrite
    BY <2>4 DEF ReassertWrite
  <2>5. CASE ReassertCheck
    BY <2>5 DEF ReassertCheck, DesyncRemains, TripLocked, ReassertDone,
       ReturnFromClose, StartCalls
  <2>6. CASE Deadline
    BY <2>6 DEF Deadline, TripLocked, DeadlinePassed
  <2>7. CASE StopTimersAfterTrip
    BY <2>7 DEF StopTimersAfterTrip, StopTimers, ReturnFromTrip,
       ReturnFromClose, StartCalls
  <2>8. CASE Restore
    BY <2>8 DEF Restore, TripLocked
  <2>9. CASE Restart
    BY <2>9 DEF Restart
  <2>10. CASE SampleInput
    BY <2>10 DEF SampleInput
  <2>11. CASE MirrorOff
    BY <2>11 DEF MirrorOff
  <2>12. CASE MirrorOn
    BY <2>12 DEF MirrorOn
  <2>13. CASE Close
    BY <2>13 DEF Close, TripLocked, ReturnFromClose, StartCalls
  <2>14. CASE CloseStopTimers
    BY <2>14 DEF CloseStopTimers, StopTimers
  <2>15. CASE Publish
    BY <2>15 DEF Publish, PublishArming
  <2>16. CASE ArmIsr
    BY <2>16 DEF ArmIsr, ArmIndependentTimer
  <2>17. CASE ArmService
    BY <2>17 DEF ArmService, ArmServiceTimers
  <2>18. CASE ArmFailed
    BY <2>18 DEF ArmFailed, TripLocked
  <2>19. CASE Commit
    BY <2>19 DEF Commit, CommitClose, MayCommit, ReturnFromClose, StartCalls
  <2>20. CASE Cancel
    BY <2>20 DEF Cancel, StopTimers, ReturnFromClose, StartCalls
  <2>21. CASE Open
    BY <2>21 DEF Open, OpenCircuit
  <2>22. CASE OpenStopTimers
    BY <2>22 DEF OpenStopTimers, StopTimers, ReturnFromOpen
  <2>23. CASE Policy
    BY <2>23 DEF Policy
  <2>24. CASE HandleGlobal
    BY <2>24 DEF HandleGlobal, EndTripped
  <2>25. CASE HandleGlobalStop
    BY <2>25 DEF HandleGlobalStop, EndTripped
  <2>26. CASE HandleOperational
    BY <2>26 DEF HandleOperational, EndTripped
  <2>27. CASE WebCommand
    BY <2>27 DEF WebCommand
  <2>28. CASE Feed
    BY <2>28 DEF Feed, TripLocked
  <2>29. CASE Reboot
    BY <2>29 DEF Reboot, ResetTo, ResetDriver, StopTimers
  <2>30. CASE ISR
    BY <2>30 DEF ISR, SafetyTimerISR, CommandedClosed
  <2>31. CASE ServiceTimers
    BY <2>31 DEF ServiceTimers, DueCallback, HardTimerCallback,
       OperationalTimerCallback, DelayedCallback, TripLocked, CommandedClosed, OperationalDeadline
  <2>32. CASE Tick
    BY <2>32 DEF Tick, Elapse, CountDown, AtMost
  <2>33. CASE OtherTasks
    BY <2>33 DEF OtherTasks
  <2>34. CASE GpioGlitch
    BY <2>34 DEF GpioGlitch
  <2>35. CASE Crash
    BY <2>35 DEF Crash, ResetTo, ResetDriver, StopTimers
  <2>36. CASE UNCHANGED vars
    BY <2>36 DEF vars
  <2>37. CASE BeginRinse
    BY <2>37 DEF BeginRinse
  <2> QED
    BY <2>1, <2>2, <2>3, <2>4, <2>5, <2>6, <2>7, <2>8, <2>9, <2>10, <2>11,
       <2>12, <2>13, <2>14, <2>15, <2>16, <2>17, <2>18, <2>19, <2>20, <2>21,
       <2>22, <2>23, <2>24, <2>25, <2>26, <2>27, <2>28, <2>29, <2>30, <2>31,
       <2>32, <2>33, <2>34, <2>35, <2>36, <2>37 DEF Next, Control
\* No step energizes K1 or closes the circuit of a cancelled close.
<1>CancelledHeld. ASSUME TypeOK, ClosedIsPublished, CancelledIsOpen, relaySafetyState =
                         "TRIPPED", pc \in ArmingSteps, [Next]_vars
                  PROVE  ~pinClosed' /\ ~circuitClosed'
  <2> USE <1>CancelledHeld
  <2> USE DEF TypeOK, DriverValuesOK, LoopValuesOK, Steps, Calls, States,
              Timer, OpenSteps, ArmingSteps, ClosedIsPublished,
              CancelledIsOpen
  <2>1. CASE Boot
    BY <2>1 DEF Boot
  <2>2. CASE Service
    BY <2>2 DEF Service, TripLocked
  <2>3. CASE ReassertRead
    BY <2>3 DEF ReassertRead, ReassertDone, ReturnFromClose, StartCalls
  <2>4. CASE ReassertWrite
    BY <2>4 DEF ReassertWrite
  <2>5. CASE ReassertCheck
    BY <2>5 DEF ReassertCheck, DesyncRemains, TripLocked, ReassertDone,
       ReturnFromClose, StartCalls
  <2>6. CASE Deadline
    BY <2>6 DEF Deadline, TripLocked, DeadlinePassed
  <2>7. CASE StopTimersAfterTrip
    BY <2>7 DEF StopTimersAfterTrip, StopTimers, ReturnFromTrip,
       ReturnFromClose, StartCalls
  <2>8. CASE Restore
    BY <2>8 DEF Restore, TripLocked
  <2>9. CASE Restart
    BY <2>9 DEF Restart
  <2>10. CASE SampleInput
    BY <2>10 DEF SampleInput
  <2>11. CASE MirrorOff
    BY <2>11 DEF MirrorOff
  <2>12. CASE MirrorOn
    BY <2>12 DEF MirrorOn
  <2>13. CASE Close
    BY <2>13 DEF Close, TripLocked, ReturnFromClose, StartCalls
  <2>14. CASE CloseStopTimers
    BY <2>14 DEF CloseStopTimers, StopTimers
  <2>15. CASE Publish
    BY <2>15 DEF Publish, PublishArming
  <2>16. CASE ArmIsr
    BY <2>16 DEF ArmIsr, ArmIndependentTimer
  <2>17. CASE ArmService
    BY <2>17 DEF ArmService, ArmServiceTimers
  <2>18. CASE ArmFailed
    BY <2>18 DEF ArmFailed, TripLocked
  <2>19. CASE Commit
    BY <2>19 DEF Commit, CommitClose, MayCommit, ReturnFromClose, StartCalls
  <2>20. CASE Cancel
    BY <2>20 DEF Cancel, StopTimers, ReturnFromClose, StartCalls
  <2>21. CASE Open
    BY <2>21 DEF Open, OpenCircuit
  <2>22. CASE OpenStopTimers
    BY <2>22 DEF OpenStopTimers, StopTimers, ReturnFromOpen
  <2>23. CASE Policy
    BY <2>23 DEF Policy
  <2>24. CASE HandleGlobal
    BY <2>24 DEF HandleGlobal, EndTripped
  <2>25. CASE HandleGlobalStop
    BY <2>25 DEF HandleGlobalStop, EndTripped
  <2>26. CASE HandleOperational
    BY <2>26 DEF HandleOperational, EndTripped
  <2>27. CASE WebCommand
    BY <2>27 DEF WebCommand
  <2>28. CASE Feed
    BY <2>28 DEF Feed, TripLocked
  <2>29. CASE Reboot
    BY <2>29 DEF Reboot, ResetTo, ResetDriver, StopTimers
  <2>30. CASE ISR
    BY <2>30 DEF ISR, SafetyTimerISR, CommandedClosed
  <2>31. CASE ServiceTimers
    BY <2>31 DEF ServiceTimers, DueCallback, HardTimerCallback,
       OperationalTimerCallback, DelayedCallback, TripLocked, CommandedClosed, OperationalDeadline
  <2>32. CASE Tick
    BY <2>32 DEF Tick, Elapse, CountDown, AtMost
  <2>33. CASE OtherTasks
    BY <2>33 DEF OtherTasks
  <2>34. CASE GpioGlitch
    BY <2>34 DEF GpioGlitch
  <2>35. CASE Crash
    BY <2>35 DEF Crash, ResetTo, ResetDriver, StopTimers
  <2>36. CASE UNCHANGED vars
    BY <2>36 DEF vars
  <2>37. CASE BeginRinse
    BY <2>37 DEF BeginRinse
  <2> QED
    BY <2>1, <2>2, <2>3, <2>4, <2>5, <2>6, <2>7, <2>8, <2>9, <2>10, <2>11,
       <2>12, <2>13, <2>14, <2>15, <2>16, <2>17, <2>18, <2>19, <2>20, <2>21,
       <2>22, <2>23, <2>24, <2>25, <2>26, <2>27, <2>28, <2>29, <2>30, <2>31,
       <2>32, <2>33, <2>34, <2>35, <2>36, <2>37 DEF Next, Control
<1>1. Init => CancelledIsOpen
  BY DEF Init, InitDriver, CancelledIsOpen, ArmingSteps
<1>2. TypeOK /\ ClosedIsPublished /\ CancelledIsOpen /\ [Next]_vars
        => CancelledIsOpen'
  BY <1>CancelledStep
<1>3. TypeOK /\ ClosedIsPublished /\ CancelledIsOpen /\ [Next]_vars
        => [relaySafetyState = "TRIPPED" /\ pc \in ArmingSteps
              => ~pinClosed' /\ ~circuitClosed']_vars
  BY <1>CancelledHeld
<1> QED
  BY <1>1, <1>2, <1>3, TypeCorrect, PublishedInvariant, PTL
  DEF Spec, CancelledCloseStaysOpen

-----------------------------------------------------------------------------
(* The driver implements the lease *)

\* The relay driver, with everything that can happen around it, implements the
\* lease: a close is granted for a limit and is never kept longer.
THEOREM ImplementsLease ==
  ASSUME "isr" \in Prompt
  PROVE  Spec => LeaseSpec
\* A step that leaves the commanded circuit alone stutters in the lease.
<1>LeaseUnchanged. ASSUME UNCHANGED <<circuitClosed, operationalLimitAtArm, contactAge>>
                   PROVE  UNCHANGED Lease!vars
  BY <1>LeaseUnchanged DEF Lease!vars
\* A step that leaves the circuit open ends a lease or stutters.
<1>LeaseOpened. ASSUME ~circuitClosed', TypeOK, TypeOK'
                PROVE  [Lease!Next]_(Lease!vars)
  <2> USE <1>LeaseOpened
  <2>1. circuitClosed \in BOOLEAN /\ circuitClosed' = FALSE
    BY Zenon DEF TypeOK, DriverFlagsOK
  <2>2. CASE circuitClosed
    BY <2>1, <2>2 DEF Lease!Next, Lease!Open
  <2>3. CASE ~circuitClosed
    BY <2>1, <2>3 DEF Lease!vars
  <2> QED
    BY <2>2, <2>3
\* Every step grants, spends or ends a lease, or leaves it alone.
<1>LeaseStep. ASSUME TypeOK, TypeOK', "isr" \in Prompt, ClosedIsPublished, AlarmCovers,
                     [Next]_vars
              PROVE  [Lease!Next]_(Lease!vars)
  <2> USE <1>LeaseStep
  <2>1. CASE Boot
    BY <2>1, <1>LeaseUnchanged DEF Boot
  <2>2. CASE Service
    BY <2>2, <1>LeaseUnchanged, <1>LeaseOpened DEF Service, TripLocked
  <2>3. CASE ReassertRead
    BY <2>3, <1>LeaseUnchanged DEF ReassertRead, ReassertDone
  <2>4. CASE ReassertWrite
    BY <2>4, <1>LeaseUnchanged DEF ReassertWrite
  <2>5. CASE ReassertCheck
    BY <2>5, <1>LeaseUnchanged, <1>LeaseOpened DEF ReassertCheck, DesyncRemains,
       TripLocked, ReassertDone
  <2>6. CASE Deadline
    BY <2>6, <1>LeaseUnchanged, <1>LeaseOpened DEF Deadline, TripLocked
  <2>7. CASE StopTimersAfterTrip
    BY <2>7, <1>LeaseUnchanged DEF StopTimersAfterTrip, StopTimers
  <2>8. CASE Restore
    BY <2>8, <1>LeaseUnchanged, <1>LeaseOpened DEF Restore, TripLocked
  <2>9. CASE Restart
    BY <2>9, <1>LeaseUnchanged DEF Restart
  <2>10. CASE SampleInput
    BY <2>10, <1>LeaseUnchanged DEF SampleInput
  <2>11. CASE MirrorOff
    BY <2>11, <1>LeaseUnchanged DEF MirrorOff
  <2>12. CASE MirrorOn
    BY <2>12, <1>LeaseUnchanged DEF MirrorOn
  <2>13. CASE Close
    BY <2>13, <1>LeaseUnchanged, <1>LeaseOpened DEF Close, TripLocked
  <2>14. CASE CloseStopTimers
    BY <2>14, <1>LeaseUnchanged DEF CloseStopTimers, StopTimers
  <2>15. CASE Publish
    BY <2>15, <1>LeaseOpened DEF Publish, PublishArming
  <2>16. CASE ArmIsr
    BY <2>16, <1>LeaseUnchanged DEF ArmIsr, ArmIndependentTimer
  <2>17. CASE ArmService
    BY <2>17, <1>LeaseUnchanged DEF ArmService, ArmServiceTimers
  <2>18. CASE ArmFailed
    BY <2>18, <1>LeaseOpened DEF ArmFailed, TripLocked
  <2>19. CASE Commit
    <3>1. CASE MayCommit
      <4>1. /\ ~circuitClosed /\ circuitClosed' = TRUE
            /\ contactAge' = 0 /\ UNCHANGED operationalLimitAtArm
        BY <2>19, <3>1
        DEF Commit, CommitClose, ClosedIsPublished, OpenSteps
      <4>2. circuitClosed = FALSE
        BY <4>1, Zenon DEF TypeOK, DriverFlagsOK
      <4>3. /\ operationalLimitAtArm \in Limits \cup {HardMax}
            /\ operationalLimitAtArm \in Int
        BY HardMaxAssumption, LimitsAssumption DEF TypeOK, DriverValuesOK
      <4> QED
        BY <4>1, <4>2, <4>3 DEF Lease!Next, Lease!Grant
    <3>2. CASE ~MayCommit
      BY <2>19, <3>2, <1>LeaseUnchanged DEF Commit
    <3> QED
      BY <3>1, <3>2
  <2>20. CASE Cancel
    BY <2>20, <1>LeaseUnchanged DEF Cancel, StopTimers
  <2>21. CASE Open
    BY <2>21, <1>LeaseOpened DEF Open, OpenCircuit
  <2>22. CASE OpenStopTimers
    BY <2>22, <1>LeaseUnchanged DEF OpenStopTimers, StopTimers
  <2>23. CASE Policy
    BY <2>23, <1>LeaseUnchanged DEF Policy
  <2>24. CASE HandleGlobal
    BY <2>24, <1>LeaseUnchanged DEF HandleGlobal
  <2>25. CASE HandleGlobalStop
    BY <2>25, <1>LeaseUnchanged DEF HandleGlobalStop
  <2>26. CASE HandleOperational
    BY <2>26, <1>LeaseUnchanged DEF HandleOperational
  <2>27. CASE WebCommand
    BY <2>27, <1>LeaseUnchanged DEF WebCommand
  <2>28. CASE Feed
    BY <2>28, <1>LeaseUnchanged, <1>LeaseOpened DEF Feed, TripLocked
  <2>29. CASE Reboot
    BY <2>29, <1>LeaseOpened DEF Reboot, ResetTo, ResetDriver, StopTimers
  <2>30. CASE ISR
    BY <2>30, <1>LeaseUnchanged, <1>LeaseOpened DEF ISR, SafetyTimerISR,
       CommandedClosed
  <2>31. CASE ServiceTimers
    BY <2>31, <1>LeaseUnchanged, <1>LeaseOpened DEF ServiceTimers,
       DueCallback, HardTimerCallback, OperationalTimerCallback,
       DelayedCallback, TripLocked,
       CommandedClosed, OperationalDeadline
  <2>32. CASE Tick
    <3>1. CASE circuitClosed
      <4>1. /\ gptimer > 0 /\ contactAge + gptimer <= operationalLimitAtArm
            /\ operationalLimitAtArm \in 1 .. HardMax
            /\ contactAge \in Nat /\ gptimer \in Int
        BY <2>32, <3>1, HardMaxAssumption, LimitsAssumption
        DEF Tick, AlarmCovers, TypeOK, DriverValuesOK, Timer
      <4>2. /\ contactAge' = contactAge + 1
            /\ UNCHANGED <<circuitClosed, operationalLimitAtArm>>
        BY <2>32, <3>1, <4>1, HardMaxAssumption DEF Tick, Elapse, AtMost
      <4> QED
        BY <3>1, <4>1, <4>2 DEF Lease!Next, Lease!Pass
    <3>2. CASE ~circuitClosed
      BY <2>32, <3>2, <1>LeaseUnchanged DEF Tick, Elapse
    <3> QED
      BY <3>1, <3>2
  <2>33. CASE OtherTasks
    BY <2>33, <1>LeaseUnchanged DEF OtherTasks
  <2>34. CASE GpioGlitch
    BY <2>34, <1>LeaseUnchanged DEF GpioGlitch
  <2>35. CASE Crash
    BY <2>35, <1>LeaseOpened DEF Crash, ResetTo, ResetDriver, StopTimers
  <2>36. CASE UNCHANGED vars
    BY <2>36, <1>LeaseUnchanged DEF vars
  <2>37. CASE BeginRinse
    BY <2>37, <1>LeaseUnchanged DEF BeginRinse
  <2> QED
    BY <2>1, <2>2, <2>3, <2>4, <2>5, <2>6, <2>7, <2>8, <2>9, <2>10, <2>11,
       <2>12, <2>13, <2>14, <2>15, <2>16, <2>17, <2>18, <2>19, <2>20, <2>21,
       <2>22, <2>23, <2>24, <2>25, <2>26, <2>27, <2>28, <2>29, <2>30, <2>31,
       <2>32, <2>33, <2>34, <2>35, <2>36, <2>37 DEF Next, Control
<1>1. Init => Lease!Init
  BY Zenon DEF Init, InitDriver, Lease!Init
<1>2. /\ TypeOK /\ TypeOK' /\ ClosedIsPublished /\ AlarmCovers
      /\ [Next]_vars
      => [Lease!Next]_(Lease!vars)
  BY <1>LeaseStep
<1> QED
  BY <1>1, <1>2, TypeCorrect, PublishedInvariant, AlarmInvariant, PTL
  DEF Spec, LeaseSpec, Lease!Spec

-----------------------------------------------------------------------------
(* The mirror keeps the trip *)

\* The ON mirror closes no healthy cycle again: when it closes the circuit, a trip is
\* latched that ends the cycle (applyPaddleRelayDrive, setMachineCircuitClosed).
THEOREM RecloseKeepsTrip == Spec => MirrorRecloseKeepsTrip
\* What opens a circuit between the look of the mirror and the close latches a trip,
\* and the close does not clear it.
<1>SawStep. ASSUME TypeOK, MirrorSawATrip, [Next]_vars
            PROVE  /\ MirrorSawATrip'
                   /\ ~circuitClosed /\ circuitClosed' /\ call = "mirrorOn"
                        => relaySafetyTripped' \/ operationalLimitTripped'
  <2> USE <1>SawStep
  <2> USE DEF TypeOK, DriverValuesOK, LoopValuesOK, DriverFlagsOK, LoopFlagsOK, Steps,
              Calls, States, Timer, ArmingSteps, MirrorSawATrip
  <2>1. CASE Boot
    BY <2>1 DEF Boot
  <2>2. CASE Service
    BY <2>2 DEF Service, TripLocked
  <2>3. CASE ReassertRead
    BY <2>3 DEF ReassertRead, ReassertDone, ReturnFromClose, StartCalls
  <2>4. CASE ReassertWrite
    BY <2>4 DEF ReassertWrite
  <2>5. CASE ReassertCheck
    BY <2>5 DEF ReassertCheck, DesyncRemains, TripLocked, ReassertDone,
       ReturnFromClose, StartCalls
  <2>6. CASE Deadline
    BY <2>6 DEF Deadline, TripLocked, DeadlinePassed
  <2>7. CASE StopTimersAfterTrip
    BY <2>7 DEF StopTimersAfterTrip, StopTimers, ReturnFromTrip,
       ReturnFromClose, StartCalls
  <2>8. CASE Restore
    BY <2>8 DEF Restore, TripLocked
  <2>9. CASE Restart
    BY <2>9 DEF Restart
  <2>10. CASE SampleInput
    BY <2>10 DEF SampleInput
  <2>11. CASE MirrorOff
    BY <2>11 DEF MirrorOff
  <2>12. CASE MirrorOn
    BY <2>12 DEF MirrorOn
  <2>13. CASE Close
    BY <2>13 DEF Close, TripLocked, ReturnFromClose, StartCalls
  <2>14. CASE CloseStopTimers
    BY <2>14 DEF CloseStopTimers, StopTimers
  <2>15. CASE Publish
    BY <2>15 DEF Publish, PublishArming
  <2>16. CASE ArmIsr
    BY <2>16 DEF ArmIsr, ArmIndependentTimer
  <2>17. CASE ArmService
    BY <2>17 DEF ArmService, ArmServiceTimers
  <2>18. CASE ArmFailed
    BY <2>18 DEF ArmFailed, TripLocked
  <2>19. CASE Commit
    BY <2>19 DEF Commit, CommitClose, MayCommit, ReturnFromClose, StartCalls
  <2>20. CASE Cancel
    BY <2>20 DEF Cancel, StopTimers, ReturnFromClose, StartCalls
  <2>21. CASE Open
    BY <2>21 DEF Open, OpenCircuit
  <2>22. CASE OpenStopTimers
    BY <2>22 DEF OpenStopTimers, StopTimers, ReturnFromOpen
  <2>23. CASE Policy
    BY <2>23 DEF Policy
  <2>24. CASE HandleGlobal
    BY <2>24 DEF HandleGlobal, EndTripped
  <2>25. CASE HandleGlobalStop
    BY <2>25 DEF HandleGlobalStop, EndTripped
  <2>26. CASE HandleOperational
    BY <2>26 DEF HandleOperational, EndTripped
  <2>27. CASE WebCommand
    BY <2>27 DEF WebCommand
  <2>28. CASE Feed
    BY <2>28 DEF Feed, TripLocked
  <2>29. CASE Reboot
    BY <2>29 DEF Reboot, ResetTo, ResetDriver, StopTimers
  <2>30. CASE ISR
    <3>1. operationalLimitAtArm >= HardMax \/ operationalLimitAtArm < HardMax
      BY HardMaxAssumption, LimitsAssumption, SMT
    <3>2. CASE CommandedClosed
      <4>1. relaySafetyTripped' \/ operationalLimitTripped'
        BY <2>30, <3>1, <3>2, Zenon DEF ISR, SafetyTimerISR
      <4>2. ~circuitClosed' /\ UNCHANGED <<pc, call, preserveTripFlags>>
        BY <2>30, <3>2 DEF ISR, SafetyTimerISR
      <4> QED
        BY <4>1, <4>2
    <3>3. CASE ~CommandedClosed
      BY <2>30, <3>3 DEF ISR, SafetyTimerISR
    <3> QED
      BY <3>2, <3>3
  <2>31. CASE ServiceTimers
    BY <2>31 DEF ServiceTimers, DueCallback, HardTimerCallback,
       OperationalTimerCallback, DelayedCallback, TripLocked, CommandedClosed, OperationalDeadline
  <2>32. CASE Tick
    BY <2>32 DEF Tick, Elapse, CountDown, AtMost
  <2>33. CASE OtherTasks
    BY <2>33 DEF OtherTasks
  <2>34. CASE GpioGlitch
    BY <2>34 DEF GpioGlitch
  <2>35. CASE Crash
    BY <2>35 DEF Crash, ResetTo, ResetDriver, StopTimers
  <2>36. CASE UNCHANGED vars
    BY <2>36 DEF vars
  <2>37. CASE BeginRinse
    BY <2>37 DEF BeginRinse
  <2> QED
    BY <2>1, <2>2, <2>3, <2>4, <2>5, <2>6, <2>7, <2>8, <2>9, <2>10, <2>11,
       <2>12, <2>13, <2>14, <2>15, <2>16, <2>17, <2>18, <2>19, <2>20, <2>21,
       <2>22, <2>23, <2>24, <2>25, <2>26, <2>27, <2>28, <2>29, <2>30, <2>31,
       <2>32, <2>33, <2>34, <2>35, <2>36, <2>37 DEF Next, Control
<1>1. Init => MirrorSawATrip
  BY DEF Init, MirrorSawATrip
<1>2. TypeOK /\ MirrorSawATrip /\ [Next]_vars => MirrorSawATrip'
  BY <1>SawStep
<1>3. TypeOK /\ MirrorSawATrip /\ [Next]_vars
      => (~circuitClosed /\ circuitClosed' /\ call = "mirrorOn"
             => relaySafetyTripped' \/ operationalLimitTripped')
  BY <1>SawStep
<1> QED
  BY <1>1, <1>2, <1>3, TypeCorrect, PTL DEF Spec, MirrorRecloseKeepsTrip

-----------------------------------------------------------------------------
(* An energized contact *)

\* With a released paddle and no callback that outlives its timer only
\* serviceRelaySafety energizes K1 without a command, on its snapshot and after the
\* deadline, whichever timers are late.
THEOREM ReleasedInvariantHolds ==
  ASSUME PaddlePositions = {FALSE}, ~Delayed
  PROVE  Spec => []ReleasedInvariant
\* The snapshot that rewrites the level is older than a trip only when the deadline has
\* passed, so that the check after it opens the contact again.
<1>ReleasedStep. ASSUME PaddlePositions = {FALSE}, ~Delayed, TypeOK, ClosedIsPublished,
                        ReleasedInvariant, [Next]_vars
                 PROVE  ReleasedInvariant'
  <2> USE <1>ReleasedStep, HardMaxAssumption, LimitsAssumption
  <2> USE DEF TypeOK, DriverValuesOK, LoopValuesOK, DriverFlagsOK, LoopFlagsOK, Steps,
              Calls, States, Timer, ArmingSteps, OpenSteps,
              ReassertSteps, StaleReassert, ClosedIsPublished, ReleasedInvariant,
              EnergizedOnlyWhileCommanded, EnergizedIsMarked, ReassertedByService,
              NoAlarmIsEarly
  <2>1. CASE Boot
    BY <2>1 DEF Boot
  <2>2. CASE Service
    BY <2>2 DEF Service, TripLocked
  <2>3. CASE ReassertRead
    BY <2>3 DEF ReassertRead, ReassertDone, ReturnFromClose, StartCalls
  <2>4. CASE ReassertWrite
    BY <2>4 DEF ReassertWrite
  <2>5. CASE ReassertCheck
    BY <2>5 DEF ReassertCheck, DesyncRemains, TripLocked, ReassertDone,
       ReturnFromClose, StartCalls
  <2>6. CASE Deadline
    BY <2>6 DEF Deadline, TripLocked, DeadlinePassed
  <2>7. CASE StopTimersAfterTrip
    BY <2>7 DEF StopTimersAfterTrip, StopTimers, ReturnFromTrip,
       ReturnFromClose, StartCalls
  <2>8. CASE Restore
    BY <2>8 DEF Restore, TripLocked
  <2>9. CASE Restart
    BY <2>9 DEF Restart
  <2>10. CASE SampleInput
    BY <2>10 DEF SampleInput
  <2>11. CASE MirrorOff
    BY <2>11 DEF MirrorOff
  <2>12. CASE MirrorOn
    BY <2>12 DEF MirrorOn
  <2>13. CASE Close
    BY <2>13 DEF Close, TripLocked, ReturnFromClose, StartCalls
  <2>14. CASE CloseStopTimers
    BY <2>14 DEF CloseStopTimers, StopTimers
  <2>15. CASE Publish
    BY <2>15 DEF Publish, PublishArming
  <2>16. CASE ArmIsr
    BY <2>16 DEF ArmIsr, ArmIndependentTimer
  <2>17. CASE ArmService
    BY <2>17 DEF ArmService, ArmServiceTimers
  <2>18. CASE ArmFailed
    BY <2>18 DEF ArmFailed, TripLocked
  <2>19. CASE Commit
    BY <2>19 DEF Commit, CommitClose, MayCommit, ReturnFromClose, StartCalls
  <2>20. CASE Cancel
    BY <2>20 DEF Cancel, StopTimers, ReturnFromClose, StartCalls
  <2>21. CASE Open
    <3>1. pinClosed' => ~circuitClosed /\ pinClosed
      BY <2>21, Zenon DEF Open, OpenCircuit, AlreadyOpenedBySafety
    <3>2. ~pinClosed'
      BY <2>21, <3>1 DEF Open
    <3>3. /\ pc' = "openStop" /\ ~circuitClosed'
          /\ UNCHANGED <<call, held, gptimer, sinceClosedAt, operationalLimitAtArm>>
      BY <2>21 DEF Open, OpenCircuit
    <3> QED
      BY <3>2, <3>3
  <2>22. CASE OpenStopTimers
    BY <2>22 DEF OpenStopTimers, StopTimers, ReturnFromOpen
  <2>23. CASE Policy
    BY <2>23 DEF Policy
  <2>24. CASE HandleGlobal
    BY <2>24 DEF HandleGlobal, EndTripped
  <2>25. CASE HandleGlobalStop
    BY <2>25 DEF HandleGlobalStop, EndTripped
  <2>26. CASE HandleOperational
    BY <2>26 DEF HandleOperational, EndTripped
  <2>27. CASE WebCommand
    BY <2>27 DEF WebCommand
  <2>28. CASE Feed
    BY <2>28 DEF Feed, TripLocked
  <2>29. CASE Reboot
    BY <2>29 DEF Reboot, ResetTo, ResetDriver, StopTimers
  <2>30. CASE ISR
    BY <2>30 DEF ISR, SafetyTimerISR, CommandedClosed
  <2>31. CASE ServiceTimers
    BY <2>31 DEF ServiceTimers, DueCallback, HardTimerCallback,
       OperationalTimerCallback, DelayedCallback, TripLocked, CommandedClosed, OperationalDeadline
  <2>32. CASE Tick
    BY <2>32 DEF Tick, Elapse, CountDown, AtMost
  <2>33. CASE OtherTasks
    BY <2>33 DEF OtherTasks
  <2>34. CASE GpioGlitch
    BY <2>34 DEF GpioGlitch
  <2>35. CASE Crash
    BY <2>35 DEF Crash, ResetTo, ResetDriver, StopTimers
  <2>36. CASE UNCHANGED vars
    BY <2>36 DEF vars
  <2>37. CASE BeginRinse
    BY <2>37 DEF BeginRinse
  <2> QED
    BY <2>1, <2>2, <2>3, <2>4, <2>5, <2>6, <2>7, <2>8, <2>9, <2>10, <2>11,
       <2>12, <2>13, <2>14, <2>15, <2>16, <2>17, <2>18, <2>19, <2>20, <2>21,
       <2>22, <2>23, <2>24, <2>25, <2>26, <2>27, <2>28, <2>29, <2>30, <2>31,
       <2>32, <2>33, <2>34, <2>35, <2>36, <2>37 DEF Next, Control
<1>1. Init => ReleasedInvariant
  BY DEF Init, InitDriver, ReleasedInvariant, EnergizedOnlyWhileCommanded,
     EnergizedIsMarked, ReassertedByService, NoAlarmIsEarly, StaleReassert, ReassertSteps
<1>2. /\ PaddlePositions = {FALSE} /\ ~Delayed /\ TypeOK /\ ClosedIsPublished
      /\ ReleasedInvariant /\ [Next]_vars
      => ReleasedInvariant'
  BY <1>ReleasedStep
<1> QED
  BY <1>1, <1>2, TypeCorrect, PublishedInvariant, PTL DEF Spec

\* K1 is energized only while the circuit is commanded closed, or between the rewrite
\* of a level and the check that follows it.
THEOREM EnergizedHolds ==
  ASSUME PaddlePositions = {FALSE}, ~Delayed
  PROVE  Spec => []EnergizedOnlyWhileCommanded
<1>1. ReleasedInvariant => EnergizedOnlyWhileCommanded
  BY DEF ReleasedInvariant
<1> QED
  BY <1>1, ReleasedInvariantHolds, PTL

\* A reset that finds K1 energized finds the RTC marker of a close, or falls between
\* that rewrite and its check (beginSafetyResetGuard).
THEOREM MarkedHolds ==
  ASSUME PaddlePositions = {FALSE}, ~Delayed
  PROVE  Spec => []EnergizedIsMarked
<1>1. ReleasedInvariant => EnergizedIsMarked
  BY DEF ReleasedInvariant
<1> QED
  BY <1>1, ReleasedInvariantHolds, PTL
=============================================================================
