---------------------------- MODULE HistoryProofs -----------------------------
(***************************************************************************)
(* The proof that a history that is loaded is the one saved last.          *)
(***************************************************************************)
EXTENDS History, TLAPS

\* Whatever fails or is cut short, a history that is loaded is the one saved last or one
\* whose save was attempted since (save, load and the slots of ShotStopperShotLog.h,
\* ShotStopperShotCurve.h and ShotStopperLastShot.h).
THEOREM LastSaveFound == HistorySpec => []LoadFindsLastSave
\* What a reader finds in the flash
<1>1. Nothing.valid = FALSE
      /\ \A d : Valid(d).valid = TRUE /\ Valid(d).data = d
  BY DEF Nothing, Valid
<1>2. FlashShaped
      => LogSlot = (IF flash.log.active \in 0..1 /\ flash.log.slots[flash.log.active].valid
                            THEN flash.log.active
                            ELSE IF flash.log.slots[0].valid THEN 0
                            ELSE IF flash.log.slots[1].valid THEN 1 ELSE 2)
  <2> DEFINE valid == {s \in 0..1 : flash.log.slots[s].valid}
  <2>1. /\ 0 \in valid <=> flash.log.slots[0].valid
        /\ 1 \in valid <=> flash.log.slots[1].valid
        /\ 2 \notin valid
    OBVIOUS
  <2>2. flash.log.active \in valid
          <=> flash.log.active \in 0..1 /\ flash.log.slots[flash.log.active].valid
    OBVIOUS
  <2>3. LogSlot =
          CASE flash.log.active \in valid -> flash.log.active
            [] flash.log.active \notin valid /\ 0 \in valid -> 0
            [] flash.log.active \notin valid /\ 0 \notin valid /\ 1 \in valid -> 1
            [] OTHER -> 2
    BY Zenon DEF LogSlot
  <2> HIDE DEF valid
  <2> QED
    BY <2>1, <2>2, <2>3
<1>3. Found("log") = (IF LogSlot = 2 THEN
                                (IF Nothing.valid THEN Nothing.data
                                 ELSE NoLog)
                              ELSE IF flash.log.slots[LogSlot].valid
                                   THEN flash.log.slots[LogSlot].data
                                   ELSE NoLog)
  BY DEF Found, Kept, Empty
<1>4. FlashShaped
      => Found("log") =
           (IF flash.log.active \in 0..1 /\ flash.log.slots[flash.log.active].valid
            THEN flash.log.slots[flash.log.active].data
            ELSE IF flash.log.slots[0].valid THEN flash.log.slots[0].data
            ELSE IF flash.log.slots[1].valid THEN flash.log.slots[1].data ELSE NoLog)
  BY <1>1, <1>2, <1>3 DEF FlashShaped
<1>5. Found("last") = (IF flash.last.valid THEN flash.last.data ELSE NoLast)
  BY DEF Found, Kept, Empty
<1>6. Found("curves") =
        (IF flash.curves[CurveSlot].valid THEN flash.curves[CurveSlot].data
         ELSE NoCurves)
  BY DEF Found, Kept, Empty
<1>7. /\ CurveSlot \in 0..1
      /\ CurveSlot = 1 <=>
           /\ flash.curves[1].valid
           /\ \/ ~flash.curves[0].valid
              \/ flash.curves[1].data.generation > flash.curves[0].data.generation
  BY DEF CurveSlot
<1>8. FlashShaped
      => \A s \in 0..1 : flash.curves[s].valid => flash.curves[s].data.generation \in Int
  BY <1>1 DEF FlashShaped, IsCurveSlot, IsCurves
<1>9. ASSUME FlashShaped, NEW s \in 0..1, Newer(s)
      PROVE  Found("curves") = (IF flash.curves[s].valid THEN flash.curves[s].data
                                        ELSE NoCurves)
  BY <1>6, <1>7, <1>8, <1>9 DEF Newer
<1>10. ASSUME FlashShaped, Newer(0) \/ Newer(1)
       PROVE  Newer(CurveSlot)
  BY <1>7, <1>8, <1>10 DEF Newer
<1>11. ASSUME FlashShaped PROVE IsCurves(Found("curves"))
  <2>1. IsCurves(NoCurves)
    BY DEF IsCurves, NoCurves
  <2> QED
    BY <1>1, <1>6, <1>7, <1>11, <2>1 DEF FlashShaped, IsCurveSlot
<1> DEFINE Reads ==
      FlashShaped =>
        /\ Found("log") =
             (IF flash.log.active \in 0..1 /\ flash.log.slots[flash.log.active].valid
              THEN flash.log.slots[flash.log.active].data
              ELSE IF flash.log.slots[0].valid THEN flash.log.slots[0].data
              ELSE IF flash.log.slots[1].valid THEN flash.log.slots[1].data ELSE NoLog)
        /\ Found("last") = (IF flash.last.valid THEN flash.last.data ELSE NoLast)
        /\ \A s \in 0..1 :
              Newer(s) =>
                Found("curves") = (IF flash.curves[s].valid THEN flash.curves[s].data
                                           ELSE NoCurves)
        /\ (Newer(0) \/ Newer(1)) => Newer(CurveSlot)
        /\ CurveSlot \in 0..1
        /\ IsCurves(Found("curves"))
<1>12. Reads
  BY <1>4, <1>5, <1>7, <1>9, <1>10, <1>11
<1>13. Reads'
  BY <1>12, PTL
<1> HIDE DEF Reads
\* How a step of a save changes the flash
<1>14. ASSUME FlashShaped, NEW s \in 0..1, NEW kept, IsCurveSlot(kept),
              flash' = [flash EXCEPT !.curves[s] = kept]
       PROVE  /\ FlashShaped' /\ flash'.log = flash.log /\ flash'.last = flash.last
              /\ flash'.curves[s] = kept /\ flash'.curves[1 - s] = flash.curves[1 - s]
  <2> DEFINE c == [flash.curves EXCEPT ![s] = kept]
  <2>1. flash' = [flash EXCEPT !.curves = c]
    BY <1>14, Zenon
  <2>2. flash.curves = [t \in 0..1 |-> flash.curves[t]]
    BY <1>14 DEF FlashShaped
  <2>3. c = [t \in 0..1 |-> c[t]] /\ c[s] = kept /\ c[1 - s] = flash.curves[1 - s]
    BY <2>2
  <2>4. \A t \in 0..1 : IsCurveSlot(c[t])
    BY <1>14, <2>3 DEF FlashShaped
  <2> HIDE DEF c
  <2>5. flash' = [log |-> flash.log, curves |-> c, last |-> flash.last]
    BY <1>14, <2>1 DEF FlashShaped
  <2>6. flash'.log = flash.log /\ flash'.curves = c /\ flash'.last = flash.last
    BY <2>5
  <2> QED
    BY <1>14, <2>3, <2>4, <2>5, <2>6 DEF FlashShaped
<1>15. ASSUME FlashShaped, NEW s \in 0..1, NEW kept, IsSlot(kept),
              flash' = [flash EXCEPT !.log.slots[s] = kept]
       PROVE  /\ FlashShaped' /\ flash'.curves = flash.curves /\ flash'.last = flash.last
              /\ flash'.log.active = flash.log.active
              /\ flash'.log.slots[s] = kept /\ flash'.log.slots[1 - s] = flash.log.slots[1 - s]
  <2> DEFINE c == [flash.log.slots EXCEPT ![s] = kept]
             l == [flash.log EXCEPT !.slots = c]
  <2>1. flash' = [flash EXCEPT !.log = l]
    BY <1>15, Zenon
  <2>2. c = [t \in 0..1 |-> c[t]] /\ c[s] = kept /\ c[1 - s] = flash.log.slots[1 - s]
    BY <1>15 DEF FlashShaped
  <2>3. \A t \in 0..1 : IsSlot(c[t])
    BY <1>15, <2>2 DEF FlashShaped
  <2> HIDE DEF c
  <2>4. l = [active |-> flash.log.active, slots |-> c]
    BY <1>15 DEF FlashShaped
  <2> HIDE DEF l
  <2>5. flash' = [log |-> l, curves |-> flash.curves, last |-> flash.last]
    BY <1>15, <2>1 DEF FlashShaped
  <2>6. /\ flash'.log = l /\ flash'.curves = flash.curves /\ flash'.last = flash.last
        /\ l.active = flash.log.active /\ l.slots = c
    BY <2>4, <2>5
  <2> QED
    BY <1>15, <2>2, <2>3, <2>4, <2>5, <2>6 DEF FlashShaped
<1>16. ASSUME FlashShaped, NEW kept, IsSlot(kept),
              flash' = [flash EXCEPT !.last = kept]
       PROVE  /\ FlashShaped' /\ flash'.log = flash.log /\ flash'.curves = flash.curves
              /\ flash'.last = kept
  <2>1. flash' = [log |-> flash.log, curves |-> flash.curves, last |-> kept]
    BY <1>16 DEF FlashShaped
  <2>2. flash'.log = flash.log /\ flash'.curves = flash.curves /\ flash'.last = kept
    BY <2>1
  <2> QED
    BY <1>16, <2>1, <2>2 DEF FlashShaped
<1>17. ASSUME FlashShaped, NEW s \in 0..1, flash' = [flash EXCEPT !.log.active = s]
       PROVE  /\ FlashShaped' /\ flash'.curves = flash.curves /\ flash'.last = flash.last
              /\ flash'.log.active = s /\ flash'.log.slots = flash.log.slots
  <2> DEFINE l == [flash.log EXCEPT !.active = s]
  <2>1. flash' = [flash EXCEPT !.log = l]
    BY <1>17, Zenon
  <2>2. l = [active |-> s, slots |-> flash.log.slots]
    BY <1>17 DEF FlashShaped
  <2> HIDE DEF l
  <2>3. flash' = [log |-> l, curves |-> flash.curves, last |-> flash.last]
    BY <1>17, <2>1 DEF FlashShaped
  <2>4. /\ flash'.log = l /\ flash'.curves = flash.curves /\ flash'.last = flash.last
        /\ l.active = s /\ l.slots = flash.log.slots
    BY <2>2, <2>3
  <2> QED
    BY <1>17, <2>2, <2>3, <2>4 DEF FlashShaped
\* How a store in memory is replaced
<1>18. ASSUME MemoryShaped, NEW store \in Stores, NEW data,
              store = "curves" => IsCurves(data),
              NEW m, m = [ram EXCEPT ![store] = data]
       PROVE  /\ m = [log |-> m.log, curves |-> m.curves, last |-> m.last, slot |-> m.slot]
              /\ m.slot = ram.slot
              /\ m.curves = IF store = "curves" THEN data ELSE ram.curves
  <2>1. ram = [log |-> ram.log, curves |-> ram.curves, last |-> ram.last, slot |-> ram.slot]
    BY <1>18 DEF MemoryShaped
  <2>2. CASE store = "log"
    <3>1. m = [log |-> data, curves |-> ram.curves, last |-> ram.last, slot |-> ram.slot]
      BY <1>18, <2>1, <2>2
    <3> QED
      BY <2>2, <3>1
  <2>3. CASE store = "last"
    <3>1. m = [log |-> ram.log, curves |-> ram.curves, last |-> data, slot |-> ram.slot]
      BY <1>18, <2>1, <2>3
    <3> QED
      BY <2>3, <3>1
  <2>4. CASE store = "curves"
    <3>1. m = [log |-> ram.log, curves |-> data, last |-> ram.last, slot |-> ram.slot]
      BY <1>18, <2>1, <2>4
    <3> QED
      BY <2>4, <3>1
  <2> QED
    BY <1>18, <2>2, <2>3, <2>4 DEF Stores
<1>19. ASSUME SaveShaped
       PROVE  /\ writing.step = "erase"
                   => InFlash = [flash EXCEPT !.curves[writing.slot] = Nothing]
              /\ writing.step = "write"
                   => InFlash = [flash EXCEPT !.curves[writing.slot] = Copied]
              /\ writing.step = "put" /\ writing.store = "log"
                   => InFlash
                        = [flash EXCEPT !.log.slots[writing.slot] = Copied]
              /\ writing.step = "put" /\ writing.store = "last"
                   => InFlash = [flash EXCEPT !.last = Copied]
              /\ writing.step = "point" => InFlash = [flash EXCEPT !.log.active = writing.slot]
  <2> DEFINE a == [flash EXCEPT !.curves[writing.slot] = Nothing]
             b == [flash EXCEPT !.curves[writing.slot] = Copied]
             c == [flash EXCEPT !.log.slots[writing.slot] = Copied]
             d == [flash EXCEPT !.last = Copied]
             e == [flash EXCEPT !.log.active = writing.slot]
  <2>1. InFlash =
          CASE writing.step = "erase" -> a
            [] writing.step = "write" -> b
            [] writing.step = "put" /\ writing.store = "log" -> c
            [] writing.step = "put" /\ writing.store = "last" -> d
            [] OTHER -> e
    BY Zenon DEF InFlash
  <2> HIDE DEF a, b, c, d, e
  <2>2. /\ writing.step = "erase" => InFlash = a
        /\ writing.step = "write" => InFlash = b
        /\ writing.step = "put" /\ writing.store = "log" => InFlash = c
        /\ writing.step = "put" /\ writing.store = "last" => InFlash = d
        /\ writing.step = "point" => InFlash = e
    BY <2>1
  <2> QED
    BY <2>2, Zenon DEF a, b, c, d, e
<1>20. Target("log") = 1 - (IF flash.log.active = 2 THEN 0 ELSE flash.log.active)
       /\ Target("curves") = 1 - ram.slot
  BY DEF Target
<1>21. /\ IsSlot(Nothing) /\ IsCurveSlot(Nothing)
       /\ \A d : IsSlot(Valid(d))
       /\ \A d : IsCurves(d) => IsCurveSlot(Valid(d))
  BY DEF IsSlot, IsCurveSlot
<1>22. /\ writing.whole => Copied = Valid(writing.data)
       /\ ~writing.whole => Copied = Nothing
       /\ IsSlot(Copied) /\ (IsCurves(writing.data) => IsCurveSlot(Copied))
  BY <1>21 DEF Copied
<1>23. flash'.curves = flash.curves
       => /\ \A s \in 0..1 : Newer(s)' <=> Newer(s)
          /\ Found("curves")' = Found("curves")
  <2> SUFFICES ASSUME flash'.curves = flash.curves
               PROVE  /\ \A s \in 0..1 : Newer(s)' <=> Newer(s)
                      /\ Found("curves")' = Found("curves")
    OBVIOUS
  <2>1. CurveSlot' = CurveSlot
    BY DEF CurveSlot
  <2> QED
    BY <1>6, <2>1 DEF Newer, Found, Kept, Empty
<1>24. flash'.log = flash.log => Found("log")' = Found("log")
  <2> SUFFICES ASSUME flash'.log = flash.log
               PROVE  Found("log")' = Found("log")
    OBVIOUS
  <2>1. LogSlot' = LogSlot
    BY Zenon DEF LogSlot
  <2> QED
    BY <2>1 DEF Found, Kept, Empty
<1>25. flash'.last = flash.last => Found("last")' = Found("last")
  BY DEF Found, Kept, Empty
\* load() of the log moves the pointer, if at all, to the slot that it read.
<1>26. ASSUME FlashShaped, LogKept, NEW store, flash' \in Rewritten(store)
       PROVE  /\ FlashShaped' /\ flash'.curves = flash.curves /\ flash'.last = flash.last
              /\ "log" \notin torn => flash'.log = flash.log
              /\ flash'.log.active = 2 => flash.log.active = 2
  <2>1. CASE flash' = flash
    BY <1>26, <2>1 DEF FlashShaped
  <2>2. CASE /\ flash.log.active # 2 /\ LogSlot \notin {2, flash.log.active}
             /\ flash' = [flash EXCEPT !.log.active = LogSlot]
    <3>1. PICK s \in 0..1 : s = LogSlot
      BY <1>2, <1>26, <2>2
    <3>2. /\ FlashShaped' /\ flash'.curves = flash.curves /\ flash'.last = flash.last
          /\ flash'.log.active = s
      BY <1>17, <1>26, <2>2, <3>1
    <3>3. flash.log.active \in 0..1
      BY <1>26, <2>2 DEF FlashShaped
    <3>4. "log" \in torn
      BY <1>2, <1>26, <2>2, <3>3 DEF LogKept
    <3> QED
      BY <3>2, <3>4
  <2> QED
    BY <1>26, <2>1, <2>2 DEF Rewritten
\* The slot of the curves that is not read changes.
<1>27. ASSUME HistoryKept, SaveShaped, writing.store = "curves",
              NEW s \in 0..1, s = ram.slot,
              NEW kept \in {Nothing, Valid(writing.data)},
              flash' = [flash EXCEPT !.curves[writing.slot] = kept]
       PROVE  /\ FlashShaped' /\ flash'.log = flash.log
              /\ Found("last")' = Found("last")
              /\ flash'.curves[s] = flash.curves[s] /\ flash'.curves[1 - s] = kept
              /\ ~setBack /\ "curves" \notin torn /\ kept = Nothing =>
                   Newer(s)' /\ Found("curves")' = Found("curves")
              /\ ~setBack /\ kept = Valid(writing.data) =>
                   Newer(1 - s)' /\ Found("curves")' = writing.data
  <2>1. writing.slot = 1 - s /\ IsCurves(writing.data)
    BY <1>27 DEF SaveShaped, HistoryKept, MemoryShaped
  <2>2. FlashShaped /\ writing.slot \in 0..1 /\ 1 - writing.slot = s
    BY <1>27, <2>1 DEF HistoryKept
  <2>3. IsCurveSlot(kept)
    BY <1>21, <2>1
  <2>4. /\ FlashShaped' /\ flash'.log = flash.log /\ flash'.last = flash.last
        /\ flash'.curves[1 - s] = kept /\ flash'.curves[s] = flash.curves[s]
    BY <1>14, <1>27, <2>2, <2>3
  <2>5. ASSUME ~setBack
        PROVE  /\ "curves" \notin torn => Newer(s)
               /\ flash.curves[s].valid =>
                    flash.curves[s].data.generation < writing.data.generation
    <3>1. Booted
      BY <1>27 DEF SaveShaped, Booted
    <3> QED
      BY <1>27, <2>5, <3>1 DEF SaveShaped, HistoryKept
  <2>6. ASSUME ~setBack, "curves" \notin torn, kept = Nothing
        PROVE  Newer(s)' /\ Found("curves")' = Found("curves")
    <3>1. Newer(s)'
      BY <1>1, <2>1, <2>2, <2>4, <2>6 DEF Newer
    <3>2. Found("curves") = (IF flash.curves[s].valid THEN flash.curves[s].data
                             ELSE NoCurves)
      BY <1>12, <2>1, <2>2, <2>5, <2>6 DEF Reads
    <3>3. Found("curves")' = (IF flash'.curves[s].valid
                              THEN flash'.curves[s].data ELSE NoCurves)
      BY <1>13, <2>1, <2>4, <3>1 DEF Reads
    <3> QED
      BY <2>2, <2>4, <3>1, <3>2, <3>3
  <2>7. ASSUME ~setBack, kept = Valid(writing.data)
        PROVE  Newer(1 - s)' /\ Found("curves")' = writing.data
    <3>1. flash'.curves[1 - s].valid /\ flash'.curves[1 - s].data = writing.data
      BY <1>1, <2>4, <2>7
    <3>2. Newer(1 - s)'
      BY <2>2, <2>4, <2>5, <2>7, <3>1 DEF Newer
    <3>3. Found("curves")' = (IF flash'.curves[1 - s].valid
                              THEN flash'.curves[1 - s].data ELSE NoCurves)
      BY <1>13, <2>2, <2>4, <3>2 DEF Reads
    <3> QED
      BY <2>1, <3>1, <3>3, <3>2
  <2> QED
    BY <1>25, <2>1, <2>2, <2>4, <2>6, <2>7
\* What a step of a save that was done leaves
<1>28. ASSUME HistoryKept, SaveShaped, writing.step # "copy",
              NEW s \in 0..1, s = ram.slot, flash' = InFlash
       PROVE  /\ FlashShaped'
              /\ writing.store # "log" => flash'.log = flash.log
              /\ writing.step = "put" /\ writing.store = "log" =>
                   /\ flash'.log.slots[writing.slot] = Copied
                   /\ flash'.log.active = flash.log.active
                   /\ "log" \notin torn =>
                        /\ Found("log")' \in accepted["log"]
                        /\ flash.log.active # 2 => flash'.log.slots[flash.log.active].valid
              /\ writing.step = "point" =>
                   /\ flash'.log.active \in 0..1
                   /\ writing.whole => /\ Found("log")' = writing.data
                                       /\ flash'.log.slots[flash'.log.active].valid
              /\ writing.store # "last" => Found("last")' = Found("last")
              /\ writing.store = "last" => Found("last")' = writing.data
              /\ writing.store # "curves" => flash'.curves = flash.curves
              /\ writing.store = "curves" => flash'.curves[s] = flash.curves[s]
              /\ ~setBack /\ "curves" \notin torn /\ writing.step = "erase" =>
                   Newer(s)' /\ Found("curves")' = Found("curves")
              /\ writing.step = "write" => flash'.curves[1 - s] = Copied
              /\ ~setBack /\ writing.step = "write" /\ writing.whole =>
                   Newer(1 - s)' /\ Found("curves")' = writing.data
  <2>1. /\ FlashShaped /\ flash.log.active \in 0..2 /\ LogKept
        /\ writing.data \in accepted[writing.store]
    BY <1>28 DEF HistoryKept, FlashShaped, SaveShaped
  <2>2. \/ writing.store = "last" /\ writing.step = "put" /\ writing.whole
        \/ /\ writing.store = "log" /\ writing.step \in {"put", "point"}
           /\ writing.slot = Target("log")
           /\ writing.step = "point" => flash.log.slots[writing.slot] = Copied
        \/ writing.store = "curves" /\ writing.step \in {"erase", "write"}
    BY <1>28 DEF SaveShaped
  <2>3. CASE writing.store = "last"
    <3>1. flash' = [flash EXCEPT !.last = Copied]
      BY <1>19, <1>28, <2>2, <2>3
    <3>2. /\ FlashShaped' /\ flash'.log = flash.log /\ flash'.curves = flash.curves
          /\ flash'.last = Copied
      BY <1>16, <1>22, <2>1, <3>1
    <3>3. Found("last")' = writing.data
      BY <1>1, <1>13, <1>22, <2>2, <2>3, <3>2 DEF Reads
    <3> QED
      BY <2>2, <2>3, <3>2, <3>3
  <2>4. CASE writing.store = "log" /\ writing.step = "put"
    <3>1. flash' = [flash EXCEPT !.log.slots[writing.slot] = Copied]
      BY <1>19, <1>28, <2>4
    <3>2. /\ writing.slot \in 0..1
          /\ flash.log.active \in 0..1 => writing.slot = 1 - flash.log.active
          /\ flash.log.active = 2 => writing.slot = 1
      BY <1>20, <2>1, <2>2, <2>4
    <3>3. /\ FlashShaped' /\ flash'.curves = flash.curves /\ flash'.last = flash.last
          /\ flash'.log.active = flash.log.active
          /\ flash'.log.slots[writing.slot] = Copied
          /\ flash'.log.slots[1 - writing.slot] = flash.log.slots[1 - writing.slot]
      BY <1>15, <1>22, <2>1, <3>1, <3>2
    <3>4. ASSUME "log" \notin torn
          PROVE  /\ Found("log")' \in accepted["log"]
                 /\ flash.log.active # 2 => flash'.log.slots[flash.log.active].valid
      <4>1. Found("log") \in accepted["log"]
            /\ (flash.log.active # 2 => flash.log.slots[flash.log.active].valid)
        BY <2>1, <3>4 DEF LogKept
      <4>2. CASE flash.log.active # 2
        <5>1. /\ flash.log.active \in 0..1
              /\ flash'.log.slots[flash.log.active] = flash.log.slots[flash.log.active]
          BY <2>1, <3>2, <3>3, <4>2
        <5> QED
          BY <1>12, <1>13, <2>1, <3>3, <4>1, <4>2, <5>1 DEF Reads
      <4>3. CASE flash.log.active = 2
        <5>1. /\ NoLog \in accepted["log"] /\ writing.data \in accepted["log"]
          BY <2>1, <2>4, <4>3 DEF LogKept, Empty
        <5>2. flash'.log.slots[1] = Copied /\ flash'.log.slots[0] = flash.log.slots[0]
          BY <3>2, <3>3, <4>3
        <5>3. Copied.valid => Copied.data = writing.data
          BY <1>1, <1>22
        <5> QED
          BY <1>12, <1>13, <2>1, <3>3, <4>1, <4>3, <5>1, <5>2, <5>3 DEF Reads
      <4> QED
        BY <4>2, <4>3
    <3> QED
      BY <1>25, <2>4, <3>3, <3>4
  <2>5. CASE writing.store = "log" /\ writing.step = "point"
    <3>1. flash' = [flash EXCEPT !.log.active = writing.slot]
      BY <1>19, <1>28, <2>5
    <3>2. writing.slot \in 0..1 /\ flash.log.slots[writing.slot] = Copied
      BY <1>20, <2>1, <2>2, <2>5
    <3>3. /\ FlashShaped' /\ flash'.curves = flash.curves /\ flash'.last = flash.last
          /\ flash'.log.active = writing.slot /\ flash'.log.slots = flash.log.slots
      BY <1>17, <2>1, <3>1, <3>2
    <3>4. writing.whole => /\ Found("log")' = writing.data
                           /\ flash'.log.slots[flash'.log.active].valid
      BY <1>1, <1>13, <1>22, <3>2, <3>3 DEF Reads
    <3> QED
      BY <1>25, <2>5, <3>2, <3>3, <3>4
  <2>6. CASE writing.store = "curves"
    <3>1. \/ /\ writing.step = "erase"
             /\ flash' = [flash EXCEPT !.curves[writing.slot] = Nothing]
          \/ /\ writing.step = "write"
             /\ flash' = [flash EXCEPT !.curves[writing.slot] = Copied]
      BY <1>19, <1>28, <2>2, <2>6
    <3>2. CASE writing.step = "erase"
      BY <1>27, <1>28, <2>6, <3>1, <3>2
    <3>3. CASE writing.step = "write"
      <4>1. Copied \in {Nothing, Valid(writing.data)}
        BY <1>22
      <4>2. /\ FlashShaped' /\ flash'.log = flash.log /\ Found("last")' = Found("last")
            /\ flash'.curves[s] = flash.curves[s] /\ flash'.curves[1 - s] = Copied
            /\ ~setBack /\ Copied = Valid(writing.data) =>
                 Newer(1 - s)' /\ Found("curves")' = writing.data
        BY <1>27, <1>28, <2>6, <3>1, <3>3, <4>1
      <4> QED
        BY <1>22, <2>6, <3>3, <4>2
    <3> QED
      BY <2>2, <2>6, <3>2, <3>3
  <2> QED
    BY <2>2, <2>3, <2>4, <2>5, <2>6
<1>29. ASSUME HistoryKept, [HistoryNext]_historyVars
       PROVE  HistoryKept'
  <2>1. /\ MemoryShaped /\ FlashShaped /\ TasksShaped /\ LogKept
        /\ Found("last") \in accepted["last"] /\ "last" \notin torn
        /\ ~setBack /\ "curves" \notin torn => Found("curves") \in accepted["curves"]
        /\ writing = Idle \/ ~Booted \/ SaveShaped
        /\ ~setBack /\ Booted =>
              /\ "curves" \notin torn => Newer(ram.slot)
              /\ flash.curves[ram.slot].valid =>
                    flash.curves[ram.slot].data.generation <= ram.curves.generation
        /\ ~setBack /\ ~Booted /\ "curves" \notin torn => Newer(0) \/ Newer(1)
    BY <1>29 DEF HistoryKept
  <2>2. /\ ram = [log |-> ram.log, curves |-> ram.curves, last |-> ram.last, slot |-> ram.slot]
        /\ ram.slot \in 0..1
        /\ IsCurves(ram.curves) /\ ram.curves.generation \in Int
        /\ accepted = [store \in Stores |-> accepted[store]]
        /\ setBack \in BOOLEAN /\ torn \subseteq Stores
    BY <2>1 DEF MemoryShaped, IsCurves
  <2>3. Idle # [by |-> "boot"]
    <3>1. Idle.by = "none" /\ [by |-> "boot"].by = "boot"
      BY DEF Idle
    <3> QED
      BY <3>1
  <2>4. SaveShaped => writing # Idle /\ Booted
    BY DEF SaveShaped, Idle, Booted
  <2>5. http # <<>> => /\ Head(http).store \in Stores
                       /\ Head(http).change = "erase" => Head(http).store # "curves"
    BY <2>1 DEF TasksShaped
  <2>6. ASSUME dirty' \subseteq Stores,
               http' = http \/ http' = <<>> \/ (http # <<>> /\ http' = Tail(http))
        PROVE  TasksShaped'
    <3>1. PICK tasks :
             /\ http \in Seq(tasks)
             /\ \A t \in tasks :
                   /\ t = [store |-> t.store, change |-> t.change, id |-> t.id,
                           made |-> t.made]
                   /\ t.store \in Stores /\ (t.change = "erase" => t.store # "curves")
      BY <2>1 DEF TasksShaped
    <3>2. http' \in Seq(tasks)
      <4>1. CASE http' = http
        BY <3>1, <4>1
      <4>2. CASE http' = <<>>
        BY <4>2
      <4>3. CASE http # <<>> /\ http' = Tail(http)
        BY <3>1, <4>3
      <4> QED
        BY <2>6, <4>1, <4>2, <4>3
    <3> QED
      BY <2>6, <3>1, <3>2 DEF TasksShaped
  <2>7. dirty \subseteq Stores
    BY <2>1 DEF TasksShaped
  <2>8. ASSUME UNCHANGED <<accepted, torn>>, "log" \notin torn => flash'.log = flash.log,
               flash'.log.active = 2 => flash.log.active = 2
        PROVE  LogKept'
    <3>1. "log" \notin torn => Found("log")' = Found("log")
      BY <1>24, <2>8
    <3> QED
      BY <2>1, <2>8, <3>1 DEF LogKept, Empty
  \* Neither the flash nor a save under way notices.
  <2>9. ASSUME UNCHANGED <<flash, writing, accepted, torn>>, TasksShaped',
               ram' = [log |-> ram'.log, curves |-> ram'.curves, last |-> ram'.last,
                       slot |-> ram'.slot],
               IsCurves(ram'.curves), ram'.slot = ram.slot,
               setBack' \in BOOLEAN, setBack => setBack',
               ~setBack' => ram'.curves.generation >= ram.curves.generation,
               writing = Idle \/ ~Booted \/ writing.by # "http" \/ http' # <<>>
        PROVE  HistoryKept'
    <3>1. MemoryShaped'
      BY <2>2, <2>9 DEF MemoryShaped
    <3>2. /\ FlashShaped' /\ LogKept'
          /\ Found("last")' = Found("last")
          /\ Found("curves")' = Found("curves")
          /\ \A s \in 0..1 : Newer(s)' <=> Newer(s)
      BY <1>23, <1>25, <2>1, <2>9, <2>8 DEF FlashShaped
    <3>3. Booted' <=> Booted
      BY <2>9 DEF Booted
    <3>4. ram'.curves.generation \in Int
      BY <2>9 DEF IsCurves
    <3>5. \A s \in 0..1 : flash.curves[s].valid => flash.curves[s].data.generation \in Int
      BY <1>8, <2>1
    <3>6. SaveShaped /\ (writing.by # "http" \/ http' # <<>>) => SaveShaped'
      <4> SUFFICES ASSUME SaveShaped, writing.by # "http" \/ http' # <<>>
                   PROVE  SaveShaped'
        OBVIOUS
      <4>1. Target("log")' = Target("log") /\ Copied' = Copied
        BY <2>9 DEF Target, Copied
      <4>2. IsCurves(writing.data) => writing.data.generation \in Int
        BY DEF IsCurves
      <4> QED
        BY <2>2, <2>9, <3>4, <3>5, <4>1, <4>2 DEF SaveShaped
    <3>7. (~setBack /\ Booted =>
             /\ "curves" \notin torn => Newer(ram.slot)
             /\ flash.curves[ram.slot].valid =>
                   flash.curves[ram.slot].data.generation <= ram.curves.generation)'
      BY <2>1, <2>2, <2>9, <3>2, <3>3, <3>4, <3>5
    <3> QED
      BY <2>1, <2>4, <2>9, <3>1, <3>2, <3>3, <3>6, <3>7 DEF HistoryKept
  \* A save begins.
  <2>10. ASSUME NEW by \in {"loop", "http"}, NEW store \in Stores, NEW data,
                Begin(by, store, data), writing = Idle, UNCHANGED <<flash, accepted, torn>>,
                TasksShaped', UNCHANGED setBack, by = "http" => http' # <<>>,
                store = "curves" => /\ IsCurves(data)
                                    /\ data.generation >= ram.curves.generation
         PROVE  HistoryKept'
    <3> DEFINE p == Prepared(store, data)
               slot == IF store = "last" THEN 0 ELSE Target(store)
    <3>1. store = "curves" => IsCurves(p) /\ p.generation = data.generation + 1
      BY <2>10 DEF Prepared, IsCurves
    <3>2. /\ ram' = [ram EXCEPT ![store] = p]
          /\ writing' = [by |-> by, store |-> store, data |-> p, slot |-> slot,
                         step |-> "copy", whole |-> TRUE]
      BY <2>10, Zenon DEF Begin
    <3>3. store = "log" => slot = Target("log")
      OBVIOUS
    <3>4. store = "curves" => slot = 1 - ram.slot
      BY <1>20
    <3> HIDE DEF p, slot
    <3>5. /\ ram' = [log |-> ram'.log, curves |-> ram'.curves, last |-> ram'.last,
                     slot |-> ram'.slot]
          /\ ram'.slot = ram.slot
          /\ ram'.curves = IF store = "curves" THEN p ELSE ram.curves
      <4> DEFINE m == [ram EXCEPT ![store] = p]
      <4>1. /\ m = [log |-> m.log, curves |-> m.curves, last |-> m.last, slot |-> m.slot]
            /\ m.slot = ram.slot
            /\ m.curves = IF store = "curves" THEN p ELSE ram.curves
        BY <1>18, <2>1, <3>1
      <4>2. ram' = m
        BY <3>2
      <4> HIDE DEF m
      <4> QED
        BY <4>1, <4>2
    <3>6. /\ writing'.by = by /\ writing'.store = store /\ writing'.data = p
          /\ writing'.slot = slot /\ writing'.step = "copy" /\ writing'.whole = TRUE
          /\ writing' = [by |-> writing'.by, store |-> writing'.store,
                         data |-> writing'.data, slot |-> writing'.slot,
                         step |-> writing'.step, whole |-> writing'.whole]
      BY <3>2
    <3>7. FlashShaped' /\ MemoryShaped'
      BY <2>1, <2>2, <2>10, <3>1, <3>5 DEF FlashShaped, MemoryShaped
    <3>8. /\ LogKept'
          /\ Found("last")' = Found("last")
          /\ Found("curves")' = Found("curves")
          /\ \A s \in 0..1 : Newer(s)' <=> Newer(s)
          /\ Target("log")' = Target("log")
      BY <1>23, <1>25, <2>10, <2>8 DEF Target
    <3>9. Booted /\ Booted'
      BY <2>3, <2>10, <3>6 DEF Booted
    <3>10. \A s \in 0..1 : flash.curves[s].valid => flash.curves[s].data.generation \in Int
      BY <1>8, <2>1
    <3>11. store = "curves" => data.generation \in Int
      BY <2>10 DEF IsCurves
    <3>12. (~setBack => /\ "curves" \notin torn => Newer(ram.slot)
                        /\ flash.curves[ram.slot].valid =>
                             flash.curves[ram.slot].data.generation <= ram.curves.generation)'
      BY <2>1, <2>2, <2>10, <3>1, <3>5, <3>8, <3>9, <3>10, <3>11
    <3>13. store = "curves" /\ ~setBack'
             => /\ p.generation <= ram'.curves.generation
                /\ flash'.curves[ram'.slot].valid =>
                      flash'.curves[ram'.slot].data.generation < p.generation
      BY <2>1, <2>2, <2>10, <3>1, <3>5, <3>9, <3>10, <3>11
    <3>14. SaveShaped'
      <4>1. writing'.by \in {"loop", "http"} /\ (writing'.by = "http" => http' # <<>>)
        BY <2>10, <3>6
      <4>2. CASE store = "last"
        BY <3>6, <4>1, <4>2 DEF SaveShaped
      <4>3. CASE store = "log"
        BY <3>3, <3>6, <3>8, <4>1, <4>3 DEF SaveShaped
      <4>4. CASE store = "curves"
        BY <3>1, <3>4, <3>5, <3>6, <3>13, <4>1, <4>4 DEF SaveShaped
      <4> QED
        BY <2>10, <4>2, <4>3, <4>4 DEF Stores
    <3> QED
      BY <2>1, <2>10, <3>7, <3>8, <3>9, <3>12, <3>14 DEF HistoryKept
  \* The copy is made.
  <2>11. CASE Copy /\ Booted
    <3> DEFINE now == ram[writing.store]
               whole == writing.store = "last" \/ now \in {writing.data, Empty[writing.store]}
               first == FirstStep(writing.store)
               more == accepted[writing.store] \cup {now}
    <3>1. /\ writing # Idle /\ writing.step = "copy"
          /\ writing' = [writing EXCEPT !.data = now, !.whole = whole, !.step = first]
          /\ accepted' = [accepted EXCEPT ![writing.store] = more]
          /\ UNCHANGED <<ram, dirty, flash, flush, http, used, setBack, torn>>
      BY <2>11, Zenon DEF Copy
    <3>2. SaveShaped
      BY <2>1, <2>11, <3>1
    <3>3. PICK store \in Stores : store = writing.store
      BY <3>2 DEF SaveShaped, Stores
    <3>4. /\ whole \in BOOLEAN /\ (store = "last" => whole)
          /\ store = "last" => first = "put"
          /\ store = "log" => first = "put"
          /\ store = "curves" => first = "erase" /\ now = ram.curves
      BY <3>3 DEF FirstStep
    <3>5. now \in more
      OBVIOUS
    <3>6. \A st \in Stores : accepted'[st] = IF st = store THEN more ELSE accepted[st]
      BY <2>2, <3>1, <3>3
    <3>7. accepted' = [st \in Stores |-> accepted'[st]]
      BY <2>2, <3>1, <3>3
    <3>8. \A st \in Stores : accepted[st] \subseteq accepted'[st]
      BY <3>3, <3>6
    <3> HIDE DEF now, whole, first, more
    <3>9. /\ writing = [by |-> writing.by, store |-> writing.store, data |-> writing.data,
                        slot |-> writing.slot, step |-> writing.step,
                        whole |-> writing.whole]
          /\ writing.by \in {"loop", "http"} /\ (writing.by = "http" => http # <<>>)
          /\ store = "log" => writing.slot = Target("log")
          /\ store = "curves" =>
                /\ writing.slot = 1 - ram.slot
                /\ IsCurves(writing.data)
                /\ ~setBack =>
                      /\ writing.data.generation <= ram.curves.generation
                      /\ flash.curves[ram.slot].valid =>
                            flash.curves[ram.slot].data.generation < writing.data.generation
      BY <3>2, <3>3 DEF SaveShaped
    <3>10. writing' = [by |-> writing.by, store |-> writing.store, data |-> now,
                       slot |-> writing.slot, step |-> first, whole |-> whole]
      BY <3>1, <3>9
    <3>11. /\ writing' = [by |-> writing'.by, store |-> writing'.store,
                          data |-> writing'.data, slot |-> writing'.slot,
                          step |-> writing'.step, whole |-> writing'.whole]
           /\ writing'.by = writing.by /\ writing'.store = store /\ writing'.data = now
           /\ writing'.slot = writing.slot /\ writing'.step = first
           /\ writing'.whole = whole
      BY <3>3, <3>10
    <3>12. MemoryShaped' /\ FlashShaped'
      BY <2>1, <3>1, <3>7 DEF MemoryShaped, FlashShaped
    <3>13. TasksShaped'
      BY <2>6, <2>7, <3>1
    <3>14. /\ Found("log")' = Found("log")
           /\ Found("last")' = Found("last")
           /\ Found("curves")' = Found("curves")
           /\ \A s \in 0..1 : Newer(s)' <=> Newer(s)
           /\ Target("log")' = Target("log")
      BY <1>23, <1>24, <1>25, <3>1 DEF Target
    <3>15. LogKept'
      BY <2>1, <3>1, <3>8, <3>14 DEF LogKept, Stores, Empty
    <3>16. writing'.data \in accepted'[writing'.store]
      BY <3>3, <3>5, <3>6, <3>11
    <3>17. SaveShaped'
      <4>1. CASE store = "last"
        BY <3>1, <3>4, <3>9, <3>11, <3>16, <4>1 DEF SaveShaped
      <4>2. CASE store = "log"
        BY <3>1, <3>4, <3>9, <3>11, <3>14, <3>16, <4>2 DEF SaveShaped
      <4>3. CASE store = "curves"
        <5>1. /\ flash.curves[ram.slot].valid => flash.curves[ram.slot].data.generation \in Int
              /\ IsCurves(now) /\ now.generation = ram.curves.generation
              /\ writing.data.generation \in Int
          BY <1>8, <2>1, <2>2, <3>4, <3>9, <4>3 DEF IsCurves
        <5>2. ~setBack =>
                /\ now.generation <= ram.curves.generation
                /\ flash.curves[ram.slot].valid =>
                      flash.curves[ram.slot].data.generation < now.generation
          BY <2>2, <3>9, <4>3, <5>1
        <5> QED
          BY <3>1, <3>4, <3>9, <3>11, <3>16, <4>3, <5>1, <5>2 DEF SaveShaped
      <4> QED
        BY <3>3, <4>1, <4>2, <4>3 DEF Stores
    <3>18. Booted'
      BY <3>9, <3>11 DEF Booted
    <3>19. /\ Found("last")' \in accepted'["last"]
           /\ ~setBack' /\ "curves" \notin torn' => Found("curves")' \in accepted'["curves"]
      BY <2>1, <3>1, <3>8, <3>14 DEF Stores
    <3>20. (~setBack =>
              /\ "curves" \notin torn => Newer(ram.slot)
              /\ flash.curves[ram.slot].valid =>
                    flash.curves[ram.slot].data.generation <= ram.curves.generation)'
      BY <2>1, <2>2, <2>11, <3>1, <3>14
    <3> QED
      BY <2>1, <3>1, <3>12, <3>13, <3>15, <3>17, <3>18, <3>19, <3>20 DEF HistoryKept
  \* What a store that is loaded again holds
  <2>12. ASSUME NEW store \in Stores, NEW locked \in BOOLEAN,
                NEW m, m = Reload(store, locked)
         PROVE  /\ m = [log |-> m.log, curves |-> m.curves, last |-> m.last, slot |-> m.slot]
                /\ IsCurves(m.curves) /\ m.slot \in 0..1
                /\ store # "curves" => m.curves = ram.curves /\ m.slot = ram.slot
                /\ ~locked => m.slot = ram.slot
                /\ store = "curves" /\ locked =>
                     m.slot = CurveSlot /\ m.curves = Found("curves")
    <3> DEFINE data == IF locked THEN Found(store) ELSE Empty[store]
               a == [ram EXCEPT ![store] = data]
               slot == IF store = "curves" /\ locked THEN CurveSlot ELSE ram.slot
               b == [a EXCEPT !.slot = slot]
    <3>1. m = b
      BY <2>12, Zenon DEF Reload
    <3>2. store = "curves" => IsCurves(data)
                              /\ (locked => data = Found("curves"))
      <4>1. IsCurves(Empty["curves"])
        BY DEF IsCurves, Empty, NoCurves
      <4> QED
        BY <1>11, <2>1, <4>1
    <3> HIDE DEF data
    <3>3. /\ a = [log |-> a.log, curves |-> a.curves, last |-> a.last, slot |-> a.slot]
          /\ a.slot = ram.slot
          /\ a.curves = IF store = "curves" THEN data ELSE ram.curves
      BY <1>18, <2>1, <3>2
    <3> HIDE DEF a
    <3>4. slot \in 0..1 /\ (store # "curves" \/ ~locked => slot = ram.slot)
          /\ (store = "curves" /\ locked => slot = CurveSlot)
      BY <1>7, <2>2, <3>3
    <3> HIDE DEF slot
    <3>5. b = [log |-> a.log, curves |-> a.curves, last |-> a.last, slot |-> slot]
      BY <3>3
    <3> HIDE DEF b
    <3>6. m = [log |-> m.log, curves |-> m.curves, last |-> m.last, slot |-> m.slot]
          /\ m.curves = a.curves /\ m.slot = slot
      BY <3>1, <3>5
    <3> QED
      BY <2>2, <3>2, <3>3, <3>4, <3>6
  \* The curves that were loaded again are the newest, though the other slot is lost.
  <2>13. ASSUME ~setBack, Booted, ram'.slot = CurveSlot,
                ram'.curves = Found("curves"), NEW s \in 0..1, s = ram.slot,
                \/ flash'.curves = flash.curves
                \/ flash'.curves[s] = flash.curves[s] /\ flash'.curves[1 - s] = Nothing
         PROVE  /\ "curves" \notin torn => Newer(ram.slot)'
                /\ (flash.curves[ram.slot].valid =>
                      flash.curves[ram.slot].data.generation <= ram.curves.generation)'
    <3>1. PICK k \in 0..1 : k = CurveSlot
      BY <1>7
    <3>2. Found("curves") = (IF flash.curves[k].valid THEN flash.curves[k].data ELSE NoCurves)
      BY <1>6, <3>1
    <3>3. \A t \in 0..1 : flash.curves[t].valid => flash.curves[t].data.generation \in Int
      BY <1>8, <2>1
    <3>4. flash'.curves[k] = flash.curves[k] \/ ~flash'.curves[k].valid
      BY <1>1, <2>13
    <3>5. (flash.curves[ram.slot].valid =>
             flash.curves[ram.slot].data.generation <= ram.curves.generation)'
      BY <2>13, <3>1, <3>2, <3>3, <3>4
    <3>6. ASSUME "curves" \notin torn PROVE Newer(ram.slot)'
      <4>1. Newer(s) /\ Newer(k)
        BY <1>10, <2>1, <2>13, <3>1, <3>6
      <4>2. k # s => k = 1 - s /\ s = 1 - k /\ ~flash.curves[s].valid
        BY <3>3, <4>1 DEF Newer
      <4>3. CASE flash'.curves = flash.curves
        BY <2>13, <3>1, <4>1, <4>3 DEF Newer
      <4>4. CASE flash'.curves[s] = flash.curves[s] /\ flash'.curves[1 - s] = Nothing
        BY <1>1, <2>13, <3>1, <4>2, <4>4 DEF Newer
      <4> QED
        BY <2>13, <4>3, <4>4
    <3> QED
      BY <3>5, <3>6
  <2>14. writing = Idle \/ ~Booted \/ writing.by # "http" \/ http # <<>>
    BY <2>1 DEF SaveShaped
  <2>15. ASSUME NEW curve \in BOOLEAN, RecordShot(curve)
         PROVE  HistoryKept'
    <3> DEFINE x == [shot |-> ram.log.next, rating |-> 0]
               y == Appended(ram.log, 0)
               z == IF curve THEN Bounded(Append(ram.curves.ids, ram.log.next))
                    ELSE ram.curves.ids
               c == [ram.curves EXCEPT !.ids = z]
    <3>1. ram' = [ram EXCEPT !.last = x, !.log = y, !.curves = c]
      BY <2>15, Zenon DEF RecordShot
    <3>2. c = [ids |-> z, generation |-> ram.curves.generation]
      BY <2>2 DEF IsCurves
    <3> HIDE DEF x, y, z, c
    <3>3. ram' = [log |-> y, curves |-> c, last |-> x, slot |-> ram.slot]
      BY <2>2, <3>1
    <3>4. IsCurves(c) /\ c.generation = ram.curves.generation
      BY <2>2, <3>2 DEF IsCurves
    <3>5. /\ ram' = [log |-> ram'.log, curves |-> ram'.curves, last |-> ram'.last,
                    slot |-> ram'.slot]
          /\ ram'.curves = c /\ ram'.slot = ram.slot
      BY <3>3
    <3>6. UNCHANGED <<flash, writing, http, accepted, setBack, torn>> /\ dirty' \subseteq Stores
      BY <2>7, <2>15 DEF RecordShot, Stores
    <3>7. TasksShaped'
      BY <2>6, <3>6
    <3> QED
      BY <2>2, <2>9, <2>14, <3>4, <3>5, <3>6, <3>7
  <2>16. ASSUME UNCHANGED <<ram, flash, writing, accepted, setBack, torn>>, TasksShaped',
                writing = Idle \/ ~Booted \/ writing.by # "http" \/ http' # <<>>
         PROVE  HistoryKept'
    BY <2>2, <2>9, <2>16
  <2>17. CASE BeginFlush
    <3>1. TasksShaped'
      BY <2>6, <2>7, <2>17 DEF BeginFlush
    <3> QED
      BY <2>14, <2>16, <2>17, <3>1 DEF BeginFlush
  <2>18. CASE FlushNext
    <3>1. TasksShaped'
      BY <2>6, <2>7, <2>18 DEF FlushNext
    <3>2. CASE /\ writing = Idle /\ Head(flush) \in dirty
               /\ Begin("loop", Head(flush), ram[Head(flush)])
      <4>1. PICK store : store = Head(flush)
        OBVIOUS
      <4>2. store \in Stores
        BY <2>7, <3>2, <4>1
      <4>3. store = "curves" => IsCurves(ram[store])
                                /\ ram[store].generation >= ram.curves.generation
        BY <2>2
      <4>4. UNCHANGED <<setBack, flash, accepted, torn>>
        BY <2>18 DEF FlushNext
      <4>5. Begin("loop", store, ram[store])
        BY <3>2, <4>1
      <4> QED
        BY <2>2, <2>10, <3>1, <3>2, <4>2, <4>3, <4>4, <4>5
    <3>3. CASE UNCHANGED <<ram, writing>>
      BY <2>14, <2>16, <2>18, <3>1, <3>3 DEF FlushNext
    <3> QED
      BY <2>18, <3>2, <3>3 DEF FlushNext
  <2>19. ASSUME WriteStep, SaveShaped, MoreSteps
         PROVE  HistoryKept'
    <3> DEFINE next == IF writing.step = "erase" THEN "write" ELSE "point"
    <3>1. /\ flash' = InFlash /\ writing' = [writing EXCEPT !.step = next]
          /\ writing.step # "copy"
          /\ UNCHANGED <<ram, dirty, flush, http, accepted, setBack, torn>>
      BY <2>19, Zenon DEF WriteStep
    <3>2. PICK s \in 0..1 : s = ram.slot
      BY <2>2
    <3>3. /\ writing = [by |-> writing.by, store |-> writing.store, data |-> writing.data,
                        slot |-> writing.slot, step |-> writing.step,
                        whole |-> writing.whole]
          /\ writing.by \in {"loop", "http"} /\ (writing.by = "http" => http # <<>>)
          /\ writing.whole \in BOOLEAN
          /\ writing.data \in accepted[writing.store]
          /\ \/ /\ writing.store = "log" /\ writing.step = "put"
                /\ writing.slot = Target("log")
             \/ /\ writing.store = "curves" /\ writing.step = "erase"
                /\ writing.slot = 1 - ram.slot
                /\ IsCurves(writing.data)
                /\ ~setBack =>
                     /\ writing.data.generation <= ram.curves.generation
                     /\ flash.curves[ram.slot].valid =>
                           flash.curves[ram.slot].data.generation < writing.data.generation
      BY <2>19, <3>1 DEF SaveShaped, MoreSteps
    <3> HIDE DEF next
    <3>4. writing' = [by |-> writing.by, store |-> writing.store, data |-> writing.data,
                      slot |-> writing.slot, step |-> next, whole |-> writing.whole]
      BY <3>1, <3>3
    <3>5. /\ writing'.by = writing.by /\ writing'.store = writing.store
          /\ writing'.data = writing.data /\ writing'.slot = writing.slot
          /\ writing'.step = next /\ writing'.whole = writing.whole
          /\ writing' = [by |-> writing'.by, store |-> writing'.store,
                         data |-> writing'.data, slot |-> writing'.slot,
                         step |-> writing'.step, whole |-> writing'.whole]
      BY <3>4
    <3>6. /\ FlashShaped'
          /\ Found("last")' = Found("last")
          /\ writing.store # "log" => flash'.log = flash.log
          /\ writing.store = "log" =>
               /\ flash'.log.slots[writing.slot] = Copied
               /\ flash'.log.active = flash.log.active
               /\ flash'.curves = flash.curves
               /\ "log" \notin torn =>
                    /\ Found("log")' \in accepted["log"]
                    /\ flash.log.active # 2 => flash'.log.slots[flash.log.active].valid
          /\ writing.store = "curves" => flash'.curves[s] = flash.curves[s]
          /\ ~setBack /\ "curves" \notin torn /\ writing.store = "curves" =>
               Newer(s)' /\ Found("curves")' = Found("curves")
      BY <1>28, <1>29, <2>19, <3>1, <3>2, <3>3
    <3>7. /\ flash'.curves[s] = flash.curves[s]
          /\ ~setBack /\ "curves" \notin torn =>
               Newer(s)' /\ Found("curves")' = Found("curves")
      BY <1>23, <2>1, <2>4, <2>19, <3>2, <3>3, <3>6
    <3>8. MemoryShaped' /\ TasksShaped'
      BY <2>1, <2>6, <2>7, <3>1 DEF MemoryShaped
    <3>9. SaveShaped'
      <4>1. CASE writing.store = "log"
        <5>1. Target("log")' = Target("log") /\ Copied' = Copied
          BY <3>5, <3>6, <4>1 DEF Target, Copied
        <5>2. next = "point"
          BY <3>3, <4>1 DEF next
        <5> QED
          BY <3>1, <3>3, <3>5, <3>6, <4>1, <5>1, <5>2 DEF SaveShaped
      <4>2. CASE writing.store = "curves"
        <5>1. next = "write"
          BY <3>3, <4>2 DEF next
        <5> QED
          BY <3>1, <3>2, <3>3, <3>5, <3>7, <4>2, <5>1 DEF SaveShaped
      <4> QED
        BY <3>3, <4>1, <4>2
    <3>10. LogKept'
      <4>1. CASE writing.store = "log"
        BY <2>1, <3>1, <3>6, <4>1 DEF LogKept, Empty
      <4>2. CASE writing.store # "log"
        BY <2>8, <3>1, <3>6, <4>2
      <4> QED
        BY <4>1, <4>2
    <3>11. /\ Found("last")' \in accepted'["last"]
           /\ ~setBack' /\ "curves" \notin torn' => Found("curves")' \in accepted'["curves"]
      BY <2>1, <3>1, <3>6, <3>7
    <3>12. (~setBack =>
              /\ "curves" \notin torn => Newer(ram.slot)
              /\ flash.curves[ram.slot].valid =>
                    flash.curves[ram.slot].data.generation <= ram.curves.generation)'
      BY <2>1, <2>4, <2>19, <3>1, <3>2, <3>7
    <3>13. Booted'
      BY <3>3, <3>5 DEF Booted
    <3> QED
      BY <2>1, <3>1, <3>6, <3>8, <3>9, <3>10, <3>11, <3>12, <3>13 DEF HistoryKept
  <2>20. ASSUME WriteStep, SaveShaped, ~MoreSteps
         PROVE  HistoryKept'
    <3> DEFINE slot == IF writing.store = "curves" THEN writing.slot ELSE ram.slot
               one == {writing.data}
    <3>1. /\ flash' = InFlash /\ writing' = Idle /\ dirty' = dirty \ {writing.store}
          /\ writing.step # "copy"
          /\ ram' = [ram EXCEPT !.slot = slot]
          /\ accepted' = [accepted EXCEPT ![writing.store] = one]
          /\ http' = IF writing.by = "http" THEN Tail(http) ELSE http
          /\ setBack' = setBack /\ torn' = TornNow
      BY <2>20, Zenon DEF WriteStep
    <3>2. PICK s \in 0..1 : s = ram.slot
      BY <2>2
    <3>3. /\ writing.by = "http" => http # <<>>
          /\ writing.whole \in BOOLEAN
          /\ \/ writing.store = "last" /\ writing.step = "put" /\ writing.whole
             \/ writing.store = "log" /\ writing.step = "point"
             \/ /\ writing.store = "curves" /\ writing.step = "write"
                /\ writing.slot = 1 - ram.slot
                /\ IsCurves(writing.data)
                /\ ~setBack => writing.data.generation <= ram.curves.generation
      BY <2>20, <3>1 DEF SaveShaped, MoreSteps
    <3>4. PICK store \in Stores : store = writing.store
      BY <3>3 DEF Stores
    <3>5. /\ slot \in 0..1
          /\ store = "curves" => slot = 1 - s
          /\ store # "curves" => slot = s
      BY <3>2, <3>3, <3>4
    <3> HIDE DEF slot, one
    <3>6. /\ torn' \subseteq Stores
          /\ store \in torn' <=> ~writing.whole
          /\ \A st \in Stores : st # store => (st \in torn' <=> st \in torn)
      BY <2>2, <3>1, <3>3, <3>4 DEF TornNow
    <3>7. ram' = [log |-> ram.log, curves |-> ram.curves, last |-> ram.last, slot |-> slot]
      BY <2>2, <3>1
    <3>8. /\ ram' = [log |-> ram'.log, curves |-> ram'.curves, last |-> ram'.last,
                     slot |-> ram'.slot]
          /\ ram'.curves = ram.curves /\ ram'.slot = slot
      BY <3>7
    <3>9. \A st \in Stores : accepted'[st] = IF st = store THEN one ELSE accepted[st]
      BY <2>2, <3>1, <3>4
    <3>10. accepted' = [st \in Stores |-> accepted'[st]]
      BY <2>2, <3>1, <3>4
    <3>11. MemoryShaped'
      BY <2>2, <3>1, <3>5, <3>6, <3>8, <3>10 DEF MemoryShaped
    <3>12. TasksShaped'
      BY <2>6, <2>7, <3>1, <3>3
    <3>13. /\ FlashShaped'
           /\ store # "log" => flash'.log = flash.log
           /\ store = "log" =>
                /\ flash'.log.active \in 0..1
                /\ writing.whole => /\ Found("log")' = writing.data
                                    /\ flash'.log.slots[flash'.log.active].valid
           /\ \/ store # "last" /\ Found("last")' = Found("last")
              \/ store = "last" /\ Found("last")' = writing.data
           /\ store # "curves" => flash'.curves = flash.curves
           /\ store = "curves" => flash'.curves[1 - s] = Copied
           /\ ~setBack /\ store = "curves" /\ writing.whole =>
                Newer(1 - s)' /\ Found("curves")' = writing.data
      BY <1>28, <1>29, <2>20, <3>1, <3>2, <3>3, <3>4
    <3>14. Booted /\ Booted'
      BY <2>3, <2>4, <2>20, <3>1 DEF Booted
    <3>15. /\ Found("last")' \in accepted'["last"] /\ "last" \notin torn'
      BY <2>1, <3>3, <3>4, <3>6, <3>9, <3>13 DEF one, Stores
    <3>16. LogKept'
      <4>1. CASE store = "log"
        BY <3>6, <3>9, <3>13, <4>1 DEF one, LogKept, Stores
      <4>2. CASE store # "log"
        <5>1. "log" \notin torn => Found("log")' = Found("log")
          BY <1>24, <3>13, <4>2
        <5>2. accepted'["log"] = accepted["log"] /\ ("log" \in torn' <=> "log" \in torn)
          BY <3>6, <3>9, <4>2 DEF Stores
        <5> QED
          BY <2>1, <3>13, <4>2, <5>1, <5>2 DEF LogKept, Empty
      <4> QED
        BY <4>1, <4>2
    <3>17. ~setBack' => /\ "curves" \notin torn' => /\ Newer(ram.slot)'
                                                    /\ Found("curves")' \in accepted'["curves"]
                        /\ flash'.curves[ram'.slot].valid =>
                             flash'.curves[ram'.slot].data.generation <= ram'.curves.generation
      <4>1. CASE store = "curves"
        <5>1. ~setBack /\ writing.whole =>
                Newer(1 - s)' /\ Found("curves")' \in accepted'["curves"]
          BY <3>5, <3>9, <3>13, <4>1 DEF one
        <5>2. flash'.curves[slot].valid /\ ~setBack =>
                flash'.curves[slot].data.generation <= ram'.curves.generation
          BY <1>1, <1>22, <3>3, <3>4, <3>5, <3>8, <3>13, <4>1
        <5>3. ~setBack /\ writing.whole => Newer(ram.slot)'
          BY <3>5, <3>8, <4>1, <5>1 DEF Newer
        <5> QED
          BY <3>1, <3>3, <3>6, <3>8, <4>1, <5>1, <5>2, <5>3
      <4>2. CASE store # "curves"
        <5>1. "curves" \in torn' <=> "curves" \in torn
          BY <3>6, <4>2 DEF Stores
        <5>2. ~setBack /\ "curves" \notin torn =>
                Newer(s)' /\ Found("curves")' \in accepted'["curves"]
          BY <1>23, <2>1, <3>2, <3>9, <3>13, <3>14, <4>2 DEF Stores
        <5>3. flash'.curves[s].valid /\ ~setBack =>
                flash'.curves[s].data.generation <= ram'.curves.generation
          BY <2>1, <3>2, <3>8, <3>13, <3>14, <4>2
        <5>4. ~setBack /\ "curves" \notin torn => Newer(ram.slot)'
          BY <3>5, <3>8, <4>2, <5>2 DEF Newer
        <5> QED
          BY <3>1, <3>5, <3>8, <4>2, <5>1, <5>2, <5>3, <5>4
      <4> QED
        BY <4>1, <4>2
    <3> QED
      BY <3>1, <3>11, <3>12, <3>13, <3>14, <3>15, <3>16, <3>17 DEF HistoryKept
  <2>21. ASSUME NEW locked \in BOOLEAN, WriteFails(locked), SaveShaped
         PROVE  HistoryKept'
    <3>1. PICK s \in 0..1 : s = ram.slot
      BY <2>2
    <3>2. /\ \/ /\ writing.step = "write"
                /\ flash' = [flash EXCEPT !.curves[writing.slot] = Nothing]
             \/ flash' \in Rewritten(writing.store)
             \/ flash' = flash
          /\ writing' = Idle /\ accepted' = accepted /\ torn' = torn
      BY <2>21, Zenon DEF WriteFails
    <3>3. /\ writing.by = "http" => http # <<>>
          /\ writing.store \in Stores
          /\ writing.step = "write" => writing.store = "curves"
      BY <2>21 DEF SaveShaped, Stores
    <3>4. /\ FlashShaped' /\ LogKept'
          /\ Found("last")' = Found("last")
          /\ \/ flash'.curves = flash.curves
             \/ flash'.curves[s] = flash.curves[s] /\ flash'.curves[1 - s] = Nothing
          /\ ~setBack /\ "curves" \notin torn =>
               Newer(s)' /\ Found("curves")' = Found("curves")
      <4>1. CASE /\ writing.step = "write"
                 /\ flash' = [flash EXCEPT !.curves[writing.slot] = Nothing]
        <5>1. /\ FlashShaped' /\ flash'.log = flash.log
              /\ Found("last")' = Found("last")
              /\ flash'.curves[s] = flash.curves[s] /\ flash'.curves[1 - s] = Nothing
              /\ ~setBack /\ "curves" \notin torn =>
                   Newer(s)' /\ Found("curves")' = Found("curves")
          BY <1>27, <1>29, <2>21, <3>1, <3>3, <4>1
        <5>2. LogKept'
          BY <2>8, <3>2, <5>1
        <5> QED
          BY <5>1, <5>2
      <4>2. CASE flash' \in Rewritten(writing.store) \/ flash' = flash
        <5>1. flash' \in Rewritten(writing.store)
          BY <4>2 DEF Rewritten
        <5>2. /\ FlashShaped' /\ flash'.curves = flash.curves /\ flash'.last = flash.last
              /\ LogKept'
          BY <1>26, <2>1, <2>8, <3>2, <5>1
        <5> QED
          BY <1>23, <1>25, <2>1, <2>4, <2>21, <3>1, <5>2
      <4> QED
        BY <3>2, <4>1, <4>2
    <3>5. \/ writing.by # "http" /\ UNCHANGED <<ram, dirty, http, setBack>>
          \/ writing.by = "http" /\ Failed(writing.store, locked)
      BY <2>21, <3>3 DEF WriteFails
    <3>6. TasksShaped'
      BY <2>6, <2>7, <3>3, <3>5 DEF Failed
    <3>7. Booted /\ Booted'
      BY <2>3, <2>4, <2>21, <3>2 DEF Booted
    <3>8. /\ Found("last")' \in accepted'["last"]
          /\ ~setBack /\ "curves" \notin torn => Found("curves")' \in accepted'["curves"]
      BY <2>1, <3>2, <3>4
    <3>9. \/ ram' = ram /\ setBack' = setBack
          \/ /\ writing.store # "last" /\ ram' = Reload(writing.store, locked)
             /\ setBack' = (setBack \/ (writing.store = "curves" /\ ~locked))
      BY <3>5 DEF Failed
    <3>10. setBack' \in BOOLEAN /\ (~setBack' => ~setBack)
      BY <2>2, <3>9
    <3>11. /\ ram' = [log |-> ram'.log, curves |-> ram'.curves, last |-> ram'.last,
                     slot |-> ram'.slot]
           /\ ram'.slot \in 0..1 /\ IsCurves(ram'.curves)
           /\ ~setBack' => \/ ram'.curves = ram.curves /\ ram'.slot = s
                           \/ /\ ram'.slot = CurveSlot
                              /\ ram'.curves = Found("curves")
      <4>1. CASE ram' = ram /\ setBack' = setBack
        BY <2>2, <3>1, <4>1
      <4>2. CASE /\ writing.store # "last" /\ ram' = Reload(writing.store, locked)
                 /\ setBack' = (setBack \/ (writing.store = "curves" /\ ~locked))
        <5> DEFINE m == Reload(writing.store, locked)
        <5>1. /\ m = [log |-> m.log, curves |-> m.curves, last |-> m.last,
                      slot |-> m.slot]
              /\ IsCurves(m.curves) /\ m.slot \in 0..1
              /\ writing.store # "curves" => m.curves = ram.curves /\ m.slot = ram.slot
              /\ writing.store = "curves" /\ locked =>
                   m.slot = CurveSlot /\ m.curves = Found("curves")
          BY <2>12, <2>21, <3>3
        <5>2. ram' = m
          BY <4>2
        <5> HIDE DEF m
        <5> QED
          BY <3>1, <4>2, <5>1, <5>2
      <4> QED
        BY <3>9, <4>1, <4>2
    <3>12. (~setBack => /\ "curves" \notin torn => Newer(ram.slot)
                        /\ flash.curves[ram.slot].valid =>
                             flash.curves[ram.slot].data.generation <= ram.curves.generation)'
      <4>1. CASE ram'.curves = ram.curves /\ ram'.slot = s
        <5>1. ~setBack' /\ "curves" \notin torn' => Newer(ram.slot)'
          BY <3>2, <3>4, <3>10, <4>1 DEF Newer
        <5> QED
          BY <2>1, <3>1, <3>4, <3>7, <3>10, <4>1, <5>1
      <4>2. CASE ram'.slot = CurveSlot /\ ram'.curves = Found("curves")
        BY <2>13, <3>1, <3>2, <3>4, <3>7, <3>10, <4>2
      <4> QED
        BY <3>11, <4>1, <4>2
    <3>13. MemoryShaped'
      BY <2>2, <3>2, <3>10, <3>11 DEF MemoryShaped
    <3>14. /\ ~setBack' /\ "curves" \notin torn' => Found("curves")' \in accepted'["curves"]
           /\ "last" \notin torn' /\ (writing = Idle)'
      BY <2>1, <3>2, <3>8, <3>10
    <3> QED
      BY <3>4, <3>6, <3>7, <3>8, <3>12, <3>13, <3>14 DEF HistoryKept
  \* A store is loaded again while nothing is saved.
  <2>22. ASSUME NEW store \in Stores, ram' = Reload(store, TRUE), flash' \in Rewritten(store),
                writing = Idle, UNCHANGED <<writing, accepted, torn>>, TasksShaped',
                setBack' \in BOOLEAN, setBack => setBack'
         PROVE  HistoryKept'
    <3> DEFINE m == Reload(store, TRUE)
    <3>1. /\ m = [log |-> m.log, curves |-> m.curves, last |-> m.last, slot |-> m.slot]
          /\ IsCurves(m.curves) /\ m.slot \in 0..1
          /\ store # "curves" => m.curves = ram.curves /\ m.slot = ram.slot
          /\ store = "curves" =>
               m.slot = CurveSlot /\ m.curves = Found("curves")
      BY <2>12, <2>22
    <3>2. ram' = m
      BY <2>22
    <3> HIDE DEF m
    <3>3. Booted /\ Booted'
      BY <2>3, <2>22 DEF Booted
    <3>4. /\ FlashShaped' /\ flash'.curves = flash.curves /\ flash'.last = flash.last
          /\ LogKept'
      BY <1>26, <2>1, <2>22, <2>8
    <3>5. MemoryShaped'
      BY <2>1, <2>2, <2>22, <3>1, <3>2 DEF MemoryShaped
    <3>6. /\ Found("last")' = Found("last")
          /\ Found("curves")' = Found("curves")
          /\ \A s \in 0..1 : Newer(s)' <=> Newer(s)
      BY <1>23, <1>25, <3>4
    <3>7. PICK s \in 0..1 : s = ram.slot
      BY <2>2
    <3>8. (~setBack =>
             /\ "curves" \notin torn => Newer(ram.slot)
             /\ flash.curves[ram.slot].valid =>
                   flash.curves[ram.slot].data.generation <= ram.curves.generation)'
      <4>1. CASE store = "curves"
        BY <2>13, <2>22, <3>1, <3>2, <3>3, <3>4, <3>7, <4>1
      <4>2. CASE store # "curves"
        <5>1. ~setBack' /\ "curves" \notin torn' => Newer(ram.slot)'
          BY <2>1, <2>22, <3>1, <3>2, <3>3, <3>4, <3>7, <4>2 DEF Newer
        <5> QED
          BY <2>1, <2>22, <3>1, <3>2, <3>3, <3>4, <4>2, <5>1
      <4> QED
        BY <4>1, <4>2
    <3> QED
      BY <2>1, <2>22, <3>3, <3>4, <3>5, <3>6, <3>8 DEF HistoryKept
  <2>23. ASSUME NEW locked \in BOOLEAN, ServeLate(locked)
         PROVE  HistoryKept'
    <3>1. /\ http # <<>> /\ writing.by # "http" /\ (locked => writing = Idle)
          /\ UNCHANGED <<writing, accepted, torn>>
      BY <2>23 DEF ServeLate
    <3>2. PICK t : t = Head(http) /\ t.store \in Stores
      BY <2>5, <3>1
    <3>3. \/ http' = Tail(http) /\ UNCHANGED <<ram, dirty, flash, setBack>>
          \/ http' = <<>> /\ UNCHANGED <<ram, dirty, flash, setBack>>
          \/ /\ Failed(t.store, locked)
             /\ IF locked THEN flash' \in Rewritten(t.store) ELSE flash' = flash
      <4> HIDE DEF Failed, Rewritten
      <4> QED
        BY <2>23, <3>2 DEF ServeLate
    <3>4. /\ http' = <<>> \/ http' = Tail(http)
          /\ dirty' \subseteq Stores
      BY <2>7, <3>2, <3>3 DEF Failed, Stores
    <3>5. TasksShaped'
      BY <2>6, <3>1, <3>4
    <3>6. CASE UNCHANGED <<ram, flash, setBack>>
      BY <2>16, <3>1, <3>5, <3>6
    <3>7. CASE /\ Failed(t.store, locked)
               /\ IF locked THEN flash' \in Rewritten(t.store) ELSE flash' = flash
      <4>1. CASE t.store = "last"
        <5>1. flash' = flash
          BY <3>7, <4>1 DEF Rewritten
        <5> QED
          BY <2>16, <3>1, <3>5, <3>7, <4>1, <5>1 DEF Failed
      <4>2. CASE t.store # "last"
        <5>1. ram' = Reload(t.store, locked)
              /\ setBack' = (setBack \/ (t.store = "curves" /\ ~locked))
          BY <3>7, <4>2 DEF Failed
        <5>2. setBack' \in BOOLEAN /\ (setBack => setBack')
          BY <2>2, <5>1
        <5>3. CASE locked
          BY <2>22, <3>1, <3>2, <3>5, <3>7, <5>1, <5>2, <5>3
        <5>4. CASE ~locked
          <6> DEFINE m == Reload(t.store, locked)
          <6>1. /\ m = [log |-> m.log, curves |-> m.curves, last |-> m.last,
                        slot |-> m.slot]
                /\ IsCurves(m.curves) /\ m.slot = ram.slot
                /\ t.store # "curves" => m.curves = ram.curves
            BY <2>12, <2>23, <3>2, <5>4
          <6>2. ram' = m
            BY <5>1
          <6> HIDE DEF m
          <6>3. /\ ram' = [log |-> ram'.log, curves |-> ram'.curves, last |-> ram'.last,
                           slot |-> ram'.slot]
                /\ IsCurves(ram'.curves) /\ ram'.slot = ram.slot
                /\ t.store # "curves" => ram'.curves = ram.curves
            BY <6>1, <6>2
          <6>4. ~setBack' => ram'.curves.generation >= ram.curves.generation
            <7>1. ~setBack' => t.store # "curves"
              BY <5>1, <5>4, Zenon
            <7> QED
              BY <2>2, <6>3, <7>1
          <6>5. flash' = flash
            BY <3>7, <5>4
          <6> QED
            BY <2>9, <3>1, <3>5, <5>2, <6>3, <6>4, <6>5
        <5> QED
          BY <5>3, <5>4
      <4> QED
        BY <4>1, <4>2
    <3> QED
      BY <3>3, <3>6, <3>7
  \* What a change makes of the curves
  <2>24. ASSUME NEW t, NEW store \in Stores, store = "curves"
         PROVE  /\ IsCurves(Changed(store, t))
                /\ t.change # "clear" => Changed(store, t).generation = ram.curves.generation
    <3> DEFINE data == Changed(store, t)
               ids == SelectSeq(ram.curves.ids, LAMBDA i : i # t.id)
               c == [ram.curves EXCEPT !.ids = ids]
    <3>1. data = CASE t.change = "clear" -> Empty[store]
                   [] t.change = "remove" -> c
                   [] OTHER -> ram[store]
      BY <2>24 DEF Changed
    <3> HIDE DEF data, ids
    <3>2. c = [ids |-> ids, generation |-> ram.curves.generation]
      BY <2>2 DEF IsCurves
    <3> HIDE DEF c
    <3>3. IsCurves(c) /\ c.generation = ram.curves.generation
      BY <2>2, <3>2 DEF IsCurves
    <3>4. IsCurves(Empty["curves"])
      BY DEF IsCurves, Empty, NoCurves
    <3>5. IsCurves(data) /\ (t.change # "clear" => data.generation = ram.curves.generation)
      BY <2>2, <2>24, <3>1, <3>3, <3>4
    <3> QED
      BY <3>5 DEF data
  <2>25. CASE Make
    <3>1. PICK t : t = Head(http)
      OBVIOUS
    <3>2. /\ http # <<>> /\ UNCHANGED <<flash, writing, flush, used, accepted, torn>>
          /\ \/ http' = <<>> /\ UNCHANGED <<ram, dirty, setBack>>
             \/ /\ http' = [http EXCEPT ![1] = Made(t)]
                /\ ram' = [ram EXCEPT ![t.store] = Changed(t.store, t)]
                /\ dirty' \in {dirty, dirty \ {"last"}}
                /\ setBack' = (setBack \/ (t.store = "curves" /\ t.change = "clear"))
      <4> HIDE DEF Changed, Gone
      <4> QED
        BY <2>25, <3>1 DEF Make
    <3>3. CASE http' = <<>> /\ UNCHANGED <<ram, dirty, setBack>>
      <4>1. TasksShaped'
        BY <2>6, <2>7, <3>3
      <4>2. writing = Idle \/ ~Booted \/ writing.by # "http"
        BY <2>25 DEF Make
      <4> QED
        BY <2>16, <3>2, <3>3, <4>1, <4>2
    <3>4. CASE /\ http' = [http EXCEPT ![1] = Made(t)]
               /\ ram' = [ram EXCEPT ![t.store] = Changed(t.store, t)]
               /\ dirty' \in {dirty, dirty \ {"last"}}
               /\ setBack' = (setBack \/ (t.store = "curves" /\ t.change = "clear"))
      <4>1. PICK tasks :
               /\ http \in Seq(tasks)
               /\ \A u \in tasks :
                     /\ u = [store |-> u.store, change |-> u.change, id |-> u.id,
                             made |-> u.made]
                     /\ u.store \in Stores /\ (u.change = "erase" => u.store # "curves")
        BY <2>1 DEF TasksShaped
      <4> DEFINE done == [store |-> t.store, change |-> t.change, id |-> t.id, made |-> TRUE]
                 more == tasks \cup {done}
      <4>2. t \in tasks /\ 1 \in DOMAIN http /\ http[1] = t
        BY <3>1, <3>2, <4>1
      <4>3. http' = [http EXCEPT ![1] = done]
        BY <3>4 DEF Made
      <4>4. \A u \in more :
               /\ u = [store |-> u.store, change |-> u.change, id |-> u.id, made |-> u.made]
               /\ u.store \in Stores /\ (u.change = "erase" => u.store # "curves")
        BY <4>1, <4>2
      <4>5. done \in more /\ tasks \subseteq more
        OBVIOUS
      <4> HIDE DEF done, more
      <4>6. http' \in Seq(more) /\ http' # <<>>
        <5>1. http \in Seq(more)
          BY <4>1, <4>5
        <5> QED
          BY <3>2, <4>3, <4>5, <5>1
      <4>7. TasksShaped'
        BY <2>7, <3>4, <4>4, <4>6 DEF TasksShaped
      <4>8. PICK store \in Stores : store = t.store
        BY <4>1, <4>2
      <4> DEFINE data == Changed(store, t)
      <4>9. store = "curves" => /\ IsCurves(data)
                                /\ t.change # "clear" => data.generation = ram.curves.generation
        BY <2>24
      <4>10. ram' = [ram EXCEPT ![store] = data]
        BY <3>4, <4>8
      <4> HIDE DEF data
      <4>11. /\ ram' = [log |-> ram'.log, curves |-> ram'.curves, last |-> ram'.last,
                        slot |-> ram'.slot]
             /\ ram'.slot = ram.slot
             /\ ram'.curves = IF store = "curves" THEN data ELSE ram.curves
        <5> DEFINE m == [ram EXCEPT ![store] = data]
        <5>1. /\ m = [log |-> m.log, curves |-> m.curves, last |-> m.last, slot |-> m.slot]
              /\ m.slot = ram.slot
              /\ m.curves = IF store = "curves" THEN data ELSE ram.curves
          BY <1>18, <2>1, <4>9
        <5>2. ram' = m
          BY <4>10
        <5> HIDE DEF m
        <5> QED
          BY <5>1, <5>2
      <4>12. setBack' \in BOOLEAN /\ (setBack => setBack')
        BY <2>2, <3>4
      <4>13. ~setBack' => ram'.curves.generation >= ram.curves.generation
        <5>1. ~setBack' /\ store = "curves" => t.change # "clear"
          BY <3>4, <4>8, Zenon
        <5> QED
          BY <2>2, <4>9, <4>11, <5>1
      <4>14. IsCurves(ram'.curves)
        BY <2>2, <4>9, <4>11
      <4> QED
        BY <2>9, <3>2, <4>6, <4>7, <4>11, <4>12, <4>13, <4>14
    <3> QED
      BY <3>2, <3>3, <3>4
  <2>26. CASE Serve
    <3>1. http # <<>> /\ writing = Idle /\ UNCHANGED <<flush, used, setBack>>
      BY <2>26 DEF Serve
    <3>2. PICK t : /\ t = Head(http) /\ t.store \in Stores
                   /\ t.change = "erase" => t.store # "curves"
      BY <2>5, <3>1
    <3> DEFINE erases == Erase(t.store)
               verifies == Verify(t.store)
               gone == t.change = "remove" /\ Gone(t)
               ends == http' = <<>> /\ UNCHANGED <<ram, dirty, flash, writing, accepted, torn>>
               new == IF t.change = "remove" THEN Changed(t.store, t) ELSE ram[t.store]
               saves == /\ Begin("http", t.store, new)
                        /\ UNCHANGED <<dirty, flash, http, accepted, torn>>
    <3>3. (CASE t.change = "erase" -> erases
             [] t.change = "verify" -> verifies
             [] gone -> ends
             [] OTHER -> saves)
      BY <2>26, <3>2, Zenon DEF Serve
    <3> HIDE DEF erases, verifies, gone, ends, saves
    <3>4. \/ t.change = "erase" /\ erases
          \/ t.change = "verify" /\ verifies
          \/ ends
          \/ saves
      BY <3>3
    <3>5. CASE t.change = "erase" /\ erases
      <4>1. t.store \in {"log", "last"}
        BY <3>2, <3>5 DEF Stores
      <4> DEFINE none == [s \in 0..1 |-> Nothing]
                 l == [active |-> 2, slots |-> none]
                 a == [flash EXCEPT !.log = l]
                 b == [flash EXCEPT !.last = Nothing]
                 one == {Empty[t.store]}
                 e == Empty[t.store]
                 m == [ram EXCEPT ![t.store] = e]
      <4>2. /\ flash' = (IF t.store = "log" THEN a ELSE b)
            /\ ram' = m /\ accepted' = [accepted EXCEPT ![t.store] = one]
            /\ dirty' = (IF t.store = "log" THEN dirty \ {t.store} ELSE dirty)
            /\ http' = Tail(http) /\ writing' = writing /\ torn' = torn \ {t.store}
        BY <3>5, Zenon DEF erases, Erase
      <4>3. TasksShaped'
        BY <2>6, <2>7, <3>1, <4>2
      <4>4. /\ m = [log |-> m.log, curves |-> m.curves, last |-> m.last, slot |-> m.slot]
            /\ m.slot = ram.slot /\ m.curves = ram.curves
        BY <1>18, <2>1, <3>2, <4>1
      <4> HIDE DEF m, one
      <4>5. /\ accepted' = [st \in Stores |-> accepted'[st]]
            /\ \A st \in Stores :
                  accepted'[st] = IF st = t.store THEN one ELSE accepted[st]
        BY <2>2, <3>2, <4>2
      <4>6. MemoryShaped'
        <5>1. setBack' \in BOOLEAN /\ torn' \subseteq Stores
          BY <2>2, <3>1, <4>2
        <5> QED
          BY <2>2, <4>2, <4>4, <4>5, <5>1 DEF MemoryShaped
      <4>7. none = [s \in 0..1 |-> none[s]] /\ \A s \in 0..1 : none[s] = Nothing
        OBVIOUS
      <4> HIDE DEF none
      <4>8. l.active = 2 /\ l.slots = none /\ l = [active |-> l.active, slots |-> l.slots]
        OBVIOUS
      <4> HIDE DEF l
      <4>9. /\ a = [log |-> l, curves |-> flash.curves, last |-> flash.last]
            /\ b = [log |-> flash.log, curves |-> flash.curves, last |-> Nothing]
        BY <2>1 DEF FlashShaped
      <4> HIDE DEF a, b
      <4>10. /\ FlashShaped'
             /\ flash'.curves = flash.curves
             /\ t.store = "log" => flash'.last = flash.last /\ flash'.log = l
             /\ t.store = "last" => flash'.log = flash.log /\ flash'.last = Nothing
        <5>1. CASE t.store = "log"
          <6>1. /\ flash' = [log |-> flash'.log, curves |-> flash'.curves, last |-> flash'.last]
                /\ flash'.log = l /\ flash'.curves = flash.curves /\ flash'.last = flash.last
            BY <4>2, <4>9, <5>1
          <6>2. /\ flash'.log = [active |-> flash'.log.active, slots |-> flash'.log.slots]
                /\ flash'.log.active = 2 /\ flash'.log.slots = none
            BY <4>8, <6>1
          <6> QED
            BY <1>21, <2>1, <4>7, <5>1, <6>1, <6>2 DEF FlashShaped
        <5>2. CASE t.store = "last"
          <6>1. /\ flash' = [log |-> flash'.log, curves |-> flash'.curves, last |-> flash'.last]
                /\ flash'.log = flash.log /\ flash'.curves = flash.curves
                /\ flash'.last = Nothing
            BY <4>2, <4>9, <5>2
          <6> QED
            BY <1>21, <2>1, <5>2, <6>1 DEF FlashShaped
        <5> QED
          BY <4>1, <5>1, <5>2
      <4>11. LogKept' /\ Found("last")' \in accepted'["last"]
        <5>1. CASE t.store = "log"
          <6>1. Found("log")' = NoLog
            BY <1>1, <1>13, <4>7, <4>8, <4>10, <5>1 DEF Reads
          <6>2. Found("last")' = Found("last")
            BY <1>25, <4>10, <5>1
          <6>3. accepted'["log"] = {NoLog} /\ Empty["log"] = NoLog
            BY <4>5, <5>1 DEF one, Empty, Stores
          <6>4. flash'.log.active = 2
            BY <4>8, <4>10, <5>1
          <6>5. LogKept'
            BY <6>1, <6>3, <6>4 DEF LogKept, Empty
          <6> QED
            BY <2>1, <4>5, <5>1, <6>2, <6>5 DEF Stores
        <5>2. CASE t.store = "last"
          <6>1. Found("last")' = NoLast
            BY <1>1, <1>13, <4>10, <5>2 DEF Reads
          <6>2. Found("log")' = Found("log")
            BY <1>24, <4>10, <5>2
          <6>3. accepted'["log"] = accepted["log"] /\ accepted'["last"] = {NoLast}
            BY <4>5, <5>2 DEF one, Empty, Stores
          <6>4. flash'.log = flash.log /\ ("log" \notin torn' => "log" \notin torn)
            BY <4>2, <4>10, <5>2
          <6>5. LogKept'
            BY <2>1, <6>2, <6>3, <6>4 DEF LogKept, Empty
          <6> QED
            BY <6>1, <6>3, <6>5
        <5> QED
          BY <4>1, <5>1, <5>2
      <4>12. /\ Found("curves")' = Found("curves")
             /\ accepted'["curves"] = accepted["curves"]
             /\ \A s \in 0..1 : Newer(s)' <=> Newer(s)
        BY <1>23, <4>1, <4>5, <4>10 DEF Stores
      <4>13. ram'.slot = ram.slot /\ ram'.curves = ram.curves
        BY <4>2, <4>4
      <4>14. Booted /\ Booted'
        BY <2>3, <3>1, <4>2 DEF Booted
      <4>15. /\ "last" \notin torn'
             /\ "curves" \notin torn' <=> "curves" \notin torn
        BY <2>1, <4>1, <4>2
      <4>16. ~setBack' =>
               /\ "curves" \notin torn' => Newer(ram.slot)'
               /\ (flash.curves[ram.slot].valid =>
                     flash.curves[ram.slot].data.generation <= ram.curves.generation)'
        <5>1. ~setBack' /\ "curves" \notin torn' => Newer(ram.slot)'
          BY <2>1, <3>1, <4>10, <4>13, <4>14, <4>15 DEF Newer
        <5> QED
          BY <2>1, <3>1, <4>10, <4>13, <4>14, <5>1
      <4>17. /\ ~setBack' /\ "curves" \notin torn' => Found("curves")' \in accepted'["curves"]
             /\ (writing = Idle)'
        BY <2>1, <3>1, <4>2, <4>12, <4>15
      <4> QED
        BY <4>3, <4>6, <4>10, <4>11, <4>14, <4>15, <4>16, <4>17 DEF HistoryKept
    <3>6. CASE t.change = "verify" /\ verifies
      <4>1. /\ ram' = Reload(t.store, TRUE) /\ http' = Tail(http)
            /\ flash' \in Rewritten(t.store)
            /\ dirty' = (IF t.store = "last" THEN dirty ELSE dirty \ {t.store})
            /\ UNCHANGED <<writing, accepted, torn>>
        BY <3>6, Zenon DEF verifies, Verify
      <4>2. TasksShaped'
        BY <2>6, <2>7, <3>1, <4>1
      <4>3. setBack' \in BOOLEAN /\ (setBack => setBack')
        BY <2>2, <3>1
      <4> QED
        BY <2>22, <3>1, <3>2, <4>1, <4>2, <4>3
    <3>7. CASE ends
      <4>1. TasksShaped'
        BY <2>6, <2>7, <3>7 DEF ends
      <4> QED
        BY <2>16, <3>1, <3>7, <4>1 DEF ends
    <3>8. CASE saves
      <4>1. PICK store \in Stores : store = t.store
        BY <3>2
      <4>2. Begin("http", store, new) /\ UNCHANGED <<dirty, flash, http, accepted, torn>>
        BY <3>8, <4>1 DEF saves
      <4>3. TasksShaped'
        BY <2>6, <2>7, <4>2
      <4>4. ASSUME store = "curves"
            PROVE  IsCurves(new) /\ new.generation >= ram.curves.generation
        <5>1. CASE t.change = "remove"
          <6>1. new = Changed(store, t)
            BY <4>1, <5>1
          <6> HIDE DEF new
          <6>2. IsCurves(new) /\ new.generation = ram.curves.generation
            BY <2>24, <4>4, <5>1, <6>1
          <6> QED
            BY <2>2, <6>2
        <5>2. CASE t.change # "remove"
          <6>1. new = ram.curves
            BY <2>2, <4>1, <4>4, <5>2
          <6> HIDE DEF new
          <6> QED
            BY <2>2, <6>1
        <5> QED
          BY <5>1, <5>2
      <4> HIDE DEF new
      <4>5. PICK d : d = new
        OBVIOUS
      <4>6. /\ Begin("http", store, d) /\ UNCHANGED <<flash, accepted, torn>> /\ http' # <<>>
            /\ store = "curves" => IsCurves(d) /\ d.generation >= ram.curves.generation
        BY <3>1, <4>2, <4>4, <4>5
      <4> QED
        BY <2>10, <3>1, <4>3, <4>6
    <3> QED
      BY <3>4, <3>5, <3>6, <3>7, <3>8
  <2>27. ASSUME NEW tasks \in Requests, Request(tasks)
         PROVE  HistoryKept'
    <3> DEFINE ids == CurveIds \cup LoggedIds \cup {0, ram.last.shot}
               kinds == {"remove", "clear", "rate", "verify"}
               all == {Task(st, ch, id) :
                          st \in Stores, ch \in kinds, id \in ids}
                      \cup {Task("log", "erase", 0), Task("last", "erase", 0)}
    <3>1. \A st \in Stores, ch \in kinds, id \in ids : Task(st, ch, id) \in all
      OBVIOUS
    <3>2. /\ Task("log", "erase", 0) \in all
          /\ Task("last", "erase", 0) \in all
      OBVIOUS
    <3>3. \A t \in all :
             /\ t = [store |-> t.store, change |-> t.change, id |-> t.id, made |-> t.made]
             /\ t.store \in Stores
             /\ t.change = "erase" => t.store # "curves"
      BY DEF Task, Stores
    <3>4. /\ \A i \in CurveIds \cup LoggedIds : i \in ids
          /\ 0 \in ids /\ ram.last.shot \in ids
          /\ {"log", "curves", "last"} \subseteq Stores
          /\ {"remove", "clear", "rate", "verify"} \subseteq kinds
      BY DEF Stores
    <3> HIDE DEF all, ids, kinds
    <3>5. \A a, b \in Seq(all) : a \o b \in Seq(all)
      OBVIOUS
    <3>6. /\ \A a \in all : <<a>> \in Seq(all)
          /\ \A a, b \in all : <<a, b>> \in Seq(all)
          /\ \A a, b, c, d, e, f, g, h \in all : <<a, b, c, d, e, f, g, h>> \in Seq(all)
          /\ <<>> \in Seq(all)
      OBVIOUS
    <3>7. tasks \in Seq(all)
      <4>1. CASE tasks \in {TaskIf(i \in CurveIds,
                                           Task("curves", "remove", i))
                              \o TaskIf(i \in LoggedIds,
                                                Task("log", "remove", i)) :
                              i \in CurveIds \cup LoggedIds}
        <5>1. PICK i \in CurveIds \cup LoggedIds :
                     tasks = TaskIf(i \in CurveIds,
                                            Task("curves", "remove", i))
                               \o TaskIf(i \in LoggedIds,
                                                 Task("log", "remove", i))
          BY <4>1
        <5>2. /\ Task("curves", "remove", i) \in all
              /\ Task("log", "remove", i) \in all
          BY <3>1, <3>4
        <5>3. /\ TaskIf(i \in CurveIds, Task("curves", "remove", i))
                   \in Seq(all)
              /\ TaskIf(i \in LoggedIds, Task("log", "remove", i))
                   \in Seq(all)
          BY <3>6, <5>2 DEF TaskIf
        <5> QED
          BY <3>5, <5>1, <5>3
      <4>2. CASE tasks \in
                   {<<Task("curves", "clear", 0), Task("log", "clear", 0)>>,
                    <<Task("last", "clear", 0)>>,
                    <<Task("log", "erase", 0), Task("last", "erase", 0),
                      Task("log", "clear", 0), Task("curves", "clear", 0),
                      Task("last", "clear", 0), Task("log", "verify", 0),
                      Task("curves", "verify", 0), Task("last", "verify", 0)>>}
        <5>1. /\ Task("log", "clear", 0) \in all
              /\ Task("curves", "clear", 0) \in all
              /\ Task("last", "clear", 0) \in all
              /\ Task("log", "verify", 0) \in all
              /\ Task("curves", "verify", 0) \in all
              /\ Task("last", "verify", 0) \in all
          BY <3>1, <3>4
        <5> QED
          <6>1. <<Task("curves", "clear", 0), Task("log", "clear", 0)>>
                  \in Seq(all)
            BY <3>6, <5>1
          <6>2. <<Task("last", "clear", 0)>> \in Seq(all)
            BY <3>6, <5>1
          <6>3. <<Task("log", "erase", 0), Task("last", "erase", 0),
                  Task("log", "clear", 0), Task("curves", "clear", 0),
                  Task("last", "clear", 0), Task("log", "verify", 0),
                  Task("curves", "verify", 0), Task("last", "verify", 0)>>
                  \in Seq(all)
            BY <3>2, <3>6, <5>1
          <6> QED
            BY <4>2, <6>1, <6>2, <6>3, Zenon
      <4>3. CASE tasks \in {<<Task("log", "rate", i)>>
                              \o TaskIf(ram.last.shot = i,
                                                Task("last", "rate", i)) :
                              i \in LoggedIds}
        <5>1. PICK i \in LoggedIds :
                     tasks = <<Task("log", "rate", i)>>
                               \o TaskIf(ram.last.shot = i,
                                                 Task("last", "rate", i))
          BY <4>3
        <5>2. Task("log", "rate", i) \in all /\ Task("last", "rate", i) \in all
          BY <3>1, <3>4
        <5>3. /\ <<Task("log", "rate", i)>> \in Seq(all)
              /\ TaskIf(ram.last.shot = i, Task("last", "rate", i)) \in Seq(all)
          BY <3>6, <5>2 DEF TaskIf
        <5> QED
          BY <3>5, <5>1, <5>3
      <4>4. CASE tasks \in {<<Task("last", "rate", i)>> :
                              i \in {ram.last.shot} \ (LoggedIds \cup {0})}
        <5>1. Task("last", "rate", ram.last.shot) \in all
          BY <3>1, <3>4
        <5> QED
          BY <3>6, <4>4, <5>1
      <4> QED
        BY <2>27, <4>1, <4>2, <4>3, <4>4, Zenon DEF Requests
    <3>8. /\ UNCHANGED <<ram, dirty, flash, writing, accepted, setBack, torn>>
          /\ http = <<>> /\ http' = tasks
      BY <2>27 DEF Request
    <3>9. TasksShaped'
      BY <2>7, <3>3, <3>7, <3>8 DEF TasksShaped
    <3> QED
      BY <2>14, <2>16, <3>8, <3>9
  <2>28. ASSUME NEW done \in BOOLEAN, Crash(done), Booted
         PROVE  HistoryKept'
    <3>1. PICK s \in 0..1 : s = ram.slot
      BY <2>2
    <3> DEFINE cut == [flash EXCEPT !.curves[writing.slot] = Nothing]
    <3>2. /\ flash' = AfterCrash(done) /\ writing' = [by |-> "boot"]
          /\ dirty' = {} /\ http' = <<>> /\ ram' = ram /\ accepted' = accepted /\ setBack' = setBack
          /\ done => writing # Idle /\ writing.step # "copy"
          /\ torn' = (IF done /\ ~MoreSteps THEN TornNow ELSE torn)
      BY <2>28, Zenon DEF Crash
    <3>3. \/ flash' = flash /\ torn' = torn
          \/ SaveShaped /\ writing.step # "copy" /\ flash' = InFlash
             /\ torn' = (IF MoreSteps THEN torn ELSE TornNow)
          \/ SaveShaped /\ writing.step = "write" /\ flash' = cut /\ torn' = torn
      <4> DEFINE whole == [flash EXCEPT !.curves[writing.slot] = Copied]
      <4>1. AfterCrash(done)
              = IF writing = Idle THEN flash
                ELSE IF writing.step = "write"
                     THEN [flash EXCEPT !.curves[writing.slot] =
                              IF done THEN Copied ELSE Nothing]
                     ELSE IF done THEN InFlash ELSE flash
        <5> DEFINE a == [flash EXCEPT !.curves[writing.slot] =
                            IF done THEN Copied ELSE Nothing]
                   b == IF done THEN InFlash ELSE flash
        <5>1. AfterCrash(done)
                = CASE writing = Idle -> flash
                    [] writing # Idle /\ writing.step = "write" -> a
                    [] OTHER -> b
          BY Zenon DEF AfterCrash
        <5> HIDE DEF a, b
        <5>2. AfterCrash(done)
                = IF writing = Idle THEN flash ELSE IF writing.step = "write" THEN a ELSE b
          BY <5>1
        <5> QED
          BY <5>2, Zenon DEF a, b
      <4>2. CASE writing = Idle
        <5>1. ~done
          BY <3>2, <4>2
        <5> QED
          BY <3>2, <4>1, <4>2, <5>1, Zenon
      <4>3. CASE writing # Idle /\ writing.step = "write"
        <5>1. SaveShaped
          BY <2>1, <2>28, <4>3
        <5>2. CASE done
          <6>1. flash' = whole
            BY <3>2, <4>1, <4>3, <5>2, Zenon
          <6>2. InFlash = whole
            BY <1>19, <4>3, <5>1
          <6> HIDE DEF whole
          <6>3. torn' = (IF MoreSteps THEN torn ELSE TornNow)
            BY <3>2, <5>2, Zenon
          <6> QED
            BY <3>2, <5>1, <5>2, <6>1, <6>2, <6>3
        <5>3. CASE ~done
          <6>1. flash' = cut /\ torn' = torn
            BY <3>2, <4>1, <4>3, <5>3, Zenon
          <6> HIDE DEF cut
          <6> QED
            BY <4>3, <5>1, <6>1
        <5> QED
          BY <5>2, <5>3
      <4>4. CASE writing # Idle /\ writing.step # "write"
        <5>1. SaveShaped
          BY <2>1, <2>28, <4>4
        <5>2. flash' = (IF done THEN InFlash ELSE flash)
          BY <3>2, <4>1, <4>4, Zenon
        <5>3. CASE done
          <6>1. torn' = (IF MoreSteps THEN torn ELSE TornNow)
            BY <3>2, <5>3, Zenon
          <6> QED
            BY <3>2, <5>1, <5>2, <5>3, <6>1
        <5>4. CASE ~done
          BY <3>2, <5>2, <5>4, Zenon
        <5> QED
          BY <5>3, <5>4
      <4> QED
        BY <4>2, <4>3, <4>4
    <3>4. /\ FlashShaped' /\ LogKept'
          /\ Found("last")' \in accepted["last"] /\ "last" \notin torn'
          /\ ~setBack /\ "curves" \notin torn' =>
               /\ Found("curves")' \in accepted["curves"]
               /\ Newer(s)' \/ Newer(1 - s)'
      <4>1. CASE flash' = flash /\ torn' = torn
        <5>1. FlashShaped'
          BY <2>1, <4>1 DEF FlashShaped
        <5>2. LogKept'
          BY <2>8, <3>2, <4>1
        <5> QED
          BY <1>23, <1>25, <2>1, <2>28, <3>1, <4>1, <5>1, <5>2
      <4>2. CASE /\ SaveShaped /\ writing.step # "copy" /\ flash' = InFlash
                 /\ torn' = (IF MoreSteps THEN torn ELSE TornNow)
        <5>1. /\ writing.data \in accepted[writing.store] /\ writing.whole \in BOOLEAN
              /\ \/ writing.store = "last" /\ writing.step = "put" /\ writing.whole
                 \/ writing.store = "log" /\ writing.step \in {"put", "point"}
                 \/ writing.store = "curves" /\ writing.step \in {"erase", "write"}
          BY <4>2 DEF SaveShaped
        <5>2. /\ FlashShaped'
              /\ writing.store # "log" => flash'.log = flash.log
              /\ writing.step = "put" /\ writing.store = "log" =>
                   /\ flash'.log.active = flash.log.active
                   /\ "log" \notin torn =>
                        /\ Found("log")' \in accepted["log"]
                        /\ flash.log.active # 2 => flash'.log.slots[flash.log.active].valid
              /\ writing.step = "point" =>
                   /\ flash'.log.active \in 0..1
                   /\ writing.whole => /\ Found("log")' = writing.data
                                       /\ flash'.log.slots[flash'.log.active].valid
              /\ writing.store # "last" => Found("last")' = Found("last")
              /\ writing.store = "last" => Found("last")' = writing.data
              /\ writing.store # "curves" => flash'.curves = flash.curves
              /\ ~setBack /\ "curves" \notin torn /\ writing.step = "erase" =>
                   Newer(s)' /\ Found("curves")' = Found("curves")
              /\ ~setBack /\ writing.step = "write" /\ writing.whole =>
                   Newer(1 - s)' /\ Found("curves")' = writing.data
          BY <1>28, <1>29, <3>1, <4>2
        <5>3. CASE writing.store = "last"
          <6>1. torn' = torn \ {"last"}
            BY <4>2, <5>1, <5>3 DEF MoreSteps, TornNow
          <6>2. LogKept'
            <7>1. "log" \notin torn' => "log" \notin torn
              BY <6>1
            <7>2. Found("log")' = Found("log")
              BY <1>24, <5>2, <5>3
            <7> QED
              BY <2>1, <3>2, <5>2, <5>3, <7>1, <7>2 DEF LogKept, Empty
          <6> QED
            BY <1>23, <2>1, <2>28, <3>1, <5>1, <5>2, <5>3, <6>1, <6>2
        <5>4. CASE writing.store = "log" /\ writing.step = "put"
          <6>1. torn' = torn
            BY <4>2, <5>4 DEF MoreSteps
          <6>2. LogKept'
            BY <2>1, <3>2, <5>2, <5>4, <6>1 DEF LogKept, Empty
          <6> QED
            BY <1>23, <2>1, <2>28, <3>1, <5>2, <5>4, <6>1, <6>2
        <5>5. CASE writing.store = "log" /\ writing.step = "point"
          <6>1. torn' = IF writing.whole THEN torn \ {"log"} ELSE torn \cup {"log"}
            BY <4>2, <5>5 DEF MoreSteps, TornNow
          <6>2. LogKept'
            BY <3>2, <5>1, <5>2, <5>5, <6>1 DEF LogKept, Empty
          <6> QED
            BY <1>23, <2>1, <2>28, <3>1, <5>2, <5>5, <6>1, <6>2
        <5>6. CASE writing.store = "curves"
          <6>1. torn' = IF writing.step = "erase" THEN torn
                        ELSE IF writing.whole THEN torn \ {"curves"} ELSE torn \cup {"curves"}
            BY <4>2, <5>1, <5>6 DEF MoreSteps, TornNow
          <6>2. LogKept'
            <7>1. "log" \notin torn' => "log" \notin torn
              BY <6>1
            <7>2. Found("log")' = Found("log")
              BY <1>24, <5>2, <5>6
            <7> QED
              BY <2>1, <3>2, <5>2, <5>6, <7>1, <7>2 DEF LogKept, Empty
          <6>3. CASE writing.step = "erase"
            BY <2>1, <5>2, <5>6, <6>1, <6>2, <6>3
          <6>4. CASE writing.step = "write"
            BY <2>1, <5>1, <5>2, <5>6, <6>1, <6>2, <6>4
          <6> QED
            BY <5>1, <5>6, <6>3, <6>4
        <5> QED
          BY <5>1, <5>3, <5>4, <5>5, <5>6
      <4>3. CASE SaveShaped /\ writing.step = "write" /\ flash' = cut /\ torn' = torn
        <5>1. writing.store = "curves"
          BY <4>3 DEF SaveShaped
        <5>2. /\ FlashShaped' /\ flash'.log = flash.log
              /\ Found("last")' = Found("last")
              /\ ~setBack /\ "curves" \notin torn =>
                   Newer(s)' /\ Found("curves")' = Found("curves")
          BY <1>27, <1>29, <3>1, <4>3, <5>1
        <5>3. LogKept'
          BY <2>8, <3>2, <4>3, <5>2
        <5> QED
          BY <2>1, <4>3, <5>2, <5>3
      <4> QED
        BY <3>3, <4>1, <4>2, <4>3
    <3>5. ~setBack' /\ "curves" \notin torn' => Newer(0)' \/ Newer(1)'
      <4>1. s = 0 \/ s = 1
        OBVIOUS
      <4> QED
        BY <3>2, <3>4, <4>1 DEF Newer
    <3>6. ~Booted'
      BY <3>2 DEF Booted
    <3>7. MemoryShaped'
      <4>1. setBack' \in BOOLEAN /\ torn' \subseteq Stores
        <5>1. SaveShaped => writing.store \in Stores
          BY DEF SaveShaped, Stores
        <5>2. SaveShaped => TornNow \subseteq Stores
          BY <2>2, <5>1 DEF TornNow
        <5>3. torn' \subseteq Stores
          BY <2>2, <3>3, <5>2
        <5> QED
          BY <2>2, <3>2, <5>3
      <4> QED
        BY <2>2, <3>2, <4>1 DEF MemoryShaped
    <3>8. TasksShaped'
      BY <2>6, <3>2
    <3>9. /\ ~setBack' /\ "curves" \notin torn' => Found("curves")' \in accepted'["curves"]
          /\ Found("last")' \in accepted'["last"]
      BY <3>2, <3>4
    <3> QED
      BY <3>4, <3>5, <3>6, <3>7, <3>8, <3>9 DEF HistoryKept
  <2>29. CASE Boot
    <3> DEFINE log == Found("log")
               one == accepted["log"] \cup {log}
               curves == Found("curves")
               cs == CurveSlot
    <3>1. /\ writing = [by |-> "boot"]
          /\ ram' = [log |-> log, curves |-> curves, last |-> Found("last"),
                    slot |-> cs]
          /\ flash' \in Rewritten("log")
          /\ writing' = [by |-> "loop", store |-> "log", data |-> log,
                          slot |-> Target("log")', step |-> "put", whole |-> TRUE]
          /\ accepted' = [accepted EXCEPT !["log"] = one]
          /\ UNCHANGED <<dirty, http, used, setBack, torn>>
      <4>1. [log |-> log, curves |-> curves, last |-> Found("last"),
             slot |-> cs].log = log
        OBVIOUS
      <4> QED
        BY <2>29, <4>1 DEF Boot
    <3>2. ~Booted
      BY <3>1 DEF Booted
    <3>3. cs \in 0..1 /\ IsCurves(curves)
      BY <1>7, <1>11, <2>1
    <3>4. /\ FlashShaped' /\ flash'.curves = flash.curves /\ flash'.last = flash.last
          /\ "log" \notin torn => flash'.log = flash.log
          /\ flash'.log.active = 2 => flash.log.active = 2
      BY <1>26, <2>1, <3>1
    <3> HIDE DEF log, one, curves
    <3>5. /\ ram' = [log |-> ram'.log, curves |-> ram'.curves, last |-> ram'.last,
                    slot |-> ram'.slot]
          /\ ram'.curves = curves /\ ram'.slot = cs
      BY <3>1
    <3>6. /\ writing' = [by |-> writing'.by, store |-> writing'.store, data |-> writing'.data,
                          slot |-> writing'.slot, step |-> writing'.step,
                          whole |-> writing'.whole]
          /\ writing'.by = "loop" /\ writing'.store = "log" /\ writing'.data = log
          /\ writing'.slot = Target("log")' /\ writing'.step = "put" /\ writing'.whole = TRUE
      BY <3>1
    <3>7. /\ accepted' = [st \in Stores |-> accepted'[st]]
          /\ \A st \in Stores : accepted'[st] = IF st = "log" THEN one ELSE accepted[st]
      BY <2>2, <3>1
    <3>8. /\ accepted'["log"] = one /\ accepted'["last"] = accepted["last"]
          /\ accepted'["curves"] = accepted["curves"]
      BY <3>7 DEF Stores
    <3>9. /\ Found("last")' = Found("last")
          /\ Found("curves")' = Found("curves")
          /\ \A s \in 0..1 : Newer(s)' <=> Newer(s)
      BY <1>23, <1>25, <3>4
    <3>10. LogKept'
      <4>1. "log" \notin torn => Found("log")' = Found("log")
        BY <1>24, <3>4
      <4> QED
        BY <2>1, <3>1, <3>8, <3>4, <4>1 DEF LogKept, Empty, one
    <3>11. MemoryShaped' /\ TasksShaped'
      <4>1. setBack' \in BOOLEAN /\ torn' \subseteq Stores
        BY <2>2, <3>1
      <4> QED
        BY <2>6, <2>7, <3>1, <3>3, <3>5, <3>7, <4>1 DEF MemoryShaped
    <3>12. SaveShaped'
      BY <3>6, <3>8 DEF one, SaveShaped
    <3>13. Booted'
      <4>1. [by |-> "boot"].by = "boot"
        OBVIOUS
      <4> QED
        BY <3>6, <4>1 DEF Booted
    <3>14. ~setBack' =>
             /\ "curves" \notin torn' => Newer(ram.slot)'
             /\ (flash.curves[ram.slot].valid =>
                   flash.curves[ram.slot].data.generation <= ram.curves.generation)'
      <4>1. PICK k \in 0..1 : k = cs
        BY <3>3
      <4>2. ~setBack /\ "curves" \notin torn => Newer(k)
        BY <1>10, <2>1, <3>2, <4>1
      <4>3. ~setBack' /\ "curves" \notin torn' => Newer(ram.slot)'
        BY <3>1, <3>5, <3>9, <4>1, <4>2 DEF Newer
      <4>4. flash.curves[k].valid => curves = flash.curves[k].data
        BY <1>6, <4>1 DEF curves
      <4>5. flash.curves[k].valid => flash.curves[k].data.generation \in Int
        BY <1>8, <2>1
      <4> QED
        BY <3>1, <3>5, <3>4, <4>1, <4>3, <4>4, <4>5
    <3>15. /\ Found("last")' \in accepted'["last"] /\ "last" \notin torn'
           /\ ~setBack' /\ "curves" \notin torn' => Found("curves")' \in accepted'["curves"]
      BY <2>1, <3>1, <3>8, <3>9
    <3> QED
      BY <3>11, <3>12, <3>13, <3>14, <3>15, <3>4, <3>10 DEF HistoryKept
  <2>30. CASE UNCHANGED historyVars
    <3>1. UNCHANGED <<ram, dirty, flash, writing, http, accepted, setBack, torn>>
      BY <2>30 DEF historyVars
    <3>2. TasksShaped'
      BY <2>6, <2>7, <3>1
    <3> QED
      BY <2>14, <2>16, <3>1, <3>2
  <2>31. ASSUME NEW locked \in BOOLEAN, WriteFails(locked), Booted
         PROVE  HistoryKept'
    BY <2>1, <2>21, <2>31 DEF WriteFails
  <2>32. CASE WriteStep /\ Booted
    BY <2>1, <2>19, <2>20, <2>32 DEF WriteStep
  <2> QED
    BY <1>29, <2>15, <2>17, <2>18, <2>23, <2>26, <2>27, <2>28, <2>29, <2>30, <2>31, <2>32,
       <2>11, <2>25 DEF HistoryNext
<1>30. HistoryInit => HistoryKept
  <2> SUFFICES ASSUME HistoryInit PROVE HistoryKept
    OBVIOUS
  <2> DEFINE none == [s \in 0..1 |-> Nothing]
             l == [active |-> 2, slots |-> none]
  <2>1. /\ ram = [log |-> NoLog, curves |-> NoCurves,
                 last |-> NoLast, slot |-> 0]
        /\ dirty = {} /\ writing = Idle /\ http = <<>> /\ setBack = FALSE /\ torn = {}
        /\ flash = [log |-> l, curves |-> none, last |-> Nothing]
        /\ accepted = [store \in Stores |-> {Empty[store]}]
    BY DEF HistoryInit
  <2>2. none = [s \in 0..1 |-> none[s]] /\ \A s \in 0..1 : none[s] = Nothing
    OBVIOUS
  <2> HIDE DEF none
  <2>3. l.active = 2 /\ l.slots = none /\ l = [active |-> l.active, slots |-> l.slots]
    OBVIOUS
  <2> HIDE DEF l
  <2>4. /\ flash = [log |-> flash.log, curves |-> flash.curves, last |-> flash.last]
        /\ flash.log = l /\ flash.curves = none /\ flash.last = Nothing
    BY <2>1
  <2>5. FlashShaped
    BY <1>21, <2>2, <2>3, <2>4 DEF FlashShaped
  <2>6. IsCurves(NoCurves)
    BY DEF IsCurves, NoCurves
  <2>7. /\ ram = [log |-> ram.log, curves |-> ram.curves, last |-> ram.last, slot |-> ram.slot]
        /\ ram.slot = 0 /\ ram.curves = NoCurves
    BY <2>1
  <2>8. /\ accepted = [store \in Stores |-> accepted[store]]
        /\ accepted["log"] = {NoLog} /\ accepted["last"] = {NoLast}
        /\ accepted["curves"] = {NoCurves}
    BY <2>1 DEF Stores, Empty
  <2>9. MemoryShaped
    <3>1. setBack \in BOOLEAN /\ torn \subseteq Stores
      BY <2>1
    <3> QED
      BY <2>6, <2>7, <2>8, <3>1 DEF MemoryShaped
  <2>10. TasksShaped
    <3>1. http \in Seq({})
      BY <2>1
    <3> QED
      <4>1. dirty \subseteq Stores
        BY <2>1
      <4>2. \A t \in {} :
               /\ t = [store |-> t.store, change |-> t.change, id |-> t.id, made |-> t.made]
               /\ t.store \in Stores /\ (t.change = "erase" => t.store # "curves")
        OBVIOUS
      <4>3. \E tasks :
               /\ http \in Seq(tasks)
               /\ \A t \in tasks :
                     /\ t = [store |-> t.store, change |-> t.change, id |-> t.id, made |-> t.made]
                     /\ t.store \in Stores /\ (t.change = "erase" => t.store # "curves")
        <5> WITNESS {}
        <5> QED
          BY <3>1, <4>2
      <4> QED
        BY <4>1, <4>3 DEF TasksShaped
  <2>11. Newer(0) /\ ~flash.curves[0].valid
    BY <1>1, <2>2, <2>4 DEF Newer
  <2>12. /\ Found("log") = NoLog /\ Found("last") = NoLast
         /\ Found("curves") = NoCurves
    BY <1>1, <1>12, <2>2, <2>3, <2>4, <2>5, <2>11 DEF Reads
  <2>13. flash.log.active = 2 /\ Empty["log"] = NoLog
    BY <2>3, <2>4 DEF Empty
  <2>14. LogKept
    BY <2>8, <2>12, <2>13 DEF LogKept
  <2>15. "last" \notin torn /\ Found("last") \in accepted["last"]
    BY <2>1, <2>8, <2>12
  <2> QED
    BY <2>1, <2>5, <2>7, <2>8, <2>9, <2>10, <2>11, <2>12, <2>14, <2>15 DEF HistoryKept
<1>31. HistoryKept => LoadFindsLastSave
  BY DEF HistoryKept, LogKept, LoadFindsLastSave, Stores
<1> QED
  BY <1>29, <1>30, <1>31, PTL DEF HistorySpec
=============================================================================
