---------------------------- MODULE DriverProofs ----------------------------
(***************************************************************************)
(* Proofs about the driver, for every number of servos, timeout, budget,   *)
(* window and set of hazards the assumptions of each theorem name.         *)
(***************************************************************************)
EXTENDS Driver, TLAPS

-----------------------------------------------------------------------------
(* The shape of a process.                                                   *)

\* A process that is not up is in no cycle, and one that is down knows nothing.
Asleep == /\ ~Up => stage = "sleep"
          /\ mode = "down" => /\ stray = {} /\ believed = {} /\ asked = {}
                              /\ pending = NoTxn
                              /\ ~latched /\ ~active /\ ~wireFailed /\ ~revoked

\* What a sleeping, publishing or absent driver leaves at rest, always.
LEMMA DriverShape == Spec => []Asleep
<1>1. Init => Asleep
  BY DEF Init, Fresh, Asleep
<1>2. Asleep /\ [Next]_vars => Asleep'
  <2> SUFFICES ASSUME Asleep, [Next]_vars PROVE Asleep'
    OBVIOUS
  <2> USE DEF Asleep, Up, vars, run, latch, gate, pass, slot, engage, cycle, machine, world
  <2>1. CASE Crash
    BY <2>1 DEF Crash, StandDown, PassIs
  <2>2. CASE Boot
    BY <2>2 DEF Boot
  <2>3. ASSUME Up, Up' PROVE Asleep'
    BY <2>3
  <2>4. ASSUME Seam PROVE Up /\ Up'
    BY <2>4 DEF Seam, KeepAlive, TorqueOffNow, OfferAux, EngageNow, OfferGoal, Hearing
  <2>5. ASSUME StartCycle \/ GateSweep \/ GateDeadMan \/ GateWrite PROVE Up /\ Up'
    BY <2>5 DEF StartCycle, GateSweep, GateDeadMan, GateWrite
  <2>6. ASSUME \/ NoEngagement \/ EngageHeld \/ EngageWait \/ EngageDeclined \/ EngageUnsent
               \/ EngageRun
        PROVE  Up /\ Up'
    BY <2>6 DEF NoEngagement, EngageHeld, EngageWait, EngageDeclined, EngageUnsent, EngageRun
  <2>7. ASSUME ConfirmComplete \/ ConfirmOverdue \/ ConfirmQuiet PROVE Up /\ Up'
    BY <2>7 DEF ConfirmComplete, ConfirmOverdue, ConfirmQuiet
  <2>8. ASSUME \/ HostEnable \/ HostEnableUnseen \/ HostRelease \/ HostReleaseUnseen
               \/ HostOther \/ ConfirmRead \/ NoHostWork
        PROVE  Up /\ Up'
    BY <2>8 DEF HostEnable, HostEnableUnseen, HostRelease, HostReleaseUnseen, HostOther,
                ConfirmRead, NoHostWork
  <2>9. ASSUME ReaderStops \/ FallCalm PROVE Up /\ Up'
    BY <2>9 DEF ReaderStops, FallCalm
  <2>10. ASSUME NEW skipped \in 0..MaxSkip, EndCycle(skipped) PROVE Asleep'
    <3>1. Up /\ stage' = "sleep" /\ mode' # "down"
      BY <2>10 DEF EndCycle, Wind
    <3> QED BY <3>1
  <2>11. ASSUME NEW back \in 1..MaxBack, ClockStepBack(back) PROVE Asleep'
    <3>1. Up /\ stage' = "sleep" /\ mode' # "down"
      BY <2>11 DEF ClockStepBack
    <3> QED BY <3>1
  <2>12. CASE Stop
    <3>1. stage' = "sleep" /\ mode' # "down"
      BY <2>12 DEF Stop
    <3> QED BY <3>1
  <2>13. CASE UNCHANGED vars
    BY <2>13
  <2> QED
    BY <2>1, <2>2, <2>3, <2>4, <2>5, <2>6, <2>7, <2>8, <2>9, <2>10, <2>11, <2>12, <2>13
       DEF Next, Cycle
<1> QED
  BY <1>1, <1>2, PTL DEF Spec

-----------------------------------------------------------------------------
(* Types.                                                                    *)

PassTypes == /\ active \in BOOLEAN /\ cursor \in 0..N
             /\ age \in (-MaxBack)..(ConfirmBudget + 1)
             /\ saidConfirmed \in BOOLEAN /\ saidUnconfirmed \in BOOLEAN

RequestTypes == /\ pending \in Txn \cup {NoTxn}
                /\ asked \in EngageSets \cup {{}} /\ waited \in 0..(EngageCycles - 1)

\* What the constants are, as the provers want it.
LEMMA Bounds ==
  /\ N \in Nat /\ N >= 1 /\ HoldTimeout \in Nat /\ ConfirmBudget \in Nat
  /\ EngageCycles \in Nat /\ EngageCycles >= 1 /\ MaxSkip \in Nat /\ MaxBack \in Nat
  BY DriverConstants DEF DriverConstants

\* The arithmetic of a fresh pass and a fresh silence.
LEMMA Zeroes ==
  /\ 0 \in 0..N /\ 0 \in 0..(EngageCycles - 1) /\ 0 \in 0..(ConfirmBudget + 2)
  /\ 0 \in (-MaxBack)..(ConfirmBudget + 1) /\ 0 \in (-MaxBack)..(HoldTimeout + 1)
  BY Bounds

\* Every row set a host may ask for is a non-empty set of rows.
LEMMA AskedRows == \A rows \in EngageSets : rows \subseteq Rows /\ rows # {}
<1>1. EngageSets \subseteq (SUBSET Rows) \ {{}}
  BY DriverConstants DEF DriverConstants
<1> QED BY <1>1

\* However a call leaves the pass, it leaves a pass.
LEMMA PassStays ==
  ASSUME PassTypes, BeginPass \/ StandDown \/ PassIs(TRUE) \/ UNCHANGED pass
  PROVE  PassTypes'
  BY Zeroes DEF PassTypes, BeginPass, StandDown, PassIs, pass

\* Letting go empties the slot and, when it was asked for, the engagement.
LEMMA RequestsStay ==
  ASSUME RequestTypes,
         pending' \in {pending, NoTxn},
         (asked' = {} /\ waited' = 0) \/ (asked' = asked /\ waited' = waited)
  PROVE  RequestTypes'
  BY Zeroes DEF RequestTypes

\* A latch is let stand, or ended for a set of rows, with its types kept.
LEMMA LatchStays ==
  ASSUME latched \in BOOLEAN, unnamed \subseteq Rows,
         Latch \/ (\E rows : Rearm(rows)) \/ UNCHANGED latch
  PROVE  latched' \in BOOLEAN /\ unnamed' \subseteq Rows
  BY DEF Latch, Rearm, latch

\* The types, and that a wind-down not over has a cycle left.
TypeInv == /\ TypeOK
           /\ mode = "wind" => left >= 1

\* Every step leaves each variable in its type.
THEOREM DriverTypes == Spec => []TypeOK
<1> USE Zeroes
<1>1. Init => TypeInv
  <2> SUFFICES ASSUME Init PROVE TypeInv
    OBVIOUS
  <2>1. PassTypes
    BY DEF Init, Fresh, PassTypes
  <2>2. RequestTypes
    <3>1. pending = NoTxn /\ asked = {} /\ waited = 0
      BY DEF Init, Fresh
    <3> QED BY <3>1 DEF RequestTypes
  <2> QED BY <2>1, <2>2 DEF Init, Fresh, TypeInv, TypeOK, PassTypes, RequestTypes
<1>2. Asleep /\ TypeInv /\ [Next]_vars => TypeInv'
  <2> SUFFICES ASSUME Asleep, TypeInv, [Next]_vars PROVE TypeInv'
    OBVIOUS
  <2>0. PassTypes /\ RequestTypes
    BY DEF TypeInv, TypeOK, PassTypes, RequestTypes
  <2> USE DEF TypeInv, TypeOK, vars, run, latch, gate, pass, slot, engage, cycle, machine, world
  <2>1. CASE Boot
    <3>1. PassTypes'
      BY <2>0, <2>1, PassStays DEF Boot, RequestTorqueOff, LetGo
    <3>2. RequestTypes'
      BY <2>0, <2>1, RequestsStay DEF Boot, RequestTorqueOff, LetGo
    <3>3. latched' \in BOOLEAN /\ unnamed' \subseteq Rows
      BY <2>1, LatchStays DEF Boot, RequestTorqueOff, LetGo
    <3>5. revoked' \in BOOLEAN /\ torqued' \subseteq Rows
      BY <2>1 DEF Boot, RequestTorqueOff, LetGo
    <3>4. /\ mode' = "run" /\ stage' = stage /\ stray' = {} /\ believed' = believed
          /\ UNCHANGED <<how, left, heard, silence, cycle, event, world, wireFailed>>
      BY <2>1 DEF Boot, Asleep
    <3> QED BY <3>1, <3>2, <3>3, <3>4, <3>5 DEF PassTypes, RequestTypes
  <2>2. CASE Crash
    <3>1. PassTypes'
      BY <2>0, <2>2, PassStays DEF Crash
    <3>2. RequestTypes'
      BY <2>0, <2>2, RequestsStay DEF Crash
    <3> QED BY <2>2, <3>1, <3>2 DEF Crash, PassTypes, RequestTypes
  <2>3. CASE KeepAlive
    BY <2>3 DEF KeepAlive, Hearing, NoteLiveness
  <2>4. CASE TorqueOffNow
    <3>1. PassTypes'
      BY <2>0, <2>4, PassStays DEF TorqueOffNow, RequestTorqueOff, LetGo
    <3>2. RequestTypes'
      BY <2>0, <2>4, RequestsStay DEF TorqueOffNow, RequestTorqueOff, LetGo
    <3> QED BY <2>4, <3>1, <3>2 
           DEF TorqueOffNow, RequestTorqueOff, LetGo, Latch, Hearing, NoteLiveness, PassTypes,
               RequestTypes
  <2>5. CASE StartCycle
    <3>1. PassTypes'
      BY <2>0, <2>5, PassStays DEF StartCycle, RequestTorqueOff, LetGo
    <3>2. RequestTypes'
      BY <2>0, <2>5, RequestsStay DEF StartCycle, RequestTorqueOff, LetGo
    <3>3. latched' \in BOOLEAN /\ unnamed' \subseteq Rows
      BY <2>5, LatchStays DEF StartCycle, RequestTorqueOff, LetGo
    <3>4. revoked' \in BOOLEAN /\ wireFailed' \in BOOLEAN
      BY <2>5 DEF StartCycle, RequestTorqueOff, LetGo
    <3> QED BY <2>5, <3>1, <3>2, <3>3, <3>4 DEF StartCycle, PassTypes, RequestTypes
  <2>6. CASE GateSweep
    <3>1. PassTypes'
      BY <2>0, <2>6, PassStays DEF GateSweep
    <3>2. RequestTypes'
      BY <2>0, <2>6, RequestsStay DEF GateSweep
    <3> QED BY <2>6, <3>1, <3>2 DEF GateSweep, Sweep, PassTypes, RequestTypes
  <2>7. CASE GateDeadMan
    <3>1. PassTypes'
      BY <2>0, <2>7, PassStays DEF GateDeadMan
    <3>2. RequestTypes'
      BY <2>0, <2>7, RequestsStay DEF GateDeadMan
    <3> QED BY <2>7, <3>1, <3>2 DEF GateDeadMan, Latch, Raise, Sweep, PassTypes, RequestTypes
  <2>8. CASE GateWrite
    BY <2>8 DEF GateWrite
  <2>9. CASE NoEngagement
    BY <2>9 DEF NoEngagement, BusRemark, Raise
  <2>10. CASE EngageHeld
    BY <2>10 DEF EngageHeld, Raise
  <2>11. CASE EngageWait
    <3>1. waited' \in 0..(EngageCycles - 1)
      BY <2>11, Bounds DEF EngageWait
    <3> QED BY <2>11, <3>1 DEF EngageWait, BusRemark, Raise
  <2>12. CASE EngageDeclined
    BY <2>12 DEF EngageDeclined, Raise
  <2>13. CASE EngageUnsent
    <3>1. PassTypes'
      BY <2>0, <2>13, PassStays DEF EngageUnsent, LetGo
    <3>2. RequestTypes'
      BY <2>0, <2>13, RequestsStay DEF EngageUnsent, LetGo
    <3> QED BY <2>13, <3>1, <3>2 DEF EngageUnsent, LetGo, Latch, Raise, PassTypes, RequestTypes
  <2>14. CASE ConfirmComplete
    BY <2>14 DEF ConfirmComplete, Raise
  <2>15. CASE ConfirmOverdue
    BY <2>15 DEF ConfirmOverdue, Raise
  <2>16. CASE ConfirmQuiet
    BY <2>16 DEF ConfirmQuiet
  <2>17. CASE HostEnable
    <3>1. PassTypes'
      BY <2>0, <2>17, PassStays DEF HostEnable, CreditEnabled, Rearm, Ran
    <3>2. RequestTypes'
      BY <2>0, <2>17, RequestsStay DEF HostEnable, Ran
    <3>3. pending.row \in Rows
      BY <2>17 DEF HostEnable, HostRuns, Txn
    <3>6. latched' \in BOOLEAN /\ unnamed' \subseteq Rows
      BY <2>17, LatchStays DEF HostEnable, CreditEnabled
    <3>4. /\ heard' \in BOOLEAN
          /\ silence' \in (-MaxBack)..(HoldTimeout + 1)
      BY <2>17 DEF HostEnable, CreditEnabled, NoteLiveness
    <3>5. torqued' \subseteq Rows /\ stray' \subseteq torqued' /\ believed' \subseteq Rows
      BY <2>17, <3>3 DEF HostEnable, CreditEnabled
    <3> QED BY <2>17, <3>1, <3>2, <3>4, <3>5, <3>6 DEF HostEnable, Ran, PassTypes, RequestTypes
  <2>18. CASE HostEnableUnseen
    <3>1. RequestTypes'
      BY <2>0, <2>18, RequestsStay DEF HostEnableUnseen, Ran
    <3>2. pending.row \in Rows
      BY <2>18 DEF HostEnableUnseen, HostRuns, Txn
    <3>3. torqued' \subseteq Rows /\ stray' \subseteq torqued'
      BY <2>18, <3>2 DEF HostEnableUnseen
    <3> QED BY <2>18, <3>1, <3>3 DEF HostEnableUnseen, Ran, RequestTypes
  <2>19. CASE HostRelease
    BY <2>19 DEF HostRelease, Ran
  <2>20. CASE HostReleaseUnseen
    BY <2>20 DEF HostReleaseUnseen, Ran
  <2>21. CASE HostOther
    BY <2>21 DEF HostOther, Ran
  <2>22. CASE ConfirmRead
    <3>1. cursor' \in 0..N
      BY <2>22, Bounds DEF ConfirmRead
    <3> QED BY <2>22, <3>1 DEF ConfirmRead
  <2>23. CASE NoHostWork
    BY <2>23 DEF NoHostWork
  <2>24. CASE Stop
    <3>1. PassTypes'
      BY <2>0, <2>24, PassStays DEF Stop, RequestTorqueOff, LetGo
    <3>2. RequestTypes'
      BY <2>0, <2>24, RequestsStay DEF Stop, RequestTorqueOff, LetGo
    <3>3. left' \in 0..(ConfirmBudget + 2) /\ (mode' = "wind" => left' >= 1)
      BY <2>24, Bounds DEF Stop
    <3>4. latched' \in BOOLEAN /\ unnamed' \subseteq Rows
      BY <2>24, LatchStays DEF Stop, RequestTorqueOff, LetGo
    <3>5. revoked' \in BOOLEAN
      BY <2>24 DEF Stop, RequestTorqueOff, LetGo
    <3> QED BY <2>24, <3>1, <3>2, <3>3, <3>4, <3>5 DEF Stop, PassTypes, RequestTypes
  <2>25. CASE ReaderStops
    BY <2>25 DEF ReaderStops
  <2>26. CASE FallCalm
    BY <2>26 DEF FallCalm
  <2>27. ASSUME NEW txn \in Txn, OfferAux(txn) PROVE TypeInv'
    BY <2>27 DEF OfferAux, Hearing, NoteLiveness
  <2>28. ASSUME NEW rows \in EngageSets, EngageNow(rows) PROVE TypeInv'
    <3>1. RequestTypes'
      BY <2>0, <2>28 DEF EngageNow, RequestTypes
    <3>2. /\ mode \in {"run", "wind"} /\ stage' = "sessions" /\ revoked' = FALSE
          /\ heard' = TRUE /\ silence' = 0
          /\ UNCHANGED <<run, machine, believed, latch, pass, cycle, event, world, wireFailed>>
      BY <2>28 DEF EngageNow, Hearing, NoteLiveness, Up
    <3>3. PassTypes'
      BY <2>0, <3>2, PassStays
    <3>4. mode' \in {"down", "run", "wind", "ended"} /\ (mode' = "wind" => left' >= 1)
      BY <3>2
    <3>5. /\ latched' \in BOOLEAN /\ unnamed' \subseteq Rows
          /\ heard' \in BOOLEAN /\ revoked' \in BOOLEAN
      BY <3>2
    <3>6. silence' \in (-MaxBack)..(HoldTimeout + 1)
      BY <3>2
    <3> QED BY <3>1, <3>2, <3>3, <3>4, <3>5, <3>6 DEF PassTypes, RequestTypes
  <2>29. ASSUME NEW taken \in BOOLEAN, NEW remarked \in BOOLEAN, OfferGoal(taken, remarked)
        PROVE  TypeInv'
    <3>1. heard' \in BOOLEAN /\ silence' \in (-MaxBack)..(HoldTimeout + 1)
      BY <2>29 DEF OfferGoal, NoteLiveness
    <3> QED BY <2>29, <3>1 DEF OfferGoal, Raise
  <2>30. ASSUME NEW skipped \in 0..MaxSkip, EndCycle(skipped) PROVE TypeInv'
    <3>1. /\ silence' \in (-MaxBack)..(HoldTimeout + 1)
          /\ age' \in (-MaxBack)..(ConfirmBudget + 1)
      BY <2>30, Bounds DEF EndCycle, AtMost
    <3>2. /\ left' \in 0..(ConfirmBudget + 2) /\ (mode' = "wind" => left' >= 1)
          /\ mode' \in {"down", "run", "wind", "ended"} /\ mode' # "down"
          /\ how' \in {"none", "alreadyReleased", "confirmed", "unconfirmed"}
      BY <2>30, Bounds DEF EndCycle, Wind, Asleep, Up
    <3>3. /\ stage' = "sleep" /\ event' = "none" /\ swept' = FALSE /\ engaged' = FALSE
          /\ UNCHANGED <<machine, believed, latch, heard, active, cursor, saidConfirmed,
                         saidUnconfirmed, slot, engage, world, revoked, wireFailed>>
      BY <2>30 DEF EndCycle
    <3>4. PassTypes' /\ RequestTypes'
      BY <2>0, <3>1, <3>3 DEF PassTypes, RequestTypes
    <3>5. /\ swept' \in BOOLEAN /\ engaged' \in BOOLEAN /\ stray' \subseteq torqued'
          /\ event' \in {"none", "remark", "holdTimeout", "engage", "confirmed", "unconfirmed"}
          /\ latched' \in BOOLEAN /\ unnamed' \subseteq Rows
          /\ heard' \in BOOLEAN /\ readerStopped' \in BOOLEAN
          /\ calm' \in BOOLEAN /\ revoked' \in BOOLEAN /\ wireFailed' \in BOOLEAN
      BY <3>3
    <3> QED BY <3>1, <3>2, <3>3, <3>4, <3>5 DEF PassTypes, RequestTypes
  <2>31. ASSUME NEW back \in 1..MaxBack, ClockStepBack(back) PROVE TypeInv'
    <3>1. /\ silence' \in (-MaxBack)..(HoldTimeout + 1)
          /\ age' \in (-MaxBack)..(ConfirmBudget + 1)
      BY <2>31, Bounds DEF ClockStepBack, AtLeast, PassIs
    <3>2. /\ left' \in 0..(ConfirmBudget + 2) /\ (mode' = "wind" => left' >= 1)
          /\ mode' \in {"down", "run", "wind", "ended"} /\ mode' # "down"
          /\ how' \in {"none", "alreadyReleased", "confirmed", "unconfirmed"}
      BY <2>31, Bounds DEF ClockStepBack, Up
    <3>3. RequestTypes'
      BY <2>0, <2>31, RequestsStay DEF ClockStepBack
    <3>4. /\ cursor' \in 0..N /\ active' \in BOOLEAN
          /\ saidConfirmed' \in BOOLEAN /\ saidUnconfirmed' \in BOOLEAN
      BY <2>31 DEF ClockStepBack, PassIs
    <3>5. /\ stage' = "sleep" /\ latched' = TRUE /\ unnamed' = {} /\ revoked' = TRUE
          /\ UNCHANGED <<machine, believed, heard, cycle, event, world, wireFailed>>
      BY <2>31 DEF ClockStepBack, Latch
    <3> QED BY <3>1, <3>2, <3>3, <3>4, <3>5 DEF RequestTypes
  <2>32. CASE EngageRun
    <3>1. PassTypes'
      BY <2>0, <2>32, PassStays DEF EngageRun, CreditEnabled, Rearm, LetGo
    <3>2. RequestTypes'
      BY <2>0, <2>32, RequestsStay DEF EngageRun, LetGo
    <3>3. asked \subseteq Rows
      BY AskedRows
    <3>4. torqued' \subseteq Rows /\ stray' \subseteq torqued' /\ believed' \subseteq Rows
      <4>1. PICK on \in Reached(asked) :
              /\ torqued' = torqued \cup on
              /\ \E seen \in ReadBacks(asked \cap torqued') : stray' = (stray \cup on) \ seen
        BY <2>32 DEF EngageRun
      <4>2. on \subseteq Rows
        BY <3>3, <4>1 DEF Reached
      <4>3. believed' = believed \/ believed' \subseteq believed \cup (asked \cap torqued')
        BY <2>32 DEF EngageRun, CreditEnabled, ReadBacks
      <4> QED BY <3>3, <4>1, <4>2, <4>3
    <3>5. latched' \in BOOLEAN /\ unnamed' \subseteq Rows
      BY <2>32, LatchStays DEF EngageRun, CreditEnabled, LetGo
    <3>6. heard' \in BOOLEAN /\ revoked' \in BOOLEAN
      BY <2>32 DEF EngageRun, CreditEnabled, LetGo, NoteLiveness
    <3>7. silence' \in (-MaxBack)..(HoldTimeout + 1)
      BY <2>32 DEF EngageRun, CreditEnabled, NoteLiveness, LetGo
    <3> QED BY <2>32, <3>1, <3>2, <3>4, <3>5, <3>6, <3>7 DEF EngageRun, Raise, PassTypes, RequestTypes
  <2>33. CASE UNCHANGED vars
    BY <2>33
  <2> QED
    BY <2>1, <2>2, <2>3, <2>4, <2>5, <2>6, <2>7, <2>8, <2>9, <2>10, <2>11, <2>12, <2>13, <2>14, <2>15, <2>16, <2>17, <2>18, <2>19, <2>20, <2>21, <2>22, <2>23, <2>24, <2>25, <2>26, <2>27, <2>28, <2>29, <2>30, <2>31, <2>32, <2>33 DEF Next, Seam, Cycle
<1>3. TypeInv => TypeOK
  BY DEF TypeInv
<1> QED
  BY <1>1, <1>2, <1>3, DriverShape, PTL DEF Spec

-----------------------------------------------------------------------------
(* The latch and its pass.                                                   *)

PassInv == /\ LatchHasItsPass
           /\ ~active => cursor = 0 /\ ~saidConfirmed
           /\ saidConfirmed => cursor = N

\* Letting go opens the pass a latch is to have, or finds it open.
LEMMA LetGoOpensThePass == ASSUME PassInv, LetGo PROVE PassInv'
  BY DEF PassInv, LatchHasItsPass, LetGo, Latch, BeginPass, PassIs, pass

\* Crediting an enable ends a latch and its pass together.
LEMMA CreditEndsThePass ==
  ASSUME PassInv, NEW rows, CreditEnabled(rows) PROVE PassInv'
  BY DEF PassInv, LatchHasItsPass, CreditEnabled, Rearm, StandDown, PassIs, pass

\* No step opens a latch without its pass, or ends one without the other.
LEMMA PassStep == TypeOK /\ Asleep /\ PassInv /\ [Next]_vars => PassInv'
<1> SUFFICES ASSUME TypeOK, Asleep, PassInv, [Next]_vars PROVE PassInv'
  OBVIOUS
<1> USE DEF vars, latch, gate
<1>1. ASSUME UNCHANGED <<latched, pass>> PROVE PassInv'
  BY <1>1 DEF PassInv, LatchHasItsPass, pass
<1>2. CASE Boot
  BY <1>1, <1>2, LetGoOpensThePass DEF Boot, RequestTorqueOff
<1>3. CASE Crash
  BY <1>3 DEF Crash, StandDown, PassIs, PassInv, LatchHasItsPass
<1>4. CASE Seam
  BY <1>1, <1>4, LetGoOpensThePass
     DEF Seam, KeepAlive, TorqueOffNow, RequestTorqueOff, OfferAux, EngageNow, OfferGoal
<1>5. CASE StartCycle
  BY <1>1, <1>5, LetGoOpensThePass DEF StartCycle, RequestTorqueOff
<1>6. CASE GateSweep
  BY <1>1, <1>6 DEF GateSweep, BeginPass, PassInv, LatchHasItsPass
<1>7. CASE GateDeadMan
  <2>1. latched' = TRUE /\ (active => UNCHANGED pass) /\ (~active => PassIs(TRUE))
    BY <1>7 DEF GateDeadMan, Latch, BeginPass
  <2> QED BY <2>1 DEF PassIs, PassInv, LatchHasItsPass, pass
<1>8. CASE GateWrite \/ NoEngagement \/ EngageHeld \/ EngageWait \/ EngageDeclined
  BY <1>1, <1>8 DEF GateWrite, NoEngagement, EngageHeld, EngageWait, EngageDeclined
<1>9. CASE EngageRun
  <2>1. \/ \E seen : CreditEnabled(seen)
        \/ LetGo
        \/ latched' = TRUE /\ (~(active /\ ~latched) => PassIs(TRUE))
    BY <1>9 DEF EngageRun, Latch
  <2>2. CASE latched' = TRUE /\ (~(active /\ ~latched) => PassIs(TRUE))
    BY <2>2 DEF PassIs, PassInv, LatchHasItsPass
  <2> QED BY <2>1, <2>2, LetGoOpensThePass, CreditEndsThePass
<1>10. CASE EngageUnsent
  BY <1>10, LetGoOpensThePass DEF EngageUnsent
<1>11. CASE ConfirmComplete
  BY <1>11 DEF ConfirmComplete, PassInv, LatchHasItsPass
<1>12. CASE ConfirmOverdue
  BY <1>12 DEF ConfirmOverdue, PassInv, LatchHasItsPass
<1>13. CASE ConfirmRead
  <2>1. active /\ cursor # N
    BY <1>13, Bounds DEF ConfirmRead, TypeOK
  <2> QED BY <1>13, <2>1 DEF ConfirmRead, PassInv, LatchHasItsPass
<1>14. CASE HostEnable
  BY <1>14, CreditEndsThePass DEF HostEnable
<1>15. CASE ConfirmQuiet \/ HostEnableUnseen \/ HostRelease \/ HostReleaseUnseen
             \/ HostOther \/ NoHostWork
  BY <1>1, <1>15 DEF ConfirmQuiet, HostEnableUnseen, HostRelease, HostReleaseUnseen,
                     HostOther, NoHostWork
<1>16. ASSUME NEW skipped \in 0..MaxSkip, EndCycle(skipped) PROVE PassInv'
  BY <1>16 DEF EndCycle, PassInv, LatchHasItsPass
<1>17. ASSUME NEW back \in 1..MaxBack, ClockStepBack(back) PROVE PassInv'
  BY <1>17 DEF ClockStepBack, Latch, PassIs, PassInv, LatchHasItsPass
<1>18. CASE Stop
  BY <1>1, <1>18, LetGoOpensThePass DEF Stop, RequestTorqueOff
<1>19. CASE ReaderStops \/ FallCalm \/ UNCHANGED vars
  BY <1>1, <1>19 DEF ReaderStops, FallCalm
<1> QED
  BY <1>2, <1>3, <1>4, <1>5, <1>6, <1>7, <1>8, <1>9, <1>10, <1>11, <1>12, <1>13,
     <1>14, <1>15, <1>16, <1>17, <1>18, <1>19 DEF Next, Cycle

\* The pass's invariant holds of every reachable state.
LEMMA PassIsSound == Spec => []PassInv
<1>1. Init => PassInv
  BY DEF Init, Fresh, PassInv, LatchHasItsPass
<1> QED
  BY <1>1, PassStep, DriverTypes, DriverShape, PTL DEF Spec

\* A latch never stands unread and no pass outlives the latch it reads back.
THEOREM EveryLatchIsRead == Spec => []LatchHasItsPass
<1>1. PassInv => LatchHasItsPass
  BY DEF PassInv
<1> QED BY <1>1, PassIsSound, PTL

-----------------------------------------------------------------------------
(* What a release and a stopped reader take away.                            *)

InCycle == stage \in {"gate", "engage", "confirm", "aux", "publish"}

\* A driver that let go keeps no engagement and no out-of-band enable.
Outranked == revoked => asked = {} /\ pending.kind # "enable"

\* One that acted on a stopped reader is latched, and past the start of a cycle
\* has nothing asked of it.
Absorbed == wireFailed => /\ readerStopped /\ latched
                          /\ InCycle => asked = {} /\ pending = NoTxn

\* Once let go, what was asked for before stays forgotten.
LEMMA OutrankedStep == Asleep /\ Outranked /\ [Next]_vars => Outranked'
<1> SUFFICES ASSUME Asleep, Outranked, [Next]_vars PROVE Outranked'
  OBVIOUS
<1> USE DEF vars, slot, engage
<1>0. NoTxn.kind # "enable"
  BY DEF NoTxn
<1>1. ASSUME revoked' = revoked, UNCHANGED <<slot, engage>> PROVE Outranked'
  BY <1>1 DEF Outranked
<1>2. ASSUME RequestTorqueOff PROVE Outranked'
  BY <1>0, <1>2 DEF RequestTorqueOff, LetGo, Outranked
<1>3. ASSUME revoked' = revoked, pending' = NoTxn, UNCHANGED engage PROVE Outranked'
  BY <1>0, <1>3 DEF Outranked
<1>4. CASE Boot \/ StartCycle \/ Stop
  BY <1>1, <1>2, <1>4 DEF Boot, StartCycle, Stop, RequestTorqueOff, LetGo
<1>5. CASE Crash
  BY <1>5 DEF Crash, Outranked
<1>6. CASE TorqueOffNow
  BY <1>2, <1>6 DEF TorqueOffNow
<1>7. CASE KeepAlive \/ \E taken, remarked \in BOOLEAN : OfferGoal(taken, remarked)
  BY <1>1, <1>7 DEF KeepAlive, OfferGoal
<1>8. ASSUME NEW txn \in Txn, OfferAux(txn) PROVE Outranked'
  BY <1>8 DEF OfferAux, Outranked
<1>9. ASSUME NEW rows \in EngageSets, EngageNow(rows) PROVE Outranked'
  BY <1>9 DEF EngageNow, Outranked
<1>10. CASE GateSweep \/ GateDeadMan \/ GateWrite
  BY <1>1, <1>10 DEF GateSweep, GateDeadMan, GateWrite
<1>11. CASE NoEngagement \/ EngageWait
  BY <1>11 DEF NoEngagement, EngageWait, Outranked
<1>12. CASE EngageHeld \/ EngageDeclined
  BY <1>12 DEF EngageHeld, EngageDeclined, Outranked
<1>13. CASE EngageRun
  <2>1. asked' = {} /\ ((UNCHANGED <<pending, revoked>>) \/ pending' = NoTxn)
    BY <1>13 DEF EngageRun, LetGo
  <2> QED BY <1>0, <2>1 DEF Outranked
<1>14. CASE EngageUnsent
  BY <1>0, <1>14 DEF EngageUnsent, LetGo, Outranked
<1>15. CASE ConfirmComplete \/ ConfirmOverdue \/ ConfirmQuiet \/ ConfirmRead \/ NoHostWork
  BY <1>1, <1>15 DEF ConfirmComplete, ConfirmOverdue, ConfirmQuiet, ConfirmRead, NoHostWork
<1>16. CASE HostEnable \/ HostEnableUnseen \/ HostRelease \/ HostReleaseUnseen \/ HostOther
  BY <1>3, <1>16 DEF HostEnable, HostEnableUnseen, HostRelease, HostReleaseUnseen,
                     HostOther, Ran
<1>17. ASSUME NEW skipped \in 0..MaxSkip, EndCycle(skipped) PROVE Outranked'
  BY <1>1, <1>17 DEF EndCycle
<1>18. ASSUME NEW back \in 1..MaxBack, ClockStepBack(back) PROVE Outranked'
  BY <1>0, <1>18 DEF ClockStepBack, Outranked
<1>19. CASE ReaderStops \/ FallCalm \/ UNCHANGED vars
  BY <1>1, <1>19 DEF ReaderStops, FallCalm
<1> QED
  BY <1>4, <1>5, <1>6, <1>7, <1>8, <1>9, <1>10, <1>11, <1>12, <1>13, <1>14, <1>15,
     <1>16, <1>17, <1>18, <1>19 DEF Next, Seam, Cycle

\* The rows that hold torque are added to by an engagement and by an out-of-band
\* enable, and by nothing else.
LEMMA OnlyEnablesTake ==
  ASSUME [Next]_vars, ~(asked # {} /\ EngageRun),
         ~(pending.kind = "enable" /\ (HostEnable \/ HostEnableUnseen))
  PROVE  torqued' \subseteq torqued
<1> USE DEF vars, machine
<1>1. CASE Boot
  BY <1>1 DEF Boot
<1>2. CASE GateSweep \/ GateDeadMan
  BY <1>2 DEF GateSweep, GateDeadMan, Sweep
<1>3. ~EngageRun
  BY DEF EngageRun
<1>4. ~HostEnable /\ ~HostEnableUnseen
  BY DEF HostEnable, HostEnableUnseen
<1>5. CASE HostRelease \/ HostReleaseUnseen
  BY <1>5 DEF HostRelease, HostReleaseUnseen
<1>6. CASE Crash \/ Stop \/ ReaderStops \/ FallCalm \/ UNCHANGED vars
  BY <1>6 DEF Crash, Stop, ReaderStops, FallCalm
<1>7. CASE Seam
  BY <1>7 DEF Seam, KeepAlive, TorqueOffNow, OfferAux, EngageNow, OfferGoal
<1>8. CASE \/ StartCycle \/ GateWrite \/ NoEngagement \/ EngageHeld \/ EngageWait
           \/ EngageDeclined \/ EngageUnsent
  BY <1>8 DEF StartCycle, GateWrite, NoEngagement, EngageHeld, EngageWait,
              EngageDeclined, EngageUnsent
<1>9. CASE \/ ConfirmComplete \/ ConfirmOverdue \/ ConfirmQuiet \/ ConfirmRead
           \/ NoHostWork \/ HostOther
  BY <1>9 DEF ConfirmComplete, ConfirmOverdue, ConfirmQuiet, ConfirmRead, NoHostWork,
              HostOther
<1>10. ASSUME NEW skipped \in 0..MaxSkip, EndCycle(skipped) PROVE torqued' \subseteq torqued
  BY <1>10 DEF EndCycle
<1>11. ASSUME NEW back \in 1..MaxBack, ClockStepBack(back) PROVE torqued' \subseteq torqued
  BY <1>11 DEF ClockStepBack
<1> QED
  BY <1>1, <1>2, <1>3, <1>4, <1>5, <1>6, <1>7, <1>8, <1>9, <1>10, <1>11 DEF Next, Cycle

\* What was asked for before a release is forgotten in every reachable state.
LEMMA OutrankedAlways == Spec => []Outranked
<1>1. Init => Outranked
  BY DEF Init, Fresh, Outranked
<1> QED
  BY <1>1, OutrankedStep, DriverShape, PTL DEF Spec

\* After a release no row takes torque until a host asks for it anew.
THEOREM ReleaseWins == Spec => ReleaseOutranks
<1>1. Outranked /\ [Next]_vars => [revoked /\ mode' # "down" => torqued' \subseteq torqued]_vars
  BY OnlyEnablesTake DEF Outranked
<1> QED
  BY <1>1, OutrankedAlways, PTL DEF Spec, ReleaseOutranks

\* Once a stopped reader was acted on, every step keeps the machine let go.
LEMMA AbsorbedStep == Asleep /\ Absorbed /\ [Next]_vars => Absorbed'
<1> SUFFICES ASSUME Asleep, Absorbed, [Next]_vars PROVE Absorbed'
  OBVIOUS
<1> USE DEF vars, slot, engage, latch, gate, world, InCycle
<1>1. ASSUME UNCHANGED <<wireFailed, readerStopped, latched>>, ~InCycle'
      PROVE  Absorbed'
  BY <1>1 DEF Absorbed
<1>2. ASSUME UNCHANGED <<wireFailed, readerStopped, latched>>, InCycle,
             asked' \in {{}, asked}, pending' \in {NoTxn, pending}
      PROVE  Absorbed'
  BY <1>2 DEF Absorbed
<1>3. ASSUME wireFailed' = wireFailed, readerStopped' = readerStopped, latched' = TRUE,
             ~InCycle' \/ (InCycle /\ asked' = {} /\ pending' \in {NoTxn, pending})
      PROVE  Absorbed'
  BY <1>3 DEF Absorbed
<1>4. CASE Boot \/ Crash
  BY <1>4 DEF Boot, Crash, Asleep, Absorbed
<1>5. CASE Seam
  <2>1. CASE TorqueOffNow
    BY <1>3, <2>1 DEF TorqueOffNow, Hearing, RequestTorqueOff, LetGo, Latch
  <2>2. CASE KeepAlive \/ \E txn \in Txn : OfferAux(txn)
    BY <1>1, <2>2 DEF KeepAlive, OfferAux, Hearing
  <2>3. CASE \E rows \in EngageSets : EngageNow(rows)
    BY <1>1, <2>3 DEF EngageNow, Hearing
  <2>4. CASE \E taken, remarked \in BOOLEAN : OfferGoal(taken, remarked)
    BY <1>1, <2>4 DEF OfferGoal
  <2> QED BY <1>5, <2>1, <2>2, <2>3, <2>4 DEF Seam
<1>6. CASE StartCycle
  <2>1. CASE readerStopped
    BY <1>6, <2>1 DEF StartCycle, RequestTorqueOff, LetGo, Latch, Absorbed
  <2>2. CASE ~readerStopped
    BY <1>6, <2>2 DEF StartCycle, Absorbed
  <2> QED BY <2>1, <2>2
<1>7. CASE GateSweep \/ GateWrite
  BY <1>2, <1>7 DEF GateSweep, GateWrite
<1>8. CASE GateDeadMan
  BY <1>8 DEF GateDeadMan, Latch, Absorbed
<1>9. CASE NoEngagement \/ EngageHeld \/ EngageWait \/ EngageDeclined
  BY <1>2, <1>9 DEF NoEngagement, EngageHeld, EngageWait, EngageDeclined
<1>10. CASE EngageRun
  <2>1. asked # {} /\ stage = "engage" /\ wireFailed' = wireFailed
    BY <1>10 DEF EngageRun
  <2> QED BY <2>1 DEF Absorbed
<1>11. CASE EngageUnsent
  BY <1>3, <1>11 DEF EngageUnsent, LetGo, Latch
<1>12. CASE ConfirmComplete \/ ConfirmOverdue \/ ConfirmQuiet \/ ConfirmRead \/ NoHostWork
  BY <1>2, <1>12 DEF ConfirmComplete, ConfirmOverdue, ConfirmQuiet, ConfirmRead, NoHostWork
<1>13. CASE HostEnable
  <2>1. pending # NoTxn /\ stage = "aux" /\ wireFailed' = wireFailed
    BY <1>13 DEF HostEnable, HostRuns
  <2> QED BY <2>1 DEF Absorbed
<1>14. CASE HostEnableUnseen \/ HostRelease \/ HostReleaseUnseen \/ HostOther
  BY <1>2, <1>14 DEF HostEnableUnseen, HostRelease, HostReleaseUnseen, HostOther, Ran
<1>15. ASSUME NEW skipped \in 0..MaxSkip, EndCycle(skipped) PROVE Absorbed'
  BY <1>1, <1>15 DEF EndCycle
<1>16. ASSUME NEW back \in 1..MaxBack, ClockStepBack(back) PROVE Absorbed'
  BY <1>3, <1>16 DEF ClockStepBack, Latch
<1>17. CASE Stop
  <2>1. ~InCycle' /\ UNCHANGED <<wireFailed, readerStopped>> /\ (latched => latched')
    BY <1>17 DEF Stop, RequestTorqueOff, LetGo, Latch
  <2> QED BY <2>1 DEF Absorbed
<1>18. CASE ReaderStops
  BY <1>18 DEF ReaderStops, Absorbed
<1>19. CASE FallCalm \/ UNCHANGED vars
  BY <1>19 DEF FallCalm, Absorbed
<1> QED
  BY <1>4, <1>5, <1>6, <1>7, <1>8, <1>9, <1>10, <1>11, <1>12, <1>13, <1>14, <1>15, <1>16,
     <1>17, <1>18, <1>19 DEF Next, Cycle

\* A driver that acted on a stopped reader is let go in every reachable state.
LEMMA AbsorbedAlways == Spec => []Absorbed
<1>1. Init => Absorbed
  BY DEF Init, Fresh, Absorbed
<1> QED
  BY <1>1, AbsorbedStep, DriverShape, PTL DEF Spec

\* Only a dying process forgets that it acted on a stopped reader.
LEMMA WireFailureStays == wireFailed /\ [Next]_vars => wireFailed' \/ mode' = "down"
<1> SUFFICES ASSUME wireFailed, [Next]_vars, ~Crash PROVE wireFailed'
  BY DEF Crash
<1> USE DEF vars, world
<1>1. CASE Boot \/ StartCycle \/ Stop
  BY <1>1 DEF Boot, StartCycle, Stop
<1>2. CASE Seam
  BY <1>2 DEF Seam, KeepAlive, TorqueOffNow, OfferAux, EngageNow, OfferGoal
<1>3. CASE \/ GateSweep \/ GateDeadMan \/ GateWrite \/ NoEngagement \/ EngageHeld
           \/ EngageWait \/ EngageDeclined \/ EngageRun \/ EngageUnsent
  BY <1>3 DEF GateSweep, GateDeadMan, GateWrite, NoEngagement, EngageHeld, EngageWait,
              EngageDeclined, EngageRun, EngageUnsent
<1>4. CASE ConfirmComplete \/ ConfirmOverdue \/ ConfirmQuiet \/ ConfirmRead \/ NoHostWork
  BY <1>4 DEF ConfirmComplete, ConfirmOverdue, ConfirmQuiet, ConfirmRead, NoHostWork
<1>5. CASE HostEnable \/ HostEnableUnseen \/ HostRelease \/ HostReleaseUnseen \/ HostOther
  BY <1>5 DEF HostEnable, HostEnableUnseen, HostRelease, HostReleaseUnseen, HostOther
<1>6. ASSUME NEW skipped \in 0..MaxSkip, EndCycle(skipped) PROVE wireFailed'
  BY <1>6 DEF EndCycle
<1>7. ASSUME NEW back \in 1..MaxBack, ClockStepBack(back) PROVE wireFailed'
  BY <1>7 DEF ClockStepBack
<1>8. CASE ReaderStops \/ FallCalm \/ UNCHANGED vars
  BY <1>8 DEF ReaderStops, FallCalm
<1> QED
  BY <1>1, <1>2, <1>3, <1>4, <1>5, <1>6, <1>7, <1>8 DEF Next, Cycle

\* A driver that acted on a stopped reader never lifts the latch and never takes
\* torque again, whatever the other port brings.
THEOREM WireFailureAbsorbs == Spec => WireFailureIsAbsorbing
<1>1. Absorbed /\ Absorbed' /\ [Next]_vars =>
        [wireFailed /\ mode' # "down" => latched' /\ torqued' \subseteq torqued]_vars
  <2> SUFFICES ASSUME Absorbed, Absorbed', [Next]_vars, wireFailed, mode' # "down"
               PROVE  latched' /\ torqued' \subseteq torqued
    OBVIOUS
  <2>1. latched'
    BY WireFailureStays DEF Absorbed
  <2>2. ~(asked # {} /\ EngageRun)
    BY DEF Absorbed, InCycle, EngageRun
  <2>3. ~(pending.kind = "enable" /\ (HostEnable \/ HostEnableUnseen))
    BY DEF Absorbed, InCycle, HostEnable, HostEnableUnseen, HostRuns
  <2> QED BY <2>1, <2>2, <2>3, OnlyEnablesTake
<1> QED
  BY <1>1, AbsorbedAlways, PTL DEF Spec, WireFailureIsAbsorbing

-----------------------------------------------------------------------------
(* The dead-man runs.                                                        *)

\* Every step that arms the machine or passes time keeps the dead-man running.
LEMMA DeadManStep == TypeOK /\ Asleep /\ DeadManRuns /\ [Next]_vars => DeadManRuns'
<1> SUFFICES ASSUME TypeOK, Asleep, DeadManRuns, [Next]_vars PROVE DeadManRuns'
  OBVIOUS
<1> USE DEF vars, run, latch, gate, Up
<1>0. silence \in Int /\ HoldTimeout \in Nat /\ 0 <= HoldTimeout
  BY Bounds DEF TypeOK
<1>1. ASSUME Up, believed' \subseteq believed, latched' = latched, heard => heard',
             silence' \in {silence, 0},
             stage' \in {"sleep", "sessions", "goals", "gate"}
             \/ stage \in {"engage", "confirm", "aux", "publish"}
      PROVE  DeadManRuns'
  BY <1>0, <1>1 DEF DeadManRuns
<1>2. ASSUME latched' \/ believed' = {} PROVE DeadManRuns'
  BY <1>2 DEF DeadManRuns
<1>3. ASSUME NEW rows, CreditEnabled(rows) PROVE DeadManRuns'
  BY <1>0, <1>3 DEF CreditEnabled, NoteLiveness, DeadManRuns
<1>4. CASE Boot \/ Crash
  BY <1>2, <1>4 DEF Boot, Crash, Asleep
<1>5. CASE Seam
  <2>1. CASE TorqueOffNow
    BY <1>2, <2>1 DEF TorqueOffNow, RequestTorqueOff, LetGo, Latch
  <2>2. CASE KeepAlive \/ \E txn \in Txn : OfferAux(txn)
    BY <1>1, <2>2 DEF KeepAlive, OfferAux, Hearing, NoteLiveness
  <2>3. CASE \E rows \in EngageSets : EngageNow(rows)
    BY <1>1, <2>3 DEF EngageNow, Hearing, NoteLiveness
  <2>4. CASE \E taken, remarked \in BOOLEAN : OfferGoal(taken, remarked)
    BY <1>1, <2>4 DEF OfferGoal, NoteLiveness
  <2> QED BY <1>5, <2>1, <2>2, <2>3, <2>4 DEF Seam
<1>6. CASE StartCycle
  <2>1. CASE readerStopped
    BY <1>2, <1>6, <2>1 DEF StartCycle, RequestTorqueOff, LetGo, Latch
  <2>2. CASE ~readerStopped
    BY <1>1, <1>6, <2>2 DEF StartCycle
  <2> QED BY <2>1, <2>2
<1>7. CASE GateSweep \/ GateDeadMan
  BY <1>2, <1>7 DEF GateSweep, GateDeadMan, Latch
<1>8. CASE GateWrite
  <2>1. believed # {} /\ heard => silence <= HoldTimeout
    BY <1>0, <1>8 DEF GateWrite, Expired
  <2>2. UNCHANGED <<mode, believed, latched, heard, silence>> /\ stage = "gate"
    BY <1>8 DEF GateWrite
  <2> QED BY <2>1, <2>2 DEF DeadManRuns
<1>9. CASE NoEngagement \/ EngageHeld \/ EngageWait \/ EngageDeclined
  <2>1. /\ UNCHANGED <<mode, believed, latched, heard, silence>>
        /\ stage = "engage"
    BY <1>9 DEF NoEngagement, EngageHeld, EngageWait, EngageDeclined
  <2> QED BY <2>1 DEF DeadManRuns
<1>10. CASE EngageRun \/ EngageUnsent
  <2>1. latched' = TRUE \/ \E rows : CreditEnabled(rows)
    BY <1>10 DEF EngageRun, EngageUnsent, LetGo, Latch
  <2> QED BY <1>2, <1>3, <2>1
<1>11. CASE ConfirmComplete
  BY <1>2, <1>11 DEF ConfirmComplete
<1>12. CASE ConfirmOverdue \/ ConfirmQuiet \/ ConfirmRead \/ NoHostWork
  <2>1. UNCHANGED <<mode, believed, latched, heard, silence>> /\ stage \in {"confirm", "aux"}
    BY <1>12 DEF ConfirmOverdue, ConfirmQuiet, ConfirmRead, NoHostWork
  <2> QED BY <2>1 DEF DeadManRuns
<1>13. CASE HostEnable
  BY <1>3, <1>13 DEF HostEnable
<1>14. CASE HostEnableUnseen \/ HostRelease \/ HostReleaseUnseen \/ HostOther
  <2>1. /\ UNCHANGED <<mode, latched, heard, silence>> /\ stage = "aux"
        /\ believed' \subseteq believed
    BY <1>14 DEF HostEnableUnseen, HostRelease, HostReleaseUnseen, HostOther
  <2> QED BY <2>1 DEF DeadManRuns
<1>15. ASSUME NEW skipped \in 0..MaxSkip, EndCycle(skipped) PROVE DeadManRuns'
  <2>1. stage = "publish" /\ stage' = "sleep" /\ UNCHANGED <<believed, latched, heard>>
    BY <1>15 DEF EndCycle
  <2>2. Up
    BY <2>1 DEF Asleep
  <2> QED BY <2>1, <2>2 DEF DeadManRuns
<1>16. ASSUME NEW back \in 1..MaxBack, ClockStepBack(back) PROVE DeadManRuns'
  BY <1>2, <1>16 DEF ClockStepBack, Latch
<1>17. CASE Stop
  <2>1. \/ latched' = TRUE
        \/ Up /\ stage' = "sleep" /\ UNCHANGED <<believed, latched, heard>>
    BY <1>17 DEF Stop, RequestTorqueOff, LetGo, Latch
  <2> QED BY <2>1 DEF DeadManRuns
<1>18. CASE ReaderStops \/ FallCalm \/ UNCHANGED vars
  <2>1. UNCHANGED <<mode, stage, believed, latched, heard, silence>>
    BY <1>18 DEF ReaderStops, FallCalm
  <2> QED BY <2>1 DEF DeadManRuns
<1> QED
  BY <1>4, <1>5, <1>6, <1>7, <1>8, <1>9, <1>10, <1>11, <1>12, <1>13, <1>14, <1>15, <1>16,
     <1>17, <1>18 DEF Next, Cycle

\* Every way of arming leaves the dead-man running, and the gate never writes for
\* a machine it should have timed out.
THEOREM DeadManIsArmed == Spec => []DeadManRuns
<1>1. Init => DeadManRuns
  BY DEF Init, Fresh, DeadManRuns
<1> QED
  BY <1>1, DeadManStep, DriverTypes, DriverShape, PTL DEF Spec

-----------------------------------------------------------------------------
(* What the driver knows of the machine.                                     *)

\* An enable that was read back leaves every row that holds accounted for: those it
\* names are believed, and those it does not name are what they were, or, when it
\* ends a latch, what the latch leaves behind.
LEMMA CreditKnows ==
  ASSUME NEW rows, HoldingIsKnown, Up, CreditEnabled(rows), torqued' \subseteq Rows,
         torqued' \subseteq torqued \cup rows, stray \ rows \subseteq stray'
  PROVE  HoldingIsKnown'
<1>1. believed' = believed \cup rows
  BY DEF CreditEnabled
<1>2. CASE latched
  <2>1. unnamed' = Rows \ rows
    BY <1>2 DEF CreditEnabled, Rearm
  <2> QED BY <1>1, <2>1 DEF HoldingIsKnown
<1>3. CASE ~latched
  <2>1. unnamed' = unnamed \ rows
    BY <1>3 DEF CreditEnabled, Rearm
  <2>2. torqued \subseteq believed \cup stray \cup unnamed
    BY <1>3 DEF HoldingIsKnown
  <2> QED BY <1>1, <2>1, <2>2 DEF HoldingIsKnown
<1> QED BY <1>2, <1>3

\* No step takes a row the driver neither believes in nor has latched over, but one
\* it took unseen or left out of the arming that ended the latch.
LEMMA KnownStep ==
  ASSUME TypeOK, TypeOK', Asleep, PassInv, HoldingIsKnown, [Next]_vars
  PROVE  HoldingIsKnown'
<1> USE DEF vars, run, latch, gate, machine, Up
<1>1. ASSUME latched' = TRUE \/ mode' \notin {"run", "wind"} PROVE HoldingIsKnown'
  BY <1>1 DEF HoldingIsKnown
<1>2. ASSUME Up, UNCHANGED <<latched, unnamed, torqued, stray, believed>>
      PROVE  HoldingIsKnown'
  BY <1>2 DEF HoldingIsKnown
<1>3. CASE Boot
  <2>1. PICK off \in Reached(Rows) : \E seen \in Reached(off) :
          /\ torqued' = torqued \ off
          /\ IF seen = Rows THEN UNCHANGED <<latch, pending, pass, revoked, engage>>
                            ELSE RequestTorqueOff
    BY <1>3 DEF Boot
  <2>2. PICK seen \in Reached(off) :
          /\ torqued' = torqued \ off
          /\ IF seen = Rows THEN UNCHANGED <<latch, pending, pass, revoked, engage>>
                            ELSE RequestTorqueOff
    BY <2>1
  <2>3. CASE seen = Rows
    <3>1. Rows \subseteq off
      BY <2>2, <2>3 DEF Reached
    <3>2. torqued' = {}
      BY <2>2, <3>1 DEF TypeOK
    <3> QED BY <3>2 DEF HoldingIsKnown
  <2>4. CASE seen # Rows
    BY <1>1, <2>2, <2>4 DEF RequestTorqueOff, LetGo, Latch
  <2> QED BY <2>3, <2>4
<1>4. CASE Crash
  BY <1>1, <1>4 DEF Crash
<1>5. CASE Seam
  <2>1. CASE TorqueOffNow
    BY <1>1, <2>1 DEF TorqueOffNow, RequestTorqueOff, LetGo, Latch
  <2>2. CASE KeepAlive \/ \E txn \in Txn : OfferAux(txn)
    BY <1>2, <2>2 DEF KeepAlive, OfferAux, Hearing
  <2>3. CASE \E rows \in EngageSets : EngageNow(rows)
    BY <1>2, <2>3 DEF EngageNow, Hearing
  <2>4. CASE \E taken, remarked \in BOOLEAN : OfferGoal(taken, remarked)
    BY <1>2, <2>4 DEF OfferGoal
  <2> QED BY <1>5, <2>1, <2>2, <2>3, <2>4 DEF Seam
<1>6. CASE StartCycle
  <2>1. CASE readerStopped
    BY <1>1, <1>6, <2>1 DEF StartCycle, RequestTorqueOff, LetGo, Latch
  <2>2. CASE ~readerStopped
    BY <1>2, <1>6, <2>2 DEF StartCycle
  <2> QED BY <2>1, <2>2
<1>7. CASE GateSweep \/ GateDeadMan
  <2>1. latched' \/ ~Up
    BY <1>7 DEF GateSweep, GateDeadMan, Latch
  <2> QED BY <1>1, <1>7, <2>1 DEF GateSweep, GateDeadMan, TypeOK
<1>8. CASE GateWrite \/ NoEngagement \/ EngageHeld \/ EngageWait \/ EngageDeclined
  <2>1. Up
    BY <1>8 DEF GateWrite, NoEngagement, EngageHeld, EngageWait, EngageDeclined, Asleep
  <2> QED
    BY <1>2, <1>8, <2>1 DEF GateWrite, NoEngagement, EngageHeld, EngageWait, EngageDeclined
<1>9. CASE EngageRun
  <2>1. PICK on \in Reached(asked) :
          /\ torqued' = torqued \cup on
          /\ \E seen \in ReadBacks(asked \cap torqued') :
               /\ stray' = (stray \cup on) \ seen
               /\ (seen = asked /\ CreditEnabled(seen)) \/ latched' = TRUE
    BY <1>9 DEF EngageRun, LetGo, Latch
  <2>2. on \subseteq asked /\ torqued' \subseteq Rows
    BY <2>1 DEF Reached, TypeOK
  <2>3. Up
    BY <1>9 DEF EngageRun, Asleep
  <2>4. CASE latched' = TRUE
    BY <1>1, <2>4
  <2>5. CASE stray' = (stray \cup on) \ asked /\ CreditEnabled(asked)
    <3>1. torqued' \subseteq torqued \cup asked /\ stray \ asked \subseteq stray'
      BY <2>1, <2>2, <2>5
    <3> QED BY <2>2, <2>3, <2>5, <3>1, CreditKnows
  <2> QED BY <2>1, <2>4, <2>5
<1>10. CASE EngageUnsent
  BY <1>1, <1>10 DEF EngageUnsent, LetGo, Latch
<1>11. CASE ConfirmComplete
  <2>1. latched /\ latched' = latched
    BY <1>11 DEF ConfirmComplete, PassInv, LatchHasItsPass
  <2> QED BY <2>1 DEF HoldingIsKnown
<1>12. CASE ConfirmOverdue \/ ConfirmQuiet \/ ConfirmRead \/ NoHostWork \/ HostOther
  <2>1. Up
    BY <1>12 DEF ConfirmOverdue, ConfirmQuiet, ConfirmRead, NoHostWork, HostOther, Asleep
  <2> QED
    BY <1>2, <1>12, <2>1 DEF ConfirmOverdue, ConfirmQuiet, ConfirmRead, NoHostWork, HostOther
<1>20. CASE HostEnable
  <2>1. /\ stage = "aux" /\ CreditEnabled({pending.row})
        /\ torqued' = torqued \cup {pending.row} /\ stray' = stray \ {pending.row}
    BY <1>20 DEF HostEnable
  <2>2. Up /\ torqued' \subseteq Rows
    BY <2>1 DEF Asleep, TypeOK
  <2> QED BY <2>1, <2>2, CreditKnows
<1>21. CASE HostEnableUnseen
  <2>1. /\ stage = "aux" /\ UNCHANGED latch /\ believed' = believed
        /\ torqued' = torqued \cup {pending.row} /\ stray' = stray \cup {pending.row}
    BY <1>21 DEF HostEnableUnseen
  <2>2. Up
    BY <2>1 DEF Asleep
  <2> QED BY <2>1, <2>2 DEF HoldingIsKnown
<1>13. CASE HostRelease
  <2>1. /\ stage = "aux" /\ UNCHANGED latch
        /\ torqued' = torqued \ {pending.row} /\ stray' = stray \ {pending.row}
        /\ believed' = believed \ {pending.row}
    BY <1>13 DEF HostRelease
  <2>2. Up
    BY <2>1 DEF Asleep
  <2> QED BY <2>1, <2>2 DEF HoldingIsKnown
<1>14. CASE HostReleaseUnseen
  <2>1. /\ stage = "aux" /\ UNCHANGED latch /\ believed' = believed
        /\ torqued' = torqued \ {pending.row} /\ stray' = stray \ {pending.row}
    BY <1>14 DEF HostReleaseUnseen
  <2>2. Up
    BY <2>1 DEF Asleep
  <2> QED BY <2>1, <2>2 DEF HoldingIsKnown
<1>15. ASSUME NEW skipped \in 0..MaxSkip, EndCycle(skipped) PROVE HoldingIsKnown'
  <2>1. stage = "publish" /\ UNCHANGED <<latched, unnamed, torqued, stray, believed>>
    BY <1>15 DEF EndCycle
  <2> QED BY <1>2, <2>1 DEF Asleep
<1>16. ASSUME NEW back \in 1..MaxBack, ClockStepBack(back) PROVE HoldingIsKnown'
  BY <1>1, <1>16 DEF ClockStepBack, Latch
<1>17. CASE Stop
  <2>1. Up /\ (latched' = TRUE \/ UNCHANGED <<latched, unnamed, torqued, stray, believed>>)
    BY <1>17 DEF Stop, RequestTorqueOff, LetGo, Latch
  <2> QED BY <1>1, <1>2, <2>1
<1>18. CASE ReaderStops \/ FallCalm
  BY <1>2, <1>18 DEF ReaderStops, FallCalm
<1>19. CASE UNCHANGED vars
  BY <1>19 DEF HoldingIsKnown
<1> QED
  BY <1>3, <1>4, <1>5, <1>6, <1>7, <1>8, <1>9, <1>10, <1>11, <1>12, <1>13, <1>14, <1>15,
     <1>16, <1>17, <1>18, <1>19, <1>20, <1>21 DEF Next, Cycle

\* Whatever rows a host engages or enables, a row that holds torque while no latch
\* stands is one the driver believes in, one an enable took unseen, or one the
\* arming that ended the latch left out.
THEOREM BeliefCoversTheMachine == Spec => []HoldingIsKnown
<1>1. Init => HoldingIsKnown
  BY DEF Init, Up, HoldingIsKnown
<1>2. TypeOK /\ TypeOK' /\ Asleep /\ PassInv /\ HoldingIsKnown /\ [Next]_vars => HoldingIsKnown'
  BY KnownStep
<1> QED
  BY <1>1, <1>2, DriverTypes, DriverShape, PassIsSound, PTL DEF Spec

-----------------------------------------------------------------------------
(* What a pass has read stays as it read it.                                 *)

ReadBackIsClean == \A r \in Rows : r < cursor => r \notin torqued \/ r \in stray

\* Nothing a step does to an unread row matters: rows read clean stay clean when
\* torque only leaves, and when a row taken unseen is marked stray.
LEMMA CleanKept ==
  ASSUME ReadBackIsClean, cursor' \in {cursor, 0}, TypeOK,
         torqued' \subseteq torqued \cup stray', stray \cap torqued' \subseteq stray'
  PROVE  ReadBackIsClean'
<1>1. \A r \in Rows : r >= 0
  BY Bounds DEF Rows
<1>2. \A r \in Rows : ~(r < 0)
  BY <1>1, Bounds DEF Rows
<1> QED BY <1>2 DEF ReadBackIsClean

\* A pass that has read nothing yet vouches for nothing.
LEMMA CleanAtZero ==
  ASSUME cursor' = 0 PROVE ReadBackIsClean'
<1>1. \A r \in Rows : ~(r < 0)
  BY Bounds DEF Rows
<1> QED BY <1>1 DEF ReadBackIsClean

\* The rows a pass has read clean stay clean while it runs.
LEMMA CleanStep ==
  ASSUME TypeOK, Asleep, PassInv, ReadBackIsClean, [Next]_vars
  PROVE  ReadBackIsClean'
<1> USE DEF vars, machine, pass
<1>1. ASSUME UNCHANGED <<torqued, stray>>, cursor' \in {cursor, 0} PROVE ReadBackIsClean'
  BY <1>1, CleanKept
<1>2. ASSUME BeginPass \/ StandDown \/ PassIs(TRUE) \/ UNCHANGED pass
      PROVE  cursor' \in {cursor, 0}
  BY <1>2 DEF BeginPass, StandDown, PassIs
<1>3. CASE Boot
  <2>1. cursor' \in {cursor, 0}
    BY <1>2, <1>3 DEF Boot, RequestTorqueOff, LetGo
  <2>2. torqued' \subseteq torqued /\ stray' = stray
    BY <1>3 DEF Boot
  <2> QED BY <2>1, <2>2, CleanKept
<1>4. CASE Crash
  BY <1>4, CleanAtZero DEF Crash, StandDown, PassIs
<1>5. CASE Seam
  <2>1. UNCHANGED <<torqued, stray>> /\ cursor' \in {cursor, 0}
    BY <1>2, <1>5 DEF Seam, KeepAlive, TorqueOffNow, RequestTorqueOff, LetGo, OfferAux,
                      EngageNow, OfferGoal
  <2> QED BY <1>1, <2>1
<1>6. CASE StartCycle \/ Stop
  <2>1. UNCHANGED <<torqued, stray>> /\ cursor' \in {cursor, 0}
    BY <1>2, <1>6 DEF StartCycle, Stop, RequestTorqueOff, LetGo
  <2> QED BY <1>1, <2>1
<1>7. CASE GateSweep \/ GateDeadMan
  <2>1. cursor' \in {cursor, 0}
    BY <1>2, <1>7 DEF GateSweep, GateDeadMan
  <2>2. PICK off \in SUBSET Rows : torqued' = torqued \ off /\ stray' = stray \ off
    BY <1>7 DEF GateSweep, GateDeadMan, Sweep, Reached
  <2> QED BY <2>1, <2>2, CleanKept
<1>8. CASE GateWrite \/ NoEngagement \/ EngageHeld \/ EngageWait \/ EngageDeclined
  BY <1>1, <1>8 DEF GateWrite, NoEngagement, EngageHeld, EngageWait, EngageDeclined
<1>9. CASE EngageRun
  <2>1. PICK on \in Reached(asked) :
          /\ torqued' = torqued \cup on
          /\ \E seen \in ReadBacks(asked \cap torqued') :
               /\ stray' = (stray \cup on) \ seen
               /\ \/ CreditEnabled(seen)
                  \/ seen = {} /\ LetGo
                  \/ (active /\ ~latched) \/ PassIs(TRUE)
    BY <1>9 DEF EngageRun
  <2>2. CASE \E seen : CreditEnabled(seen)
    <3>1. cursor' = 0
      BY <2>2 DEF CreditEnabled, Rearm, StandDown, PassIs, PassInv, LatchHasItsPass
    <3> QED BY <3>1, CleanAtZero
  <2>3. CASE stray' = stray \cup on /\ LetGo
    <3>1. cursor' \in {cursor, 0}
      BY <1>2, <2>3 DEF LetGo
    <3>2. torqued' \subseteq torqued \cup stray' /\ stray \cap torqued' \subseteq stray'
      BY <2>1, <2>3
    <3> QED BY <3>1, <3>2, CleanKept
  <2>4. CASE active /\ ~latched
    BY <2>4 DEF PassInv, LatchHasItsPass
  <2>5. CASE PassIs(TRUE)
    BY <2>5, CleanAtZero DEF PassIs
  <2> QED BY <2>1, <2>2, <2>3, <2>4, <2>5
<1>10. CASE EngageUnsent
  BY <1>1, <1>2, <1>10 DEF EngageUnsent, LetGo
<1>11. CASE ConfirmComplete \/ ConfirmOverdue \/ ConfirmQuiet \/ NoHostWork \/ HostOther
  BY <1>1, <1>11 DEF ConfirmComplete, ConfirmOverdue, ConfirmQuiet, NoHostWork, HostOther
<1>12. CASE ConfirmRead
  <2>1. UNCHANGED <<torqued, stray>> /\ cursor \in Int
    BY <1>12, Bounds DEF ConfirmRead, TypeOK
  <2>2. CASE cursor' = 0
    BY <2>2, CleanAtZero
  <2>3. CASE cursor \notin torqued /\ cursor' = cursor + 1
    <3>1. \A r \in Rows : r < cursor + 1 => r < cursor \/ r = cursor
      BY <2>1, Bounds DEF Rows
    <3> QED BY <2>1, <2>3, <3>1 DEF ReadBackIsClean
  <2> QED BY <1>12, <2>2, <2>3 DEF ConfirmRead
<1>13. CASE HostEnable
  <2>1. cursor' = 0
    BY <1>13 DEF HostEnable, CreditEnabled, Rearm, StandDown, PassIs, PassInv, LatchHasItsPass
  <2> QED BY <2>1, CleanAtZero
<1>14. CASE HostEnableUnseen
  BY <1>14, CleanKept DEF HostEnableUnseen
<1>15. CASE HostRelease \/ HostReleaseUnseen
  BY <1>15, CleanKept DEF HostRelease, HostReleaseUnseen
<1>16. ASSUME NEW skipped \in 0..MaxSkip, EndCycle(skipped) PROVE ReadBackIsClean'
  BY <1>1, <1>16 DEF EndCycle
<1>17. ASSUME NEW back \in 1..MaxBack, ClockStepBack(back) PROVE ReadBackIsClean'
  BY <1>1, <1>17 DEF ClockStepBack, PassIs
<1>18. CASE ReaderStops \/ FallCalm \/ UNCHANGED vars
  BY <1>1, <1>18 DEF ReaderStops, FallCalm
<1> QED
  BY <1>3, <1>4, <1>5, <1>6, <1>7, <1>8, <1>9, <1>10, <1>11, <1>12, <1>13, <1>14, <1>15,
     <1>16, <1>17, <1>18 DEF Next, Cycle

\* A pass that read every row clean says so of a machine that is off.
LEMMA ReadCleanIsReleased ==
  ASSUME TypeOK, PassInv, ReadBackIsClean PROVE ConfirmedMeansReleased
<1> SUFFICES ASSUME saidConfirmed, NEW r \in torqued PROVE r \in stray
  BY DEF ConfirmedMeansReleased
<1>1. cursor = N /\ r \in Rows
  BY DEF PassInv, TypeOK
<1>2. r < cursor
  BY <1>1, Bounds DEF Rows
<1> QED BY <1>1, <1>2 DEF ReadBackIsClean

\* What is confirmed is true, from the verdict to the arming that ends the latch,
\* of every row but one an enable took unseen.
THEOREM ConfirmationIsTrue == Spec => []ConfirmedMeansReleased
<1>1. Init => ReadBackIsClean
  <2>1. \A r \in Rows : ~(r < 0)
    BY Bounds DEF Rows
  <2> QED BY <2>1 DEF Init, Fresh, ReadBackIsClean
<1>2. TypeOK /\ Asleep /\ PassInv /\ ReadBackIsClean /\ [Next]_vars => ReadBackIsClean'
  BY CleanStep
<1>3. TypeOK /\ PassInv /\ ReadBackIsClean => ConfirmedMeansReleased
  BY ReadCleanIsReleased
<1> QED
  BY <1>1, <1>2, <1>3, DriverTypes, DriverShape, PassIsSound, PTL DEF Spec

-----------------------------------------------------------------------------
(* What a driver says as it ends.                                            *)

\* A claim of release is the last thing a driver says, and the machine bears it out.
EndedInv == /\ how \in {"alreadyReleased", "confirmed"} => mode = "ended"
            /\ EndedTruthfully

\* A stop that finds nothing outstanding finds nothing holding, but what no latch and
\* no belief covers.
LEMMA NothingOutstanding ==
  ASSUME HoldingIsKnown, ConfirmedMeansReleased, LatchHasItsPass, Up, ~Outstanding
  PROVE  torqued \subseteq stray \cup unnamed
  BY DEF HoldingIsKnown, ConfirmedMeansReleased, LatchHasItsPass, Outstanding

\* No step ends the process with a claim the machine does not bear out.
LEMMA EndedStep ==
  ASSUME TypeOK, Asleep, PassInv, HoldingIsKnown, ConfirmedMeansReleased, EndedInv, [Next]_vars
  PROVE  EndedInv'
<1> USE DEF vars, run, machine, latch, gate
<1>1. ASSUME Up, how' = how PROVE EndedInv'
  BY <1>1 DEF EndedInv, EndedTruthfully, Up
<1>2. ASSUME how' \notin {"alreadyReleased", "confirmed"} PROVE EndedInv'
  BY <1>2 DEF EndedInv, EndedTruthfully
<1>3. CASE Boot \/ Crash
  BY <1>2, <1>3 DEF Boot, Crash, EndedInv
<1>4. CASE Seam
  <2>1. Up /\ how' = how
    BY <1>4 DEF Seam, KeepAlive, TorqueOffNow, OfferAux, EngageNow, OfferGoal, Hearing
  <2> QED BY <1>1, <2>1
<1>5. CASE \/ StartCycle \/ GateSweep \/ GateDeadMan \/ GateWrite \/ NoEngagement
           \/ EngageHeld \/ EngageWait \/ EngageDeclined \/ EngageRun \/ EngageUnsent
  <2>1. how' = how /\ (Up \/ stage \in {"gate", "engage"})
    BY <1>5 DEF StartCycle, GateSweep, GateDeadMan, GateWrite, NoEngagement, EngageHeld,
                EngageWait, EngageDeclined, EngageRun, EngageUnsent
  <2> QED BY <1>1, <2>1 DEF Asleep
<1>6. CASE \/ ConfirmComplete \/ ConfirmOverdue \/ ConfirmQuiet \/ ConfirmRead
           \/ NoHostWork \/ HostOther
  <2>1. how' = how /\ stage \in {"confirm", "aux"}
    BY <1>6 DEF ConfirmComplete, ConfirmOverdue, ConfirmQuiet, ConfirmRead, NoHostWork,
                HostOther
  <2> QED BY <1>1, <2>1 DEF Asleep
<1>7. CASE HostEnable \/ HostEnableUnseen \/ HostRelease \/ HostReleaseUnseen
  <2>1. how' = how /\ stage = "aux"
    BY <1>7 DEF HostEnable, HostEnableUnseen, HostRelease, HostReleaseUnseen
  <2> QED BY <1>1, <2>1 DEF Asleep
<1>8. ASSUME NEW skipped \in 0..MaxSkip, EndCycle(skipped) PROVE EndedInv'
  <2>1. Up /\ UNCHANGED <<torqued, stray>>
    BY <1>8 DEF EndCycle, Asleep
  <2>2. CASE mode = "wind" /\ (saidConfirmed \/ saidUnconfirmed \/ left = 1)
    <3>1. mode' = "ended" /\ how' = IF saidConfirmed THEN "confirmed" ELSE "unconfirmed"
      BY <1>8, <2>2 DEF EndCycle, Wind
    <3> QED BY <2>1, <3>1 DEF EndedInv, EndedTruthfully, ConfirmedMeansReleased
  <2>3. CASE ~(mode = "wind" /\ (saidConfirmed \/ saidUnconfirmed \/ left = 1))
    BY <1>1, <1>8, <2>1, <2>3 DEF EndCycle, Wind
  <2> QED BY <2>2, <2>3
<1>9. ASSUME NEW back \in 1..MaxBack, ClockStepBack(back) PROVE EndedInv'
  <2>1. Up /\ how' \in {how, "unconfirmed"}
    BY <1>9 DEF ClockStepBack
  <2> QED BY <1>1, <1>2, <2>1
<1>10. CASE Stop
  <2>1. Up /\ UNCHANGED <<torqued, stray>> /\ (~Outstanding => unnamed' = unnamed)
    BY <1>10 DEF Stop, Up
  <2>2. CASE Outstanding
    BY <1>1, <1>10, <2>1, <2>2 DEF Stop
  <2>3. CASE ~Outstanding
    <3>1. torqued \subseteq stray \cup unnamed
      BY <2>1, <2>3, NothingOutstanding DEF PassInv
    <3> QED BY <1>10, <2>1, <2>3, <3>1 DEF Stop, EndedInv, EndedTruthfully
  <2> QED BY <2>2, <2>3
<1>11. CASE ReaderStops \/ FallCalm
  BY <1>1, <1>11 DEF ReaderStops, FallCalm
<1>12. CASE UNCHANGED vars
  BY <1>12 DEF EndedInv, EndedTruthfully
<1> QED
  BY <1>3, <1>4, <1>5, <1>6, <1>7, <1>8, <1>9, <1>10, <1>11, <1>12 DEF Next, Cycle

\* A driver that ends with a confirmed release leaves a limp machine, but for a row
\* an enable took unseen; one that ends with nothing to release leaves no row that
\* holds but such a row, or one the arming that ended the last latch left out.
THEOREM EndsTruthfully == Spec => []EndedTruthfully
<1>1. Init => EndedInv
  BY DEF Init, Fresh, EndedInv, EndedTruthfully
<1>2. TypeOK /\ Asleep /\ PassInv /\ HoldingIsKnown /\ ConfirmedMeansReleased /\ EndedInv
        /\ [Next]_vars => EndedInv'
  BY EndedStep
<1>3. EndedInv => EndedTruthfully
  BY DEF EndedInv
<1> QED
  BY <1>1, <1>2, <1>3, BeliefCoversTheMachine, ConfirmationIsTrue, DriverTypes, DriverShape,
     PassIsSound, PTL DEF Spec
=============================================================================
