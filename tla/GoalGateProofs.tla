--------------------------- MODULE GoalGateProofs ---------------------------
(***************************************************************************)
(* Proofs about the goal gate, for every length of the line, hold timeout, *)
(* set of stamps and length of run.                                        *)
(***************************************************************************)
EXTENDS GoalGate, TLAPS

\* Every step leaves each variable in its type.
THEOREM TypeCorrect == Spec => []TypeOK
<1>1. Init => TypeOK
  <2> SUFFICES ASSUME Init PROVE TypeOK
    OBVIOUS
  <2>1. /\ queue \in Seq(Goal) /\ Len(queue) = 0
        /\ held \in Goal \cup {NoGoal} /\ wrote \in Goal \cup {NoGoal}
    BY DEF Init
  <2>2. /\ now \in Int /\ lastAccept \in Int /\ lastWord \in Int
        /\ arrived \in Nat /\ dead \in 0..arrived
    BY DEF Init
  <2>3. /\ stage \in {"drain", "spent"} /\ believed \in BOOLEAN
        /\ latched \in BOOLEAN /\ hasAccepted \in BOOLEAN
    BY DEF Init
  <2>4. QueueCap \in Nat
    BY GateConstants DEF GateConstants
  <2> QED BY <2>1, <2>2, <2>3, <2>4 DEF TypeOK
<1>2. TypeOK /\ [Next]_vars => TypeOK'
  <2> SUFFICES ASSUME TypeOK, [Next]_vars PROVE TypeOK'
    OBVIOUS
  <2>0. QueueCap \in Nat /\ MaxGoals \in Nat /\ MaxTime \in Nat /\ MaxSkip \in Nat /\ Instants \subseteq Int
    BY GateConstants DEF GateConstants
  <2> USE <2>0
  <2>1. ASSUME NEW at \in Instants, AcceptGoal(at) PROVE TypeOK'
    <3>1. [n |-> arrived + 1, at |-> at, warned |-> at < now \/ OutOfOrder(at)] \in Goal
      BY <2>1 DEF AcceptGoal, TypeOK, Goal
    <3>2. queue' \in Seq(Goal) /\ Len(queue') <= QueueCap
      BY <2>1, <3>1 DEF AcceptGoal, TypeOK
    <3> QED BY <2>1, <3>2 DEF AcceptGoal, NoteLiveness, TypeOK
  <2>2. CASE DropGoal
    BY <2>2 DEF DropGoal, TypeOK, gate
  <2>3. CASE KeepAlive
    BY <2>3 DEF KeepAlive, NoteLiveness, TypeOK
  <2>4. CASE TorqueOffNow
    BY <2>4 DEF TorqueOffNow, LatchTorqueOff, NoteLiveness, TypeOK
  <2>5. CASE TickSweep \/ TickRewrite
    BY <2>5 DEF TickSweep, TickRewrite, TypeOK, gate
  <2>6. CASE TickDeadMan
    BY <2>6 DEF TickDeadMan, LatchTorqueOff, TypeOK
  <2>7. CASE TickWriteGoal
    <3>1. Head(queue) \in Goal /\ Tail(queue) \in Seq(Goal) /\ Len(Tail(queue)) <= QueueCap
      BY <2>7 DEF TickWriteGoal, HeadDue, TypeOK
    <3> QED BY <2>7, <3>1 DEF TickWriteGoal, TypeOK
  <2>8. CASE Arm
    <3>1. CASE latched
      <4>1. queue' = <<>> /\ held' = NoGoal /\ wrote' = NoGoal
        BY <2>8, <3>1 DEF Arm, ReleaseLatch, ClearCommanded
      <4>2. queue' \in Seq(Goal) /\ Len(queue') <= QueueCap /\ held' \in Goal \cup {NoGoal}
        BY <4>1
      <4>3. wrote' \in Goal \cup {NoGoal} /\ dead' \in 0..arrived' /\ arrived' \in Nat
        BY <2>8, <3>1 DEF Arm, TypeOK
      <4> QED
        BY <2>8, <3>1, <4>2, <4>3 DEF Arm, ReleaseLatch, NoteLiveness, TypeOK
    <3>2. CASE ~latched
      BY <2>8, <3>2 DEF Arm, NoteLiveness, TypeOK
    <3> QED BY <3>1, <3>2
  <2>9. CASE Disarmed
    <3>1. queue' = <<>> /\ held' = NoGoal
      BY <2>9 DEF Disarmed, ClearCommanded
    <3>2. queue' \in Seq(Goal) /\ Len(queue') <= QueueCap /\ held' \in Goal \cup {NoGoal}
      BY <3>1
    <3>3. wrote' \in Goal \cup {NoGoal} /\ dead' \in 0..arrived' /\ arrived' \in Nat
      BY <2>9 DEF Disarmed, TypeOK
    <3> QED BY <2>9, <3>2, <3>3 DEF Disarmed, TypeOK
  <2>10. CASE LetGo
    BY <2>10 DEF LetGo, LatchTorqueOff, TypeOK
  <2>11. CASE SweptLimp
    BY <2>11 DEF SweptLimp, TypeOK, gate
  <2>12. ASSUME NEW skipped \in 0..MaxSkip, NextCycle(skipped) PROVE TypeOK'
    BY <2>12 DEF NextCycle, TypeOK, gate
  <2>13. ASSUME NEW to \in 0..MaxTime, ClockStepBack(to) PROVE TypeOK'
    BY <2>13 DEF ClockStepBack, LatchTorqueOff, TypeOK
  <2>14. CASE UNCHANGED vars
    BY <2>14 DEF vars, gate, TypeOK
  <2> QED
    BY <2>1, <2>2, <2>3, <2>4, <2>5, <2>6, <2>7, <2>8, <2>9, <2>10, <2>11,
       <2>12, <2>13, <2>14 DEF Next, Tick
<1> QED
  BY <1>1, <1>2, PTL DEF Spec

-----------------------------------------------------------------------------
(* The inductive invariant.  The properties alone are not inductive: that a  *)
(* written goal is a live one rests on the line holding only live ones, and  *)
(* that the order survives an execution on the held setpoint having come     *)
(* before all of them.  The dead-man is measured against lastAccept and the  *)
(* promise against lastWord, which are one instant.                          *)

LineIsLive == \A i \in 1..Len(queue) : dead < queue[i].n /\ queue[i].n <= arrived

LineIsOrdered == \A i, j \in 1..Len(queue) : i < j => queue[i].n < queue[j].n

HeldCameFirst == held # NoGoal =>
                    /\ held.n <= arrived
                    /\ \A i \in 1..Len(queue) : held.n < queue[i].n

HeldIsLive == ~latched /\ held # NoGoal => dead < held.n /\ held.at <= now

WroteIsLive == wrote # NoGoal => dead < wrote.n /\ wrote.at <= now

LivenessIsAWord == lastWord = lastAccept

LineInv == LineIsLive /\ LineIsOrdered /\ HeldCameFirst /\ UnwarnedIsInOrder

AuthorityInv == HeldIsLive /\ WroteIsLive

ClockInv == LivenessIsAWord /\ NotSuspended /\ DeadManHolds

\* What an append and an execution do to a line, entry by entry.
LEMMA AppendIs ==
  ASSUME NEW S, NEW q \in Seq(S), NEW g \in S
  PROVE  /\ Len(Append(q, g)) = Len(q) + 1
         /\ \A i \in 1..Len(q) : Append(q, g)[i] = q[i]
         /\ Append(q, g)[Len(q) + 1] = g
  OBVIOUS

\* An execution moves every entry of the line one place up.
LEMMA TailIs ==
  ASSUME NEW S, NEW q \in Seq(S), q # <<>>
  PROVE  /\ Len(q) \in Nat /\ Len(q) >= 1
         /\ Head(q) = q[1]
         /\ Len(Tail(q)) = Len(q) - 1
         /\ \A i \in 1..(Len(q) - 1) : Tail(q)[i] = q[i + 1]
  OBVIOUS

\* A goal's place and its instant are numbers.
LEMMA GoalFields == \A x \in Goal : x.n \in Nat /\ x.at \in Int
<1>1. MaxGoals \in Nat /\ Instants \subseteq Int
  BY GateConstants DEF GateConstants
<1> SUFFICES ASSUME NEW x \in Goal PROVE x.n \in Nat /\ x.at \in Int
  OBVIOUS
<1>2. x.n \in 1..MaxGoals /\ x.at \in Instants
  BY DEF Goal
<1>3. \A k \in 1..MaxGoals : k \in Nat
  BY <1>1
<1>4. x.n \in Nat
  BY <1>2, <1>3
<1>5. x.at \in Int
  BY <1>1, <1>2
<1> QED BY <1>4, <1>5

\* The line stays live, ordered, behind the held setpoint and truthfully warned.
LEMMA LineStep == TypeOK /\ TypeOK' /\ LineInv /\ [Next]_vars => LineInv'
<1> SUFFICES ASSUME TypeOK, TypeOK', LineInv, [Next]_vars PROVE LineInv'
  OBVIOUS
<1> USE DEF LineInv
<1>0. /\ Len(queue) \in Nat /\ arrived \in Nat /\ dead \in Nat
      /\ \A i \in 1..Len(queue) : queue[i].n \in Nat /\ queue[i].at \in Int
      /\ held # NoGoal => held.n \in Nat /\ held.at \in Int
  <2>1. \A x \in Goal : x.n \in Nat /\ x.at \in Int
    BY GoalFields
  <2>2. \A i \in 1..Len(queue) : queue[i] \in Goal
    BY DEF TypeOK
  <2> QED BY <2>1, <2>2 DEF TypeOK
<1>1. ASSUME Len(queue') = 0, held' = NoGoal \/ (held' = held /\ arrived' = arrived)
      PROVE  LineInv'
  BY <1>1 DEF LineIsLive, LineIsOrdered, HeldCameFirst, UnwarnedIsInOrder
<1>2. ASSUME queue' = queue, held' = held, dead' = dead, arrived' \in {arrived, arrived + 1}
      PROVE  LineInv'
  <2>1. arrived <= arrived' /\ arrived' \in Nat
    BY <1>0, <1>2
  <2>2. LineIsLive'
    BY <1>0, <1>2, <2>1 DEF LineIsLive
  <2>3. LineIsOrdered' /\ UnwarnedIsInOrder'
    BY <1>2 DEF LineIsOrdered, UnwarnedIsInOrder
  <2>4. HeldCameFirst'
    BY <1>0, <1>2, <2>1 DEF HeldCameFirst
  <2> QED BY <2>2, <2>3, <2>4
<1>3. ASSUME NEW at \in Instants, AcceptGoal(at) PROVE LineInv'
  <2> DEFINE g == [n |-> arrived + 1, at |-> at, warned |-> at < now \/ OutOfOrder(at)]
  <2>1. g.n = arrived + 1 /\ g.at = at /\ g.warned = (at < now \/ OutOfOrder(at))
    OBVIOUS
  <2>2. /\ Len(queue) \in Nat /\ Len(queue') = Len(queue) + 1
        /\ \A i \in 1..Len(queue) : queue'[i] = queue[i]
        /\ queue'[Len(queue) + 1] = g
        /\ 1..Len(queue') = 1..Len(queue) \cup {Len(queue) + 1}
    <3>1. g \in Goal
      BY <1>3, GateConstants DEF GateConstants, AcceptGoal, TypeOK, Goal
    <3>2. queue' = Append(queue, g) /\ queue \in Seq(Goal) /\ Len(queue) \in Nat
      BY <1>3 DEF AcceptGoal, TypeOK
    <3> QED BY <3>1, <3>2, AppendIs
  <2>3. /\ held' = held /\ dead' = dead /\ arrived' = arrived + 1
        /\ dead \in Nat /\ arrived \in Nat /\ dead <= arrived
    BY <1>3 DEF AcceptGoal, TypeOK
  <2> HIDE DEF g
  <2>4. LineIsLive'
    <3> SUFFICES ASSUME NEW i \in 1..Len(queue')
                 PROVE  dead < queue'[i].n /\ queue'[i].n <= arrived + 1
      BY <2>3 DEF LineIsLive
    <3>1. CASE i \in 1..Len(queue)
      BY <1>0, <2>2, <3>1 DEF LineIsLive
    <3>2. CASE i = Len(queue) + 1
      BY <2>1, <2>2, <2>3, <3>2
    <3> QED BY <2>2, <3>1, <3>2
  <2>5. LineIsOrdered'
    <3> SUFFICES ASSUME NEW i \in 1..Len(queue'), NEW j \in 1..Len(queue'), i < j
                 PROVE  queue'[i].n < queue'[j].n
      BY DEF LineIsOrdered
    <3>1. i \in 1..Len(queue) /\ queue'[i].n = queue[i].n /\ queue[i].n <= arrived
      BY <2>2 DEF LineIsLive
    <3>2. CASE j \in 1..Len(queue)
      BY <2>2, <3>1, <3>2 DEF LineIsOrdered
    <3>3. CASE j = Len(queue) + 1
      <4>1. queue'[j].n = arrived + 1
        BY <2>1, <2>2, <3>3
      <4> QED BY <1>0, <3>1, <4>1
    <3> QED BY <2>2, <3>2, <3>3
  <2>6. HeldCameFirst'
    <3> SUFFICES ASSUME held # NoGoal
                 PROVE  held.n <= arrived' /\ \A i \in 1..Len(queue') : held.n < queue'[i].n
      BY <2>3 DEF HeldCameFirst
    <3>1. held.n \in Nat /\ held.n <= arrived
      BY DEF HeldCameFirst, TypeOK, Goal
    <3> QED BY <2>1, <2>2, <2>3, <3>1 DEF HeldCameFirst
  <2>7. UnwarnedIsInOrder'
    <3> SUFFICES ASSUME NEW i \in 1..Len(queue'), ~queue'[i].warned
                 PROVE  IF i = 1 THEN held # NoGoal => queue'[i].at > held.at
                                 ELSE queue'[i].at > queue'[i-1].at
      BY <2>3 DEF UnwarnedIsInOrder
    <3>1. CASE i \in 1..Len(queue)
      BY <2>2, <3>1 DEF UnwarnedIsInOrder
    <3>2. CASE i = Len(queue) + 1 /\ queue = <<>>
      <4>1. i = 1 /\ queue'[i] = g
        BY <2>2, <3>2
      <4>2. held # NoGoal => ~(at <= held.at)
        BY <2>1, <3>2, <4>1 DEF OutOfOrder, LastInLine
      <4>3. held # NoGoal => held.at \in Int
        BY GateConstants DEF GateConstants, TypeOK, Goal
      <4>4. at \in Int
        BY GateConstants DEF GateConstants
      <4> QED BY <2>1, <4>1, <4>2, <4>3, <4>4
    <3>3. CASE i = Len(queue) + 1 /\ queue # <<>>
      <4>1. Len(queue) >= 1 /\ i # 1 /\ queue'[i] = g /\ queue'[i-1] = queue[Len(queue)]
        BY <2>2, <3>3 DEF TypeOK
      <4>2. queue[Len(queue)] \in Goal
        BY <4>1, <2>2 DEF TypeOK
      <4>3. queue[Len(queue)] # NoGoal
        BY <4>2, NoGoalIsNoGoal DEF NoGoalIsNoGoal
      <4>4. ~(at <= queue[Len(queue)].at)
        BY <2>1, <3>3, <4>1, <4>3 DEF OutOfOrder, LastInLine
      <4>5. at \in Int /\ queue[Len(queue)].at \in Int
        BY <4>2, GateConstants DEF GateConstants, Goal
      <4> QED BY <2>1, <4>1, <4>4, <4>5
    <3> QED BY <2>2, <3>1, <3>2, <3>3
  <2> QED BY <2>4, <2>5, <2>6, <2>7
<1>4. CASE TickWriteGoal
  <2>1. /\ Len(queue) \in Nat /\ Len(queue) >= 1 /\ held' = queue[1]
        /\ Len(queue') = Len(queue) - 1
        /\ \A i \in 1..(Len(queue) - 1) : queue'[i] = queue[i + 1]
    BY <1>4, TailIs DEF TickWriteGoal, HeadDue, TypeOK
  <2>2. dead' = dead /\ arrived' = arrived
    BY <1>4 DEF TickWriteGoal
  <2>3. \A i \in 1..Len(queue') : /\ i + 1 \in 1..Len(queue) /\ 1 < i + 1
                                  /\ queue'[i] = queue[i + 1]
    BY <2>1
  <2>4. LineIsLive'
    BY <2>2, <2>3 DEF LineIsLive
  <2>5. LineIsOrdered'
    <3> SUFFICES ASSUME NEW i \in 1..Len(queue'), NEW j \in 1..Len(queue'), i < j
                 PROVE  queue'[i].n < queue'[j].n
      BY DEF LineIsOrdered
    <3>1. i + 1 < j + 1
      OBVIOUS
    <3> QED BY <2>3, <3>1 DEF LineIsOrdered
  <2>6. HeldCameFirst'
    <3>1. 1 \in 1..Len(queue)
      BY <2>1
    <3>2. held'.n <= arrived'
      BY <2>1, <2>2, <3>1 DEF LineIsLive
    <3>3. \A i \in 1..Len(queue') : held'.n < queue'[i].n
      BY <2>1, <2>3, <3>1 DEF LineIsOrdered
    <3> QED BY <3>2, <3>3 DEF HeldCameFirst
  <2>7. UnwarnedIsInOrder'
    <3> SUFFICES ASSUME NEW i \in 1..Len(queue'), ~queue'[i].warned
                 PROVE  IF i = 1 THEN held' # NoGoal => queue'[i].at > held'.at
                                 ELSE queue'[i].at > queue'[i-1].at
      BY DEF UnwarnedIsInOrder
    <3>1. queue[i + 1].at > queue[i].at
      BY <2>3 DEF UnwarnedIsInOrder
    <3>2. CASE i = 1
      BY <2>1, <2>3, <3>1, <3>2
    <3>3. CASE i # 1
      <4>1. i - 1 \in 1..Len(queue') /\ queue'[i-1] = queue[i]
        BY <2>1, <3>3
      <4> QED BY <2>3, <3>1, <3>3, <4>1
    <3> QED BY <3>2, <3>3
  <2> QED BY <2>4, <2>5, <2>6, <2>7
<1>5. CASE DropGoal
  BY <1>2, <1>5 DEF DropGoal, gate
<1>6. CASE KeepAlive \/ TickSweep \/ TickRewrite \/ SweptLimp
  BY <1>2, <1>6 DEF KeepAlive, TickSweep, TickRewrite, SweptLimp, gate
<1>7. CASE TorqueOffNow \/ TickDeadMan \/ LetGo
  <2>1. queue' = <<>> /\ held' = held /\ arrived' = arrived
    BY <1>7 DEF TorqueOffNow, TickDeadMan, LetGo, LatchTorqueOff
  <2> QED BY <1>1, <2>1
<1>8. CASE Disarmed
  <2>1. queue' = <<>> /\ held' = NoGoal
    BY <1>8 DEF Disarmed, ClearCommanded
  <2> QED BY <1>1, <2>1
<1>9. CASE Arm
  <2>1. CASE latched
    <3>1. queue' = <<>> /\ held' = NoGoal
      BY <1>9, <2>1 DEF Arm, ReleaseLatch, ClearCommanded
    <3> QED BY <1>1, <3>1
  <2>2. CASE ~latched
    BY <1>2, <1>9, <2>2 DEF Arm
  <2> QED BY <2>1, <2>2
<1>10. ASSUME NEW skipped \in 0..MaxSkip, NextCycle(skipped) PROVE LineInv'
  BY <1>2, <1>10 DEF NextCycle, gate
<1>11. ASSUME NEW to \in 0..MaxTime, ClockStepBack(to) PROVE LineInv'
  <2>1. queue' = <<>> /\ held' = held /\ arrived' = arrived
    BY <1>11 DEF ClockStepBack, LatchTorqueOff
  <2> QED BY <1>1, <2>1
<1>12. CASE UNCHANGED vars
  BY <1>2, <1>12 DEF vars, gate
<1> QED
  BY <1>3, <1>4, <1>5, <1>6, <1>7, <1>8, <1>9, <1>10, <1>11, <1>12 DEF Next, Tick

\* What is held or written keeps the authority it had, and never runs early.
LEMMA AuthorityStep ==
  TypeOK /\ TypeOK' /\ LineInv /\ AuthorityInv /\ [Next]_vars => AuthorityInv'
<1> SUFFICES ASSUME TypeOK, LineInv, AuthorityInv, [Next]_vars PROVE AuthorityInv'
  OBVIOUS
<1> USE DEF AuthorityInv
<1>0. /\ now \in Int /\ dead \in Nat
      /\ held # NoGoal => held.n \in Nat /\ held.at \in Int
  BY GoalFields DEF TypeOK
<1>1. ASSUME wrote' = NoGoal, latched' \/ held' = NoGoal
      PROVE  AuthorityInv'
  BY <1>1 DEF HeldIsLive, WroteIsLive
<1>2. ASSUME wrote' \in {NoGoal, wrote}, held' = held, latched' = latched,
             dead' = dead, now' = now
      PROVE  AuthorityInv'
  BY <1>2 DEF HeldIsLive, WroteIsLive
<1>3. ASSUME NEW at \in Instants, AcceptGoal(at) PROVE AuthorityInv'
  BY <1>2, <1>3 DEF AcceptGoal
<1>4. CASE DropGoal \/ KeepAlive \/ TickSweep \/ SweptLimp
  BY <1>2, <1>4 DEF DropGoal, KeepAlive, TickSweep, SweptLimp, gate
<1>5. CASE TorqueOffNow \/ TickDeadMan \/ LetGo
  BY <1>1, <1>5 DEF TorqueOffNow, TickDeadMan, LetGo, LatchTorqueOff
<1>6. CASE TickWriteGoal
  <2>1. /\ held' = Head(queue) /\ wrote' = Head(queue)
        /\ dead' = dead /\ now' = now
    BY <1>6 DEF TickWriteGoal
  <2>2. queue # <<>> /\ Head(queue).at <= now
    BY <1>6 DEF TickWriteGoal, HeadDue
  <2>3. Head(queue) = queue[1] /\ 1 \in 1..Len(queue)
    BY <2>2, TailIs DEF TypeOK
  <2>4. dead < Head(queue).n
    BY <2>3 DEF LineInv, LineIsLive
  <2> QED BY <2>1, <2>2, <2>4 DEF HeldIsLive, WroteIsLive
<1>7. CASE TickRewrite
  BY <1>7 DEF TickRewrite, gate, HeldIsLive, WroteIsLive
<1>8. CASE Arm
  <2>1. CASE latched
    BY <1>1, <1>8, <2>1 DEF Arm, ReleaseLatch, ClearCommanded
  <2>2. CASE ~latched
    BY <1>2, <1>8, <2>2 DEF Arm
  <2> QED BY <2>1, <2>2
<1>9. CASE Disarmed
  BY <1>1, <1>9 DEF Disarmed, ClearCommanded
<1>10. ASSUME NEW skipped \in 0..MaxSkip, NextCycle(skipped) PROVE AuthorityInv'
  <2>1. /\ wrote' = NoGoal /\ held' = held /\ latched' = latched
        /\ dead' = dead /\ now' = now + 1 + skipped
    BY <1>10 DEF NextCycle, gate
  <2>2. now <= now'
    BY <1>0, <2>1, GateConstants DEF GateConstants
  <2>3. now' \in Int
    BY <1>0, <2>1, GateConstants DEF GateConstants
  <2> QED BY <1>0, <2>1, <2>2, <2>3 DEF HeldIsLive, WroteIsLive
<1>11. ASSUME NEW to \in 0..MaxTime, ClockStepBack(to) PROVE AuthorityInv'
  BY <1>1, <1>11 DEF ClockStepBack, LatchTorqueOff
<1>12. CASE UNCHANGED vars
  BY <1>2, <1>12 DEF vars, gate
<1> QED
  BY <1>3, <1>4, <1>5, <1>6, <1>7, <1>8, <1>9, <1>10, <1>11, <1>12 DEF Next, Tick

\* Liveness is stamped only by words, never in the future of an unlatched
\* machine, and the cycle that asks the gate finds it fresh or latches.
LEMMA ClockStep == TypeOK /\ ClockInv /\ [Next]_vars => ClockInv'
<1> SUFFICES ASSUME TypeOK, ClockInv, [Next]_vars PROVE ClockInv'
  OBVIOUS
<1> USE DEF ClockInv, LivenessIsAWord, NotSuspended
<1>0. now \in Int /\ lastAccept \in Int /\ lastWord \in Int
  BY DEF TypeOK
<1>1. HoldTimeout \in Nat /\ MaxSkip \in Nat /\ MaxTime \in Nat
  BY GateConstants DEF GateConstants
<1>2. ASSUME NEW at \in Instants, AcceptGoal(at) PROVE ClockInv'
  BY <1>0, <1>2 DEF AcceptGoal, NoteLiveness, DeadManHolds
<1>3. CASE KeepAlive \/ TorqueOffNow
  BY <1>0, <1>3 DEF KeepAlive, TorqueOffNow, LatchTorqueOff, NoteLiveness, DeadManHolds
<1>4. CASE DropGoal \/ TickSweep \/ TickDeadMan \/ LetGo
  BY <1>4 DEF DropGoal, TickSweep, TickDeadMan, LetGo, LatchTorqueOff, gate, DeadManHolds
<1>5. CASE TickWriteGoal \/ TickRewrite
  <2>1. /\ ~Expired /\ now' = now /\ believed' = believed /\ latched' = latched
        /\ hasAccepted' = hasAccepted /\ lastAccept' = lastAccept /\ lastWord' = lastWord
    BY <1>5 DEF TickWriteGoal, TickRewrite, gate
  <2>2. believed /\ hasAccepted => now - lastAccept <= HoldTimeout
    BY <1>0, <1>1, <2>1 DEF Expired
  <2> QED BY <2>1, <2>2 DEF DeadManHolds
<1>6. CASE Arm
  <2>1. now' = now /\ lastWord' = now /\ lastAccept' = now
    BY <1>6 DEF Arm, ReleaseLatch, NoteLiveness
  <2>2. now - now = 0 /\ 0 <= HoldTimeout /\ now <= now
    BY <1>0, <1>1
  <2> QED BY <2>1, <2>2 DEF DeadManHolds
<1>7. CASE Disarmed
  BY <1>7 DEF Disarmed, DeadManHolds
<1>8. CASE SweptLimp
  BY <1>8 DEF SweptLimp, gate, DeadManHolds
<1>9. ASSUME NEW skipped \in 0..MaxSkip, NextCycle(skipped) PROVE ClockInv'
  BY <1>0, <1>1, <1>9 DEF NextCycle, gate, DeadManHolds
<1>10. ASSUME NEW to \in 0..MaxTime, ClockStepBack(to) PROVE ClockInv'
  BY <1>10 DEF ClockStepBack, LatchTorqueOff, DeadManHolds
<1>11. CASE UNCHANGED vars
  BY <1>11 DEF vars, gate, DeadManHolds
<1> QED
  BY <1>2, <1>3, <1>4, <1>5, <1>6, <1>7, <1>8, <1>9, <1>10, <1>11 DEF Next, Tick

GateInv == LineInv /\ AuthorityInv /\ ClockInv

\* The inductive invariant holds of every reachable state.
THEOREM GateIsSound == Spec => []GateInv
<1>1. Init => GateInv
  <2> SUFFICES ASSUME Init PROVE GateInv
    OBVIOUS
  <2>1. Len(queue) = 0
    BY DEF Init
  <2>2. LineInv
    BY <2>1 DEF Init, LineInv, LineIsLive, LineIsOrdered, HeldCameFirst, UnwarnedIsInOrder
  <2>3. AuthorityInv /\ ClockInv
    BY DEF Init, AuthorityInv, HeldIsLive, WroteIsLive, ClockInv, LivenessIsAWord,
           NotSuspended, DeadManHolds
  <2> QED BY <2>2, <2>3 DEF GateInv
<1>2. TypeOK /\ TypeOK' /\ GateInv /\ [Next]_vars => GateInv'
  BY LineStep, AuthorityStep, ClockStep DEF GateInv
<1> QED
  BY <1>1, <1>2, TypeCorrect, PTL DEF Spec

\* Goals execute in the order they arrived and each at most once.
THEOREM InOrder == Spec => []InArrivalOrder
<1>1. GateInv => InArrivalOrder
  BY DEF GateInv, LineInv, LineIsLive, LineIsOrdered, HeldCameFirst, InArrivalOrder
<1> QED BY <1>1, GateIsSound, PTL

\* No goal that stood when torque was let go, or came while it was, is written
\* by a machine armed again.
THEOREM NothingOutlives == Spec => []NoGoalOutlivesALatch
<1>1. TypeOK /\ GateInv => NoGoalOutlivesALatch
  <2> SUFFICES ASSUME TypeOK, GateInv PROVE NoGoalOutlivesALatch
    OBVIOUS
  <2>1. \A x \in Goal : x.n \in Nat
    BY GoalFields
  <2>2. held # NoGoal => held.n \in Nat
    BY <2>1 DEF TypeOK
  <2>3. wrote # NoGoal => wrote.n \in Nat
    BY <2>1 DEF TypeOK
  <2> QED BY <2>2, <2>3 DEF TypeOK, GateInv, AuthorityInv, HeldIsLive, WroteIsLive, NoGoalOutlivesALatch
<1> QED BY <1>1, GateIsSound, TypeCorrect, PTL

\* No goal reaches the bus before its instant.
THEOREM OnTime == Spec => []NeverEarly
<1>1. GateInv => NeverEarly
  BY DEF GateInv, AuthorityInv, WroteIsLive, NeverEarly
<1> QED BY <1>1, GateIsSound, PTL

\* A sender that was not warned really was in order, at every later moment.
THEOREM WarningsAreComplete == Spec => []UnwarnedIsInOrder
<1>1. GateInv => UnwarnedIsInOrder
  BY DEF GateInv, LineInv
<1> QED BY <1>1, GateIsSound, PTL

\* Torque is not held past the timeout on silence, however the seam is flooded.
THEOREM DeadMan == Spec => []DeadManHolds
<1>1. GateInv => DeadManHolds
  BY DEF GateInv, ClockInv
<1> QED BY <1>1, GateIsSound, PTL

\* No clock step suspends the timer: the liveness of an unlatched machine is
\* never stamped in its future (loop_ctl.rs, reanchor).
THEOREM NeverSuspended == Spec => []NotSuspended
<1>1. GateInv => NotSuspended
  BY DEF GateInv, ClockInv
<1> QED BY <1>1, GateIsSound, PTL

-----------------------------------------------------------------------------
(* The gate implements the abstract promise of CommandAuthority.             *)

\* With nothing in line and nothing held, nothing has authority.
LEMMA NothingLive ==
  ASSUME Len(queue) = 0, held = NoGoal
  PROVE  Live = {}
<1>1. 1..Len(queue) = {}
  OBVIOUS
<1> QED BY <1>1 DEF Live

\* Every step of the gate is a step of the promise, or changes none of it.
LEMMA GateStepIsPromised ==
  TypeOK /\ TypeOK' /\ [Next]_vars => [Authority!AbsNext]_(Authority!absVars)
<1> SUFFICES ASSUME TypeOK, TypeOK', [Next]_vars
             PROVE  Authority!AbsNext \/ UNCHANGED Authority!absVars
  OBVIOUS
<1>1. ASSUME queue' = queue, held' = held, latched' = latched
      PROVE  Live' = Live
  BY <1>1 DEF Live
<1>2. ASSUME queue' = queue, held' = held, latched' = latched, wrote' = NoGoal
      PROVE  Authority!AbsNext
  BY <1>1, <1>2 DEF Authority!AbsNext, Authority!Idle
<1>3. ASSUME latched' = TRUE, wrote' = NoGoal
      PROVE  Authority!AbsNext
  <2>1. Live' = {}
    BY <1>3 DEF Live
  <2> QED BY <1>3, <2>1 DEF Authority!AbsNext, Authority!Revoke
<1>4. ASSUME Live' = {}, wrote' = NoGoal, latched' = latched
      PROVE  Authority!AbsNext
  BY <1>4 DEF Authority!AbsNext, Authority!Forget
<1>5. ASSUME NEW at \in Instants, AcceptGoal(at) PROVE Authority!AbsNext
  <2> DEFINE g == [n |-> arrived + 1, at |-> at, warned |-> at < now \/ OutOfOrder(at)]
  <2>1. /\ wrote' = NoGoal /\ latched' = latched /\ held' = held
        /\ queue' = Append(queue, g) /\ queue \in Seq(Goal) /\ queue' \in Seq(Goal)
    BY <1>5 DEF AcceptGoal, TypeOK
  <2>2. g \in Goal
    BY <1>5, <2>1, GateConstants DEF GateConstants, AcceptGoal, TypeOK, Goal
  <2> HIDE DEF g
  <2>3. CASE latched
    BY <1>3, <2>1, <2>3 DEF TypeOK
  <2>4. CASE ~latched
    <3>1. /\ Len(queue) \in Nat /\ Len(queue') = Len(queue) + 1
          /\ \A i \in 1..Len(queue) : queue'[i] = queue[i]
          /\ queue'[Len(queue) + 1] = g
      BY <2>1, <2>2, AppendIs
    <3>2. 1..Len(queue') = 1..Len(queue) \cup {Len(queue) + 1}
      BY <3>1
    <3>3. {queue'[i] : i \in 1..Len(queue')} = {queue[i] : i \in 1..Len(queue)} \cup {g}
      BY <3>1, <3>2
    <3>4. Live' = Live \cup {g}
      BY <2>1, <2>4, <3>3 DEF Live
    <3> QED BY <2>1, <2>2, <2>4, <3>4 DEF Authority!AbsNext, Authority!Grant
  <2> QED BY <2>3, <2>4
<1>6. CASE DropGoal \/ KeepAlive \/ TickSweep \/ SweptLimp
  BY <1>2, <1>6 DEF DropGoal, KeepAlive, TickSweep, SweptLimp, gate
<1>7. CASE TorqueOffNow \/ TickDeadMan \/ LetGo
  BY <1>3, <1>7 DEF TorqueOffNow, TickDeadMan, LetGo, LatchTorqueOff
<1>8. CASE TickWriteGoal
  <2>1. /\ ~latched /\ latched' = latched /\ queue # <<>> /\ queue \in Seq(Goal)
        /\ held' = Head(queue) /\ wrote' = Head(queue) /\ queue' = Tail(queue)
    BY <1>8 DEF TickWriteGoal, HeadDue, TypeOK
  <2>2. /\ Len(queue) \in Nat /\ Len(queue) >= 1 /\ Head(queue) = queue[1]
        /\ Len(queue') = Len(queue) - 1
        /\ \A i \in 1..(Len(queue) - 1) : queue'[i] = queue[i + 1]
    BY <2>1, TailIs
  <2>3. \A i \in 1..Len(queue') : i + 1 \in 1..Len(queue) /\ queue'[i] = queue[i + 1]
    BY <2>2
  <2>4. queue[1] \in Goal /\ queue[1] # NoGoal /\ 1 \in 1..Len(queue)
    BY <2>1, <2>2, NoGoalIsNoGoal DEF NoGoalIsNoGoal
  <2>5. queue[1] \in Live /\ queue[1] \in Live'
    BY <2>1, <2>2, <2>4 DEF Live
  <2>6. Live' \subseteq Live
    <3>1. \A i \in 1..Len(queue') : queue'[i] \in Live
      BY <2>1, <2>3 DEF Live
    <3>2. Live' = {queue'[i] : i \in 1..Len(queue')} \cup ({held'} \ {NoGoal})
      BY <2>1 DEF Live
    <3>3. held' \in Live
      BY <2>1, <2>2, <2>5
    <3> QED BY <3>1, <3>2, <3>3
  <2> QED BY <2>1, <2>2, <2>4, <2>5, <2>6 DEF Authority!AbsNext, Authority!Write
<1>9. CASE TickRewrite
  <2>1. /\ ~latched /\ latched' = latched /\ held' = held /\ queue' = queue
        /\ wrote' = held /\ held \in Goal \cup {NoGoal}
    BY <1>9 DEF TickRewrite, gate, TypeOK
  <2>2. CASE held = NoGoal
    BY <1>2, <2>1, <2>2
  <2>3. CASE held # NoGoal
    <3>1. held \in Live /\ Live' = Live
      BY <1>1, <2>1, <2>3 DEF Live
    <3> QED BY <2>1, <2>3, <3>1 DEF Authority!AbsNext, Authority!Write
  <2> QED BY <2>2, <2>3
<1>10. CASE Arm
  <2>1. CASE latched
    <3>1. queue' = <<>> /\ held' = NoGoal /\ latched' = FALSE /\ wrote' = NoGoal
      BY <1>10, <2>1 DEF Arm, ReleaseLatch, ClearCommanded
    <3>2. Len(queue') = 0
      BY <3>1
    <3>3. 1..Len(queue') = {}
      BY <3>2
    <3>4. Live' = {}
      BY <3>1, <3>3 DEF Live
    <3> QED BY <2>1, <3>1, <3>4 DEF Authority!AbsNext, Authority!Engage
  <2>2. CASE ~latched
    BY <1>2, <1>10, <2>2 DEF Arm
  <2> QED BY <2>1, <2>2
<1>11. CASE Disarmed
  <2>1. queue' = <<>> /\ held' = NoGoal /\ latched' = latched /\ wrote' = NoGoal
    BY <1>11 DEF Disarmed, ClearCommanded
  <2>2. Len(queue') = 0
    BY <2>1
  <2>3. 1..Len(queue') = {}
    BY <2>2
  <2>4. Live' = {}
    BY <2>1, <2>3 DEF Live
  <2> QED BY <1>4, <2>1, <2>4
<1>12. ASSUME NEW skipped \in 0..MaxSkip, NextCycle(skipped) PROVE Authority!AbsNext
  BY <1>2, <1>12 DEF NextCycle, gate
<1>13. ASSUME NEW to \in 0..MaxTime, ClockStepBack(to) PROVE Authority!AbsNext
  BY <1>3, <1>13 DEF ClockStepBack, LatchTorqueOff
<1>14. CASE UNCHANGED vars
  BY <1>1, <1>14 DEF vars, gate, Authority!absVars
<1> QED
  BY <1>5, <1>6, <1>7, <1>8, <1>9, <1>10, <1>11, <1>12, <1>13, <1>14 DEF Next, Tick

\* The gate keeps the promise: a goal reaches the bus only with authority, a
\* latch takes it from every goal, and one taken in under a latch never has any.
THEOREM GateKeepsItsPromise == Spec => ImplementsAuthority
<1>1. Init => Authority!AbsInit
  <2> SUFFICES ASSUME Init PROVE Authority!AbsInit
    OBVIOUS
  <2>1. Len(queue) = 0 /\ held = NoGoal
    BY DEF Init
  <2>2. Live = {}
    BY <2>1, NothingLive
  <2> QED BY <2>2 DEF Init, Authority!AbsInit
<1> QED
  BY <1>1, GateStepIsPromised, TypeCorrect, PTL DEF Spec, ImplementsAuthority, Authority!AbsSpec
=============================================================================
