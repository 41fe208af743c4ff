------------------------------ MODULE GoalGate ------------------------------
(***************************************************************************)
(* The goal gate of crates/reachy-driver/src/lib.rs: the bounded line of   *)
(* goals, the setpoint being held, and the dead-man that latches torque    *)
(* off when the commander goes silent.  The actions are the gate's own     *)
(* calls in the order the driver's cycle makes them: the seam is drained   *)
(* at the cycle's nominal instant, the gate is ticked once, and only then  *)
(* can the cycle's engagement or its one transaction change what is        *)
(* believed about torque.                                                  *)
(***************************************************************************)
EXTENDS Integers, Sequences

CONSTANTS QueueCap,     \* goals the line holds (gate.clk: VarArray<.., 5>)
          HoldTimeout,  \* silence the dead-man allows, in cycles
          Instants,     \* the instants a sender may stamp a goal with
          NoGoal,       \* has_held = FALSE
          MaxTime,      \* bound: cycles of a run
          MaxGoals,     \* bound: goals a sender sends in a run
          MaxSkip       \* bound: grid points one overrun may pass over

ASSUME GateConstants == /\ QueueCap \in Nat \ {0}
                        /\ HoldTimeout \in Nat
                        /\ Instants \subseteq Int
                        /\ MaxTime \in Nat
                        /\ MaxGoals \in Nat
                        /\ MaxSkip \in Nat

\* A setpoint as the gate tells it apart from another: its place in the order
\* of arrival, the instant it is for, and whether its sender was warned of it.
Goal == [n : 1..MaxGoals, at : Instants, warned : BOOLEAN]

ASSUME NoGoalIsNoGoal == NoGoal \notin Goal

VARIABLES now,          \* the nominal instant of the cycle in hand
          stage,        \* "drain" until the gate is ticked, "spent" after
          believed,     \* the host's belief that some row holds torque
          queue,        \* goals accepted and not yet executed, oldest first
          held,         \* the setpoint rewritten every cycle, or NoGoal
          latched,      \* torque off is latched
          lastAccept,   \* when liveness was last noted
          hasAccepted,  \* whether it ever was
          \* what the properties observe
          arrived,      \* goals offered so far
          dead,         \* goals up to this one lost their authority for good
          lastWord,     \* when the driver last acted on anything it was sent
          wrote         \* the goal this step put on the bus, or NoGoal

gate == <<queue, held, latched, lastAccept, hasAccepted>>
vars == <<now, stage, believed, gate, arrived, dead, lastWord, wrote>>

Init == /\ now = 0 /\ stage = "drain" /\ believed = FALSE
        /\ queue = <<>> /\ held = NoGoal /\ latched = FALSE
        /\ lastAccept = 0 /\ hasAccepted = FALSE
        /\ arrived = 0 /\ dead = 0 /\ lastWord = 0 /\ wrote = NoGoal

-----------------------------------------------------------------------------
(* The gate's own calls.                                                   *)

NoteLiveness == lastAccept' = now /\ hasAccepted' = TRUE

LatchTorqueOff == /\ latched' = TRUE
                  /\ queue' = <<>>
                  /\ UNCHANGED held

\* Slip: a clear that forgets the setpoint being held.
ClearQueueOnly == queue' = <<>> /\ UNCHANGED held

ClearCommanded == queue' = <<>> /\ held' = NoGoal

\* Slip: an arming that ends the latch and keeps what arrived under it.
ReleaseKeepingLine == /\ latched' = FALSE
                      /\ UNCHANGED <<queue, held>>
                      /\ NoteLiveness

ReleaseLatch == /\ latched' = FALSE
                /\ ClearCommanded
                /\ NoteLiveness

\* The goal a fresh one has to come after: the last in line, or the held one.
LastInLine == IF queue # <<>> THEN queue[Len(queue)] ELSE held

OutOfOrder(at) == LastInLine # NoGoal /\ at <= LastInLine.at

HeadDue == queue # <<>> /\ Head(queue).at <= now

\* The dead-man: torque believed on, a commander once heard, and silence past
\* the timeout.  Strictly past: a word exactly a timeout old still holds.
Expired == believed /\ hasAccepted /\ now - lastAccept > HoldTimeout

-----------------------------------------------------------------------------
(* Draining the seam.                                                      *)

\* Slip: the line takes one goal more than it holds.
AcceptGoalOverfull(at) ==
  /\ stage = "drain" /\ arrived < MaxGoals
  /\ Len(queue) <= QueueCap
  /\ queue' = Append(queue, [n |-> arrived + 1, at |-> at,
                             warned |-> at < now \/ OutOfOrder(at)])
  /\ NoteLiveness
  /\ arrived' = arrived + 1 /\ lastWord' = now /\ wrote' = NoGoal
  /\ UNCHANGED <<now, stage, believed, held, latched, dead>>

\* A goal taken into the line is liveness; whether it is late or out of order
\* costs its sender a warning and changes nothing about its place.
AcceptGoal(at) ==
  /\ stage = "drain" /\ arrived < MaxGoals
  /\ Len(queue) < QueueCap
  /\ queue' = Append(queue, [n |-> arrived + 1, at |-> at,
                             warned |-> at < now \/ OutOfOrder(at)])
  /\ NoteLiveness
  /\ arrived' = arrived + 1 /\ lastWord' = now /\ wrote' = NoGoal
  /\ UNCHANGED <<now, stage, believed, held, latched, dead>>

\* Slip: a goal refused by a full line still counts as liveness.
DropGoalAsLiveness ==
  /\ stage = "drain" /\ arrived < MaxGoals
  /\ Len(queue) >= QueueCap
  /\ NoteLiveness
  /\ arrived' = arrived + 1 /\ wrote' = NoGoal
  /\ UNCHANGED <<now, stage, believed, queue, held, latched, dead, lastWord>>

\* A full line drops the goal, and a dropped goal is not liveness.
DropGoal ==
  /\ stage = "drain" /\ arrived < MaxGoals
  /\ Len(queue) >= QueueCap
  /\ arrived' = arrived + 1 /\ wrote' = NoGoal
  /\ UNCHANGED <<now, stage, believed, gate, dead, lastWord>>

\* Any session datagram the driver acts on, a keep-alive among them.
KeepAlive ==
  /\ stage = "drain"
  /\ NoteLiveness
  /\ lastWord' = now /\ wrote' = NoGoal
  /\ UNCHANGED <<now, stage, believed, queue, held, latched, arrived, dead>>

\* A commanded release.  The datagram is a word too.
TorqueOffNow ==
  /\ stage = "drain"
  /\ LatchTorqueOff
  /\ NoteLiveness
  /\ dead' = arrived /\ lastWord' = now /\ wrote' = NoGoal
  /\ UNCHANGED <<now, stage, believed, arrived>>

-----------------------------------------------------------------------------
(* The gate's decision, once a cycle.                                      *)

TickSweep ==
  /\ stage = "drain" /\ latched
  /\ stage' = "spent" /\ wrote' = NoGoal
  /\ UNCHANGED <<now, believed, gate, arrived, dead, lastWord>>

TickDeadMan ==
  /\ stage = "drain" /\ ~latched /\ Expired
  /\ LatchTorqueOff
  /\ stage' = "spent" /\ dead' = arrived /\ wrote' = NoGoal
  /\ UNCHANGED <<now, believed, lastAccept, hasAccepted, arrived, lastWord>>

\* Slip: the head is executed and left in the line.
TickWriteGoalTwice ==
  /\ stage = "drain" /\ ~latched /\ ~Expired /\ HeadDue
  /\ held' = Head(queue)
  /\ stage' = "spent" /\ wrote' = Head(queue)
  /\ UNCHANGED <<now, believed, queue, latched, lastAccept, hasAccepted,
                 arrived, dead, lastWord>>

TickWriteGoal ==
  /\ stage = "drain" /\ ~latched /\ ~Expired /\ HeadDue
  /\ held' = Head(queue) /\ queue' = Tail(queue)
  /\ stage' = "spent" /\ wrote' = Head(queue)
  /\ UNCHANGED <<now, believed, latched, lastAccept, hasAccepted, arrived,
                 dead, lastWord>>

TickRewrite ==
  /\ stage = "drain" /\ ~latched /\ ~Expired /\ ~HeadDue
  /\ stage' = "spent" /\ wrote' = held
  /\ UNCHANGED <<now, believed, gate, arrived, dead, lastWord>>

Tick == TickSweep \/ TickDeadMan \/ TickWriteGoal \/ TickRewrite

-----------------------------------------------------------------------------
(* What the rest of the cycle does to the gate.                            *)

\* Rows were read back enabled: an engagement or a verified enable.
Arm ==
  /\ stage = "spent"
  /\ believed' = TRUE
  /\ IF latched THEN ReleaseLatch /\ dead' = arrived
                ELSE NoteLiveness /\ UNCHANGED <<queue, held, latched, dead>>
  /\ lastWord' = now /\ wrote' = NoGoal
  /\ UNCHANGED <<now, stage, arrived>>

\* The last believed row was written off, or a whole pass read back clean.
Disarmed ==
  /\ stage = "spent"
  /\ believed' = FALSE
  /\ ClearCommanded
  /\ dead' = arrived /\ wrote' = NoGoal
  /\ UNCHANGED <<now, stage, latched, lastAccept, hasAccepted, arrived, lastWord>>

\* The driver lets go on its own authority: an engagement that did not confirm,
\* or a seam whose reader has stopped.  Nobody spoke, so nothing is liveness.
LetGo ==
  /\ LatchTorqueOff
  /\ dead' = arrived /\ wrote' = NoGoal
  /\ UNCHANGED <<now, stage, believed, lastAccept, hasAccepted, arrived, lastWord>>

\* A sweep's verified writes empty the belief row by row, and clear nothing.
SweptLimp ==
  /\ stage = "spent" /\ latched /\ believed
  /\ believed' = FALSE /\ wrote' = NoGoal
  /\ UNCHANGED <<now, stage, gate, arrived, dead, lastWord>>

\* The next cycle; an overrun passes over grid points and makes none up.
NextCycle(skipped) ==
  /\ stage = "spent" /\ now + 1 + skipped <= MaxTime
  /\ now' = now + 1 + skipped
  /\ stage' = "drain" /\ wrote' = NoGoal
  /\ UNCHANGED <<believed, gate, arrived, dead, lastWord>>

\* Slip: the grid is re-drawn and the machine is not let go.
ClockStepBackHolding(to) ==
  /\ stage = "spent" /\ to < now
  /\ now' = to
  /\ stage' = "drain" /\ wrote' = NoGoal
  /\ UNCHANGED <<believed, gate, arrived, dead, lastWord>>

\* A clock that stepped back: the machine is let go before a grid is re-drawn.
ClockStepBack(to) ==
  /\ stage = "spent" /\ to < now
  /\ now' = to
  /\ LatchTorqueOff
  /\ stage' = "drain" /\ dead' = arrived /\ wrote' = NoGoal
  /\ UNCHANGED <<believed, lastAccept, hasAccepted, arrived, lastWord>>

Next == \/ \E at \in Instants : AcceptGoal(at)
        \/ DropGoal \/ KeepAlive \/ TorqueOffNow
        \/ Tick
        \/ Arm \/ Disarmed \/ LetGo \/ SweptLimp
        \/ \E skipped \in 0..MaxSkip : NextCycle(skipped)
        \/ \E to \in 0..MaxTime : ClockStepBack(to)

Spec == Init /\ [][Next]_vars

-----------------------------------------------------------------------------
(* Properties.                                                             *)

\* Every part of the gate has its type, and the line never holds more goals than
\* its array does (GoalGate::accept drops what does not fit).
TypeOK == /\ now \in Int /\ stage \in {"drain", "spent"} /\ believed \in BOOLEAN
          /\ queue \in Seq(Goal) /\ Len(queue) <= QueueCap
          /\ held \in Goal \cup {NoGoal}
          /\ latched \in BOOLEAN /\ hasAccepted \in BOOLEAN
          /\ lastAccept \in Int /\ lastWord \in Int
          /\ arrived \in Nat /\ dead \in 0..arrived
          /\ wrote \in Goal \cup {NoGoal}

\* Goals execute in arrival order and at most once: whatever latches, releases
\* and drops happened in between, the line behind the held setpoint is strictly
\* later arrivals, oldest first (GoalGate::take_head, "oldest first is the
\* array's own order").
InArrivalOrder ==
  /\ \A i \in 1..Len(queue) : queue[i].n <= arrived
  /\ \A i, j \in 1..Len(queue) : i < j => queue[i].n < queue[j].n
  /\ held # NoGoal => \A i \in 1..Len(queue) : held.n < queue[i].n

\* A goal from before a torque-off latch, or one that arrived while it stood, is
\* never written once the machine is armed again, although the held setpoint is
\* kept through the latch for the sample stream (GoalGate::release_latch).
NoGoalOutlivesALatch ==
  /\ ~latched /\ held # NoGoal => held.n > dead
  /\ wrote # NoGoal => wrote.n > dead

\* Nothing reaches the bus before the instant its sender stamped it for.
NeverEarly == wrote # NoGoal => wrote.at <= now

\* A goal whose sender was not warned comes after everything ahead of it: the
\* verdict of GoalGate::accept stays true as the line moves up and as the
\* setpoint it was measured against is rewritten.
UnwarnedIsInOrder ==
  \A i \in 1..Len(queue) :
     ~queue[i].warned =>
        IF i = 1 THEN held # NoGoal => queue[i].at > held.at
                 ELSE queue[i].at > queue[i-1].at

\* Once a cycle has asked the gate, a machine believed torqued and not let go
\* has heard something the driver acted on within the hold timeout; a sender
\* overrunning the line cannot hold torque on by overrunning it faster.
DeadManHolds ==
  stage = "spent" /\ believed /\ hasAccepted /\ ~latched
     => now - lastWord <= HoldTimeout

\* The dead-man is never suspended by a liveness instant in the future: a clock
\* that stepped back lets the machine go, and arming stamps afresh
\* (loop_ctl.rs, reanchor).
NotSuspended == ~latched => lastAccept <= now

Live == IF latched THEN {}
        ELSE {queue[i] : i \in 1..Len(queue)} \cup ({held} \ {NoGoal})

Authority == INSTANCE CommandAuthority
               WITH live <- Live, releasing <- latched, wrote <- wrote

\* The gate implements the abstract promise: a goal reaches the bus only with
\* authority, a latch takes it from all of them, and goals taken into the line
\* while latched never gain any.
ImplementsAuthority == Authority!AbsSpec
=============================================================================
