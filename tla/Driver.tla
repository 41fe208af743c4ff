------------------------------- MODULE Driver -------------------------------
(***************************************************************************)
(* One motor driver process: the cycle of crates/reachy-motord over the    *)
(* decisions of crates/reachy-driver.  A cycle drains the seam, answers a  *)
(* wire failure, asks the gate what to write, takes an engagement, steps   *)
(* the torque-off confirmation and spends its one out-of-band transaction. *)
(* The servos are a set of rows whose torque-enable register is one; every *)
(* exchange with them may be lost on the way out or on the way back until  *)
(* the link is good.  What the gate writes when it is not sweeping is      *)
(* GoalGate's subject: here a goal is only a word from its sender.         *)
(***************************************************************************)
EXTENDS Integers, FiniteSets

CONSTANTS N,              \* servos on the bus (JOINT_COUNT, 9)
          HoldTimeout,    \* silence the dead-man allows, in cycles
          ConfirmBudget,  \* TORQUE_OFF_CONFIRM_BUDGET_NS, in cycles
          EngageCycles,   \* ENGAGE_READ_CYCLES
          EngageSets,     \* the sets of rows a host asks to engage
          AuxKinds,       \* which out-of-band requests a host makes
          MaxSkip,        \* bound: grid points one overrun passes over
          MaxBack,        \* bound: cycles the clock is ever behind a stamp
          Hazards         \* which of HazardKinds the environment has

HazardKinds == {"crash", "reader", "clock", "skip", "stop", "remark", "blind",
                "unread", "calm"}

Rows == 0..(N - 1)

ASSUME DriverConstants ==
  /\ N \in Nat \ {0}
  /\ HoldTimeout \in Nat /\ ConfirmBudget \in Nat
  /\ EngageCycles \in Nat \ {0}
  /\ EngageSets \subseteq (SUBSET Rows) \ {{}}
  /\ AuxKinds \subseteq {"enable", "release", "other"}
  /\ MaxSkip \in Nat /\ MaxBack \in Nat
  /\ Hazards \subseteq HazardKinds

\* An out-of-band request as the driver tells them apart: a verified write of
\* one row's torque-enable register, on or off, or anything else.
Txn == [kind : AuxKinds, row : Rows]
NoTxn == [kind |-> "none", row |-> 0]

VARIABLES
  mode,             \* "down", "run", "wind" (winding down), "ended"
  how,              \* what the wind-down answered, or "none"
  left,             \* cycles the wind-down still has
  stage,            \* where in its cycle the driver is
  torqued,          \* rows whose servo holds torque: the machine itself
  believed,         \* rows the driver believes torqued
  latched,          \* the gate's torque-off latch
  heard, silence,   \* has_accepted, and cycles since last_accept
  active, cursor, age, saidConfirmed, saidUnconfirmed, \* the confirmation pass
  pending,          \* the out-of-band slot, or NoTxn
  asked, waited,    \* the engagement asked for ({}: none), and its window
  swept, engaged,   \* what this cycle has written
  event,            \* the cycle's one event slot
  readerStopped,    \* a port of the seam has no reader
  \* the environment, and what the properties observe
  calm,             \* the host has fallen silent and the link is good, for good
  stray,            \* rows an enable took whose read-back was lost
  unnamed,          \* rows the arming that ended the last latch did not name
  revoked,          \* torque let go, and nothing asked for it since
  wireFailed        \* the driver has acted on a stopped reader

latch == <<latched, unnamed>>
gate == <<latch, heard, silence>>
pass == <<active, cursor, age, saidConfirmed, saidUnconfirmed>>
slot == <<pending>>
engage == <<asked, waited>>
cycle == <<swept, engaged>>
machine == <<torqued, stray>>
run == <<mode, how, left>>
world == <<readerStopped, calm>>
vars == <<run, stage, machine, believed, gate, pass, slot, engage, cycle,
          event, world, revoked, wireFailed>>

Up == mode \in {"run", "wind"}
AtMost(n, bound) == IF n <= bound THEN n ELSE bound
AtLeast(n, bound) == IF n >= bound THEN n ELSE bound

\* What an exchange over a set of rows reaches.
Reached(rows) == IF calm THEN {rows} ELSE SUBSET rows

-----------------------------------------------------------------------------
(* The calls the cycle's parts share.                                      *)

NoteLiveness == heard' = TRUE /\ silence' = 0

\* report.rs, raise: one event a cycle; the dead-man outranks, else first wins.
Raise(kind) == event' = IF event = "none" \/ kind = "holdTimeout"
                        THEN kind ELSE event

\* A latch sweeps every row, whatever was named before it.
Latch == latched' = TRUE /\ unnamed' = {}

PassIs(on) == /\ active' = on /\ cursor' = 0 /\ age' = 0
              /\ saidConfirmed' = FALSE /\ saidUnconfirmed' = FALSE

\* Slip: a pass already running is opened again at every call.
BeginPassAgain == PassIs(TRUE)

BeginPass == IF active THEN UNCHANGED pass ELSE PassIs(TRUE)
StandDown == PassIs(FALSE)

\* Slip: the latch without the pass that reads it back.
LetGoUnread == Latch /\ pending' = NoTxn /\ revoked' = TRUE /\ UNCHANGED pass

\* tick.rs, let_go: latch, drop the slot's request, open the pass.
LetGo == /\ Latch
         /\ pending' = NoTxn
         /\ BeginPass
         /\ revoked' = TRUE

\* Slip: a release that leaves the engagement asked for before it standing.
RequestKeepingEngagement == LetGo /\ UNCHANGED engage

RequestTorqueOff == LetGo /\ asked' = {} /\ waited' = 0

\* An arming ends a standing latch for every row, those it does not name too,
\* and stands down the pass that would have read them back.
Rearm(rows) ==
  IF latched THEN latched' = FALSE /\ unnamed' = Rows \ rows /\ StandDown
             ELSE unnamed' = unnamed \ rows /\ UNCHANGED <<latched, pass>>

\* Slip: an arming that stamps no liveness of its own.
CreditSilently(rows) ==
  /\ believed' = believed \cup rows
  /\ UNCHANGED <<heard, silence>>
  /\ Rearm(rows)

\* What an enable that was read back earns: the belief, liveness, and the end
\* of a standing latch with the pass that was confirming it.
CreditEnabled(rows) ==
  /\ believed' = believed \cup rows
  /\ NoteLiveness
  /\ Rearm(rows)

\* Slip: a stop that asks the belief and forgets a running pass.
OutstandingBelief == believed # {}

\* torque_outstanding: what a stop asks before it has anything to do.
Outstanding == believed # {} \/ (active /\ ~saidConfirmed)

\* The torque-off sweep: every row written off, the ones read back disbelieved.
Sweep ==
  \E off \in Reached(Rows) : \E seen \in Reached(off) :
    /\ torqued' = torqued \ off
    /\ stray' = stray \ off
    /\ believed' = believed \ seen

-----------------------------------------------------------------------------
(* The process.                                                            *)

\* DriverState::new, with the loop asleep before its first cycle.
Fresh ==
  /\ stage = "sleep" /\ how = "none" /\ left = 0
  /\ believed = {} /\ latched = FALSE /\ unnamed = {} /\ heard = FALSE /\ silence = 0
  /\ active = FALSE /\ cursor = 0 /\ age = 0
  /\ saidConfirmed = FALSE /\ saidUnconfirmed = FALSE
  /\ pending = NoTxn /\ asked = {} /\ waited = 0
  /\ swept = FALSE /\ engaged = FALSE /\ event = "none"
  /\ readerStopped = FALSE /\ wireFailed = FALSE /\ revoked = FALSE

\* A driver joins a machine whose last driver may have left it holding torque.
Init == /\ mode = "down" /\ Fresh
        /\ torqued \in SUBSET Rows /\ stray = {}
        /\ calm = FALSE

\* Slip: a startup sweep whose failed rows are not let go.
BootTrusting ==
  /\ mode = "down"
  /\ mode' = "run"
  /\ \E off \in Reached(Rows) : torqued' = torqued \ off
  /\ UNCHANGED <<how, left, stage, stray, believed, gate, pass, slot, engage,
                 cycle, event, world, revoked, wireFailed>>

\* main.rs and startup_mrc_sweep: the first thing on the bus is a verified
\* torque-off of every row, and a row that would not verify latches.
Boot ==
  /\ mode = "down"
  /\ mode' = "run"
  /\ \E off \in Reached(Rows) : \E seen \in Reached(off) :
       /\ torqued' = torqued \ off
       /\ IF seen = Rows THEN UNCHANGED <<latch, pending, pass, revoked, engage>>
                         ELSE RequestTorqueOff
  /\ UNCHANGED <<how, left, stage, stray, believed, heard, silence, cycle,
                 event, world, wireFailed>>

\* The process dies anywhere in a cycle; the servos keep what they hold.
Crash ==
  /\ "crash" \in Hazards /\ Up
  /\ mode' = "down" /\ stage' = "sleep" /\ how' = "none" /\ left' = 0
  /\ believed' = {} /\ latched' = FALSE /\ unnamed' = {} /\ heard' = FALSE /\ silence' = 0
  /\ StandDown
  /\ pending' = NoTxn /\ asked' = {} /\ waited' = 0
  /\ swept' = FALSE /\ engaged' = FALSE /\ event' = "none"
  /\ readerStopped' = FALSE /\ wireFailed' = FALSE /\ revoked' = FALSE
  /\ stray' = {}
  /\ UNCHANGED <<torqued, calm>>

-----------------------------------------------------------------------------
(* Draining the seam: the session's datagrams, then the goals.             *)

Hearing == Up /\ ~calm /\ stage \in {"sleep", "sessions"} /\ stage' = "sessions"

KeepAlive ==
  /\ Hearing
  /\ NoteLiveness
  /\ UNCHANGED <<run, machine, believed, latch, pass, slot, engage, cycle,
                 event, world, revoked, wireFailed>>

TorqueOffNow ==
  /\ Hearing
  /\ RequestTorqueOff
  /\ NoteLiveness
  /\ UNCHANGED <<run, machine, believed, cycle, event, world, wireFailed>>

\* A request the slot is free for.  One it holds already is a re-issue and a
\* word (KeepAlive's step); any other is turned away and is none.
OfferAux(txn) ==
  /\ Hearing
  /\ pending = NoTxn
  /\ pending' = txn
  /\ NoteLiveness
  /\ revoked' = (revoked /\ txn.kind # "enable")
  /\ UNCHANGED <<run, machine, believed, latch, pass, engage, cycle, event,
                 world, wireFailed>>

\* The same rows again keep the window they are waiting in.
EngageNow(rows) ==
  /\ Hearing
  /\ asked' = rows
  /\ waited' = IF asked = rows THEN waited ELSE 0
  /\ NoteLiveness
  /\ revoked' = FALSE
  /\ UNCHANGED <<run, machine, believed, latch, pass, slot, cycle, event,
                 world, wireFailed>>

\* A goal the line takes is a word; one it drops is not.  Either may leave a
\* remark: late or out of order, or dropped.
OfferGoal(taken, remarked) ==
  /\ Up /\ ~calm /\ stage \in {"sleep", "sessions", "goals"}
  /\ stage' = "goals"
  /\ ~taken => remarked
  /\ remarked => "remark" \in Hazards
  /\ IF taken THEN NoteLiveness ELSE UNCHANGED <<heard, silence>>
  /\ IF remarked THEN Raise("remark") ELSE UNCHANGED event
  /\ UNCHANGED <<run, machine, believed, latch, pass, slot, engage, cycle,
                 world, revoked, wireFailed>>

-----------------------------------------------------------------------------
(* The cycle.                                                              *)

\* answer_wire_failure: on every cycle a port has no reader, let go again.
StartCycle ==
  /\ Up /\ stage \in {"sleep", "sessions", "goals"}
  /\ stage' = "gate"
  /\ IF readerStopped
     THEN RequestTorqueOff /\ wireFailed' = TRUE
     ELSE UNCHANGED <<latch, slot, pass, revoked, engage, wireFailed>>
  /\ UNCHANGED <<run, machine, believed, heard, silence, cycle, event, world>>

Expired == believed # {} /\ heard /\ silence > HoldTimeout

GateSweep ==
  /\ stage = "gate" /\ latched
  /\ stage' = "engage" /\ swept' = TRUE
  /\ BeginPass
  /\ Sweep
  /\ UNCHANGED <<run, gate, slot, engage, engaged, event, world, revoked,
                 wireFailed>>

GateDeadMan ==
  /\ stage = "gate" /\ ~latched /\ Expired
  /\ stage' = "engage" /\ swept' = TRUE
  /\ Latch
  /\ BeginPass
  /\ Raise("holdTimeout")
  /\ Sweep
  /\ UNCHANGED <<run, heard, silence, slot, engage, engaged, world, revoked,
                 wireFailed>>

\* A goal, the held setpoint again, or nothing: no torque moves.
GateWrite ==
  /\ stage = "gate" /\ ~latched /\ ~Expired
  /\ stage' = "engage"
  /\ UNCHANGED <<run, machine, believed, gate, pass, slot, engage, cycle,
                 event, world, revoked, wireFailed>>

\* What the cycle's read answered is either enough for the engagement or not;
\* a long enough run of cycles that read nothing is a remark of its own.
BusRemark == \/ UNCHANGED event
             \/ "blind" \in Hazards /\ ~calm /\ Raise("remark")

NoEngagement ==
  /\ stage = "engage" /\ asked = {}
  /\ stage' = "confirm"
  /\ BusRemark
  /\ UNCHANGED <<run, machine, believed, gate, pass, slot, engage, cycle,
                 world, revoked, wireFailed>>

EngageHeld ==
  /\ stage = "engage" /\ asked # {} /\ asked \subseteq believed
  /\ stage' = "confirm"
  /\ asked' = {} /\ waited' = 0
  /\ Raise("engage")
  /\ UNCHANGED <<run, machine, believed, gate, pass, slot, cycle, world,
                 revoked, wireFailed>>

\* Slip: a window that never closes.
EngageWaitForever ==
  /\ stage = "engage" /\ ~(asked \subseteq believed) /\ ~calm
  /\ stage' = "confirm"
  /\ waited' = waited + 1
  /\ BusRemark
  /\ UNCHANGED <<run, machine, believed, gate, pass, slot, asked, cycle,
                 world, revoked, wireFailed>>

EngageWait ==
  /\ stage = "engage" /\ ~(asked \subseteq believed) /\ ~calm
  /\ waited + 1 < EngageCycles
  /\ stage' = "confirm"
  /\ waited' = waited + 1
  /\ BusRemark
  /\ UNCHANGED <<run, machine, believed, gate, pass, slot, asked, cycle,
                 world, revoked, wireFailed>>

EngageDeclined ==
  /\ stage = "engage" /\ ~(asked \subseteq believed) /\ ~calm
  /\ waited + 1 >= EngageCycles
  /\ stage' = "confirm"
  /\ asked' = {} /\ waited' = 0
  /\ Raise("engage")
  /\ UNCHANGED <<run, machine, believed, gate, pass, slot, cycle, world,
                 revoked, wireFailed>>

\* What the read-back of an enable sees: each row that holds, unless the
\* answers themselves are lost.
ReadBacks(holding) ==
  IF "unread" \in Hazards /\ ~calm THEN SUBSET holding ELSE {holding}

\* Pin, enable and read back.  Every row seen to hold is credited; unless that
\* is all of them the machine is let go, after the credit.
EngageRun ==
  /\ stage = "engage" /\ ~(asked \subseteq believed)
  /\ stage' = "confirm" /\ engaged' = TRUE
  /\ \E on \in Reached(asked) :
       /\ torqued' = torqued \cup on
       /\ \E seen \in ReadBacks(asked \cap torqued') :
            /\ stray' = (stray \cup on) \ seen
            /\ CASE seen = asked -> CreditEnabled(seen) /\ UNCHANGED <<pending, revoked>>
                 [] seen = {}    -> LetGo /\ UNCHANGED <<believed, heard, silence>>
                 [] OTHER        -> /\ believed' = believed \cup seen
                                    /\ NoteLiveness
                                    /\ Latch /\ pending' = NoTxn
                                    /\ IF active /\ ~latched THEN UNCHANGED pass
                                                             ELSE PassIs(TRUE)
                                    /\ revoked' = TRUE
  /\ asked' = {} /\ waited' = 0
  /\ Raise("engage")
  /\ UNCHANGED <<run, swept, world, wireFailed>>

\* The pin or the enable never reached the wire: nothing is read back.
EngageUnsent ==
  /\ stage = "engage" /\ ~(asked \subseteq believed) /\ ~calm
  /\ stage' = "confirm" /\ engaged' = TRUE
  /\ LetGo
  /\ asked' = {} /\ waited' = 0
  /\ Raise("engage")
  /\ UNCHANGED <<run, machine, believed, heard, silence, swept, world, wireFailed>>

-----------------------------------------------------------------------------
(* The confirmation pass is stepped before the slot is asked.              *)

Overdue == age > ConfirmBudget

ConfirmComplete ==
  /\ stage = "confirm" /\ active /\ cursor = N /\ ~saidConfirmed
  /\ stage' = "aux"
  /\ saidConfirmed' = TRUE
  /\ believed' = {}
  /\ Raise("confirmed")
  /\ UNCHANGED <<run, machine, gate, active, cursor, age, saidUnconfirmed, slot,
                 engage, cycle, world, revoked, wireFailed>>

ConfirmOverdue ==
  /\ stage = "confirm" /\ active /\ cursor < N /\ Overdue /\ ~saidUnconfirmed
  /\ stage' = "aux"
  /\ saidUnconfirmed' = TRUE
  /\ Raise("unconfirmed")
  /\ UNCHANGED <<run, machine, believed, gate, active, cursor, age,
                 saidConfirmed, slot, engage, cycle, world, revoked, wireFailed>>

ConfirmQuiet ==
  /\ stage = "confirm"
  /\ active => IF cursor = N THEN saidConfirmed ELSE ~Overdue \/ saidUnconfirmed
  /\ stage' = "aux"
  /\ UNCHANGED <<run, machine, believed, gate, pass, slot, engage, cycle,
                 event, world, revoked, wireFailed>>

-----------------------------------------------------------------------------
(* The cycle's one out-of-band transaction.                                *)

\* A sweep or an engagement leaves no room, but a request a host is waiting on
\* runs on a swept cycle anyway: it is the way a latch ends.
HostRuns == pending # NoTxn /\ (swept \/ ~engaged)

Ran == pending' = NoTxn /\ stage' = "publish"

HostEnable ==
  /\ stage = "aux" /\ HostRuns /\ pending.kind = "enable"
  /\ Ran
  /\ torqued' = torqued \cup {pending.row}
  /\ stray' = stray \ {pending.row}
  /\ CreditEnabled({pending.row})
  /\ UNCHANGED <<run, engage, cycle, event, world, revoked, wireFailed>>

\* The write took and its read-back was lost: the driver credits nothing.
HostEnableUnseen ==
  /\ stage = "aux" /\ HostRuns /\ pending.kind = "enable" /\ ~calm
  /\ Ran
  /\ torqued' = torqued \cup {pending.row}
  /\ stray' = stray \cup {pending.row}
  /\ UNCHANGED <<run, believed, gate, pass, engage, cycle, event, world,
                 revoked, wireFailed>>

HostRelease ==
  /\ stage = "aux" /\ HostRuns /\ pending.kind = "release"
  /\ Ran
  /\ torqued' = torqued \ {pending.row}
  /\ stray' = stray \ {pending.row}
  /\ believed' = believed \ {pending.row}
  /\ UNCHANGED <<run, gate, pass, engage, cycle, event, world, revoked, wireFailed>>

HostReleaseUnseen ==
  /\ stage = "aux" /\ HostRuns /\ pending.kind = "release" /\ ~calm
  /\ Ran
  /\ torqued' = torqued \ {pending.row}
  /\ stray' = stray \ {pending.row}
  /\ UNCHANGED <<run, believed, gate, pass, engage, cycle, event, world,
                 revoked, wireFailed>>

\* A transaction that moves no torque, or one of the above that never took.
HostOther ==
  /\ stage = "aux" /\ HostRuns /\ (pending.kind = "other" \/ ~calm)
  /\ Ran
  /\ UNCHANGED <<run, machine, believed, gate, pass, engage, cycle, event,
                 world, revoked, wireFailed>>

\* Slip: a read nobody answered counts as clean.
ConfirmReadHopeful ==
  /\ stage = "aux" /\ ~HostRuns /\ active /\ cursor < N
  /\ \E answered \in BOOLEAN :
       /\ calm => answered
       /\ cursor' = IF answered /\ cursor \in torqued THEN 0 ELSE cursor + 1
  /\ stage' = "publish"
  /\ UNCHANGED <<run, machine, believed, gate, active, age, saidConfirmed,
                 saidUnconfirmed, slot, engage, cycle, event, world, revoked,
                 wireFailed>>

\* Slip: no read-back on a swept cycle, like any other surveillance.
ConfirmReadDeferred ==
  /\ stage = "aux" /\ ~HostRuns /\ active /\ cursor < N
  /\ IF swept THEN UNCHANGED cursor
     ELSE cursor' = IF cursor \notin torqued THEN cursor + 1 ELSE 0
  /\ stage' = "publish"
  /\ UNCHANGED <<run, machine, believed, gate, active, age, saidConfirmed,
                 saidUnconfirmed, slot, engage, cycle, event, world, revoked,
                 wireFailed>>

\* One row read back.  A row that holds, or does not answer, restarts the pass.
ConfirmRead ==
  /\ stage = "aux" /\ ~HostRuns /\ active /\ cursor < N
  /\ \E answered \in BOOLEAN :
       /\ calm => answered
       /\ cursor' = IF answered /\ cursor \notin torqued THEN cursor + 1 ELSE 0
  /\ stage' = "publish"
  /\ UNCHANGED <<run, machine, believed, gate, active, age, saidConfirmed,
                 saidUnconfirmed, slot, engage, cycle, event, world, revoked,
                 wireFailed>>

\* A health read, a deferred request, or nothing to do.
NoHostWork ==
  /\ stage = "aux" /\ ~HostRuns /\ ~(active /\ cursor < N)
  /\ stage' = "publish"
  /\ UNCHANGED <<run, machine, believed, gate, pass, slot, engage, cycle,
                 event, world, revoked, wireFailed>>

-----------------------------------------------------------------------------
(* The loop.                                                               *)

\* The verdict a wind-down's cycle ends with, read from the pass itself.
Wind ==
  IF mode = "wind" /\ (saidConfirmed \/ saidUnconfirmed \/ left = 1)
  THEN /\ mode' = "ended" /\ left' = 0
       /\ how' = IF saidConfirmed THEN "confirmed" ELSE "unconfirmed"
  ELSE /\ left' = IF mode = "wind" THEN left - 1 ELSE left
       /\ UNCHANGED <<mode, how>>

\* The reports go out and the next grid point still ahead is slept to.
EndCycle(skipped) ==
  /\ stage = "publish"
  /\ skipped > 0 => "skip" \in Hazards
  /\ stage' = "sleep"
  /\ event' = "none" /\ swept' = FALSE /\ engaged' = FALSE
  /\ silence' = AtMost(silence + 1 + skipped, HoldTimeout + 1)
  /\ age' = IF active THEN AtMost(age + 1 + skipped, ConfirmBudget + 1) ELSE 0
  /\ Wind
  /\ UNCHANGED <<machine, believed, latch, heard, active, cursor,
                 saidConfirmed, saidUnconfirmed, slot, engage, world, revoked,
                 wireFailed>>

\* reanchor: the clock stepped back in the sleep, so every stamp is further
\* ahead; the machine is let go and the grid re-drawn.  It costs a wind-down
\* one of its cycles.
ClockStepBack(back) ==
  /\ "clock" \in Hazards /\ Up /\ ~calm /\ stage = "sleep"
  /\ stage' = "sleep"
  /\ Latch /\ pending' = NoTxn /\ revoked' = TRUE
  /\ asked' = {} /\ waited' = 0
  /\ IF active THEN /\ age' = AtLeast(age - back, -MaxBack)
                    /\ UNCHANGED <<active, cursor, saidConfirmed, saidUnconfirmed>>
               ELSE PassIs(TRUE)
  /\ silence' = AtLeast(silence - back, -MaxBack)
  /\ IF mode = "wind" /\ left = 1
     THEN mode' = "ended" /\ left' = 0 /\ how' = "unconfirmed"
     ELSE left' = (IF mode = "wind" THEN left - 1 ELSE left) /\ UNCHANGED <<mode, how>>
  /\ UNCHANGED <<machine, believed, heard, cycle, event, world, wireFailed>>

\* A stop is seen before the cycle or in its sleep.
Stop ==
  /\ "stop" \in Hazards /\ mode = "run" /\ stage = "sleep"
  /\ IF Outstanding
     THEN /\ mode' = "wind" /\ left' = ConfirmBudget + 2
          /\ RequestTorqueOff
          /\ UNCHANGED how
     ELSE /\ mode' = "ended" /\ how' = "alreadyReleased"
          /\ UNCHANGED <<left, latch, pending, pass, revoked, engage>>
  /\ UNCHANGED <<stage, machine, believed, heard, silence, cycle, event, world,
                 wireFailed>>

-----------------------------------------------------------------------------
(* The environment.                                                        *)

ReaderStops ==
  /\ "reader" \in Hazards /\ Up /\ ~readerStopped
  /\ readerStopped' = TRUE
  /\ UNCHANGED <<run, stage, machine, believed, gate, pass, slot, engage, cycle,
                 event, calm, revoked, wireFailed>>

\* From here on the host says nothing more and the link loses nothing.
FallCalm ==
  /\ "calm" \in Hazards /\ Up /\ ~calm
  /\ calm' = TRUE
  /\ UNCHANGED <<run, stage, machine, believed, gate, pass, slot, engage, cycle,
                 event, readerStopped, revoked, wireFailed>>

Seam == \/ KeepAlive \/ TorqueOffNow
        \/ \E txn \in Txn : OfferAux(txn)
        \/ \E rows \in EngageSets : EngageNow(rows)
        \/ \E taken, remarked \in BOOLEAN : OfferGoal(taken, remarked)

Cycle == \/ StartCycle
         \/ GateSweep \/ GateDeadMan \/ GateWrite
         \/ NoEngagement \/ EngageHeld \/ EngageWait \/ EngageDeclined
         \/ EngageRun \/ EngageUnsent
         \/ ConfirmComplete \/ ConfirmOverdue \/ ConfirmQuiet
         \/ HostEnable \/ HostEnableUnseen \/ HostRelease \/ HostReleaseUnseen
         \/ HostOther \/ ConfirmRead \/ NoHostWork
         \/ \E skipped \in 0..MaxSkip : EndCycle(skipped)

Next == \/ Boot \/ Crash
        \/ Seam \/ Cycle
        \/ \E back \in 1..MaxBack : ClockStepBack(back)
        \/ Stop \/ ReaderStops \/ FallCalm

Spec == Init /\ [][Next]_vars

\* The loop is one thread nothing blocks: every exchange runs under a deadline
\* and the seam is drained by a bounded number of datagrams.
FairSpec == Spec /\ WF_vars(Cycle)

-----------------------------------------------------------------------------
(* Properties.                                                             *)

\* Every part of the driver has its type: no cursor runs past the last row, no
\* engagement window past its cycles and no wind-down past its bound.
TypeOK ==
  /\ mode \in {"down", "run", "wind", "ended"}
  /\ how \in {"none", "alreadyReleased", "confirmed", "unconfirmed"}
  /\ left \in 0..(ConfirmBudget + 2)
  /\ stage \in {"sleep", "sessions", "goals", "gate", "engage", "confirm", "aux",
                "publish"}
  /\ torqued \subseteq Rows /\ believed \subseteq Rows /\ stray \subseteq torqued
  /\ unnamed \subseteq Rows
  /\ latched \in BOOLEAN /\ heard \in BOOLEAN
  /\ silence \in (-MaxBack)..(HoldTimeout + 1)
  /\ active \in BOOLEAN /\ cursor \in 0..N
  /\ age \in (-MaxBack)..(ConfirmBudget + 1)
  /\ saidConfirmed \in BOOLEAN /\ saidUnconfirmed \in BOOLEAN
  /\ pending \in Txn \cup {NoTxn}
  /\ asked \in EngageSets \cup {{}} /\ waited \in 0..(EngageCycles - 1)
  /\ swept \in BOOLEAN /\ engaged \in BOOLEAN
  /\ event \in {"none", "remark", "holdTimeout", "engage", "confirmed", "unconfirmed"}
  /\ readerStopped \in BOOLEAN /\ calm \in BOOLEAN
  /\ revoked \in BOOLEAN /\ wireFailed \in BOOLEAN

\* A latch and the pass that reads it back stand and fall together: nothing is
\* let go unread, and no pass outlives the arming that ended its latch to report
\* on a release nobody is asking for (tick.rs, credit_torque_write; engage.rs).
LatchHasItsPass == latched <=> active

\* A row that holds torque while no latch stands is one the driver believes in,
\* and so one the dead-man runs over (torque.rs: "a machine believed idle that is
\* holding is a machine the dead-man will not save").  It has two exceptions: a row
\* an enable took unseen, and one left out of the arming that ended the latch for
\* every row, which nothing sweeps or reads any more (engage.rs, credit;
\* session_bus.rs, engage, which leaves flagged antennas out).
HoldingIsKnown ==
  Up /\ ~latched => torqued \subseteq believed \cup stray \cup unnamed

\* A machine believed torqued and not let go has been heard from, and once the
\* gate has been asked, within the hold timeout: every way of arming leaves the
\* dead-man running, however many grid points an overrun passed over.
DeadManRuns ==
  Up /\ ~latched /\ believed # {} =>
     /\ heard
     /\ stage \in {"engage", "confirm", "aux", "publish"} => silence <= HoldTimeout

\* A pass that says the release took says it of a machine that is off now, not
\* of one that was off when its rows were read; only a row an enable took unseen
\* since may hold (torque.rs, TorqueOffConfirm).
ConfirmedMeansReleased == saidConfirmed => torqued \subseteq stray

\* A driver that ended saying that the release was confirmed leaves a limp machine
\* behind it.  One that ended saying there was nothing to release asked its belief
\* and not the machine, and leaves no row holding but those HoldingIsKnown
\* excepts (loop_ctl.rs, WoundDown).
EndedTruthfully ==
  /\ how = "confirmed" => torqued \subseteq stray
  /\ how = "alreadyReleased" => torqued \subseteq stray \cup unnamed

\* Nothing asked for before a release takes torque after it: whatever the slot
\* and the engagement held when the machine was let go, no row takes torque
\* again until a host asks anew (aux_slot.rs, abandon; engage.rs, abandon).
ReleaseOutranks ==
  [][revoked /\ mode' # "down" => torqued' \subseteq torqued]_vars

\* Once the driver has acted on a stopped reader the latch never ends and no row
\* ever takes torque, whatever arrives on the port that still has a reader
\* (loop_ctl.rs, answer_wire_failure: "one that cannot be left").
WireFailureIsAbsorbing ==
  [][wireFailed /\ mode' # "down" => latched' /\ torqued' \subseteq torqued]_vars

\* A pass that stands says something in the end, however deaf the bus is and
\* however often the release is commanded again (torque.rs, begin), or is replaced
\* by a new one: an engagement some of whose rows take stands it down and lets go
\* again in one cycle, and a host may ask for one again and again.
Replaced == engaged /\ active /\ age = 0
PassSpeaks == active ~> (saidConfirmed \/ saidUnconfirmed \/ ~active \/ Replaced)

\* And a release standing then is confirmed: the sweep that overruns every cycle
\* does not starve the read-backs (tick.rs, run_aux).
CalmConfirms == calm /\ active ~> (saidConfirmed \/ ~active \/ ~Up)
=============================================================================
