----------------------------- MODULE Sequencers -----------------------------
(***************************************************************************)
(* The three register-level conversations of crates/reachy-motion (arm.rs  *)
(* and disarm.rs): commissioning a machine found at rest, the poll that    *)
(* re-reads the rail before torque comes on, and the disarm that lets go.  *)
(* Each is a snapshot and a step: absorb the answer to the transaction the *)
(* snapshot holds, then say what is next.  Everything here is a function of *)
(* the snapshot and the answer; the session decides when a step is taken.  *)
(* A conversation that neither holds a transaction nor has ended is waiting. *)
(***************************************************************************)
EXTENDS Integers

CONSTANTS N,              \* servos on the bus (ROW_COUNT, 9)
          Antennas,       \* the rows of the two antennas
          ProvisionCells, \* the register cells the configuration does not skip
          CheckedCells,   \* those of them it checks, not merely records
          ProfileRegs,    \* profile registers written per servo (PROFILE_REGS, 4)
          VoltageWait,    \* voltage_poll_period
          VoltageBudget,  \* voltage_budget: how long commissioning waits for the rail
          Dwell           \* DisarmConfig.dwell

Rows == 0..(N - 1)
Heads == Rows \ Antennas

ASSUME SequencerConstants ==
  /\ N \in Nat \ {0}
  /\ Antennas \subseteq Rows
  /\ ProvisionCells \in Nat /\ CheckedCells \subseteq 0..(ProvisionCells - 1)
  /\ ProfileRegs \in Nat
  /\ VoltageWait \in Nat /\ VoltageBudget \in Nat /\ Dwell \in Nat

\* What a transaction comes back as: the value wanted, another well-formed
\* one, no answer at all, or anything else.  "nothing" is a step taken with no
\* answer in hand.
Results == {"ok", "odd", "none", "error"}
Priors == Results \cup {"nothing"}

\* One row of a rail sweep.  A low supply hides the error bits beside it: both
\* refuse, and the supply is judged first.
Readings == {"good", "low", "flagged"}

Kinds == {"none", "commission", "poll", "disarm"}
Phases == {"none", "presence", "identity", "provision", "voltage", "health",
           "gains", "dwell", "verify", "release", "complete", "failed"}

\* age counts since voltage_started; flag is voltage_waiting or dwell_waiting;
\* rows is the absent or mistaken, the named or the released rows, by kind.
Snaps == [kind : Kinds, phase : Phases, at : Nat, held : BOOLEAN, flag : BOOLEAN,
          age : 0..VoltageBudget, rows : SUBSET Rows, rail : [Rows -> Readings]]

Blank == [kind |-> "none", phase |-> "none", at |-> 0, held |-> FALSE,
          flag |-> FALSE, age |-> 0, rows |-> {}, rail |-> [r \in Rows |-> "good"]]

Writes == N + N * ProfileRegs

\* A whole sweep of a phase, as the places its cursor goes through.
Steps(phase, count) == {phase} \X (0..(count - 1))

Done(s) == s.phase = "complete"
Failed(s) == s.phase = "failed"
Transacts(s) == s.held
Waits(s) == ~Done(s) /\ ~Failed(s) /\ ~s.held

-----------------------------------------------------------------------------
(* Moving a snapshot's cursor.                                             *)

Into(s, phase) == [s EXCEPT !.phase = phase, !.at = 0, !.flag = FALSE, !.age = 0]
Fail(s) == [Into(s, "failed") EXCEPT !.held = FALSE]
Onward(s, count, then) == IF s.at + 1 < count THEN [s EXCEPT !.at = @ + 1]
                          ELSE Into(s, then)
Let(s) == [s EXCEPT !.held = FALSE]
Read(s, reading) == [s EXCEPT !.rail[s.at] = reading]

-----------------------------------------------------------------------------
(* Commissioning.                                                          *)

CommissionStart == [Blank EXCEPT !.kind = "commission", !.phase = "presence"]

AfterPresence(s) == IF s.at + 1 < N THEN [s EXCEPT !.at = @ + 1]
                    ELSE IF s.rows # {} THEN Fail(s)
                    ELSE Into(s, "identity")

\* Slip: a bus is let through with a servo missing from it.
PresenceLenient(s, prior) ==
  IF prior = "error" THEN Fail(s)
  ELSE IF s.at + 1 < N THEN [s EXCEPT !.at = @ + 1] ELSE Into(s, "identity")

AbsorbPresence(s, prior) ==
  CASE prior = "none" -> AfterPresence([s EXCEPT !.rows = @ \cup {s.at}])
    [] prior = "error" -> Fail(s)
    [] OTHER -> AfterPresence(s)

ToProvision(s) == IF ProvisionCells > 0 THEN Into(s, "provision") ELSE Into(s, "voltage")

\* A model that is not the expected one is filed, and judged when all are in.
AbsorbIdentity(s, prior) ==
  LET read == [s EXCEPT !.rows = IF prior = "odd" THEN @ \cup {s.at} ELSE @]
  IN IF prior \in {"none", "error"} THEN Fail(s)
     ELSE IF s.at + 1 < N THEN [read EXCEPT !.at = @ + 1]
     ELSE IF read.rows # {} THEN Fail(s)
     ELSE ToProvision(read)

AbsorbProvision(s, prior) ==
  IF prior \in {"none", "error"} \/ (prior = "odd" /\ s.at \in CheckedCells)
  THEN Fail(s) ELSE Onward(s, ProvisionCells, "voltage")

SweptLow(s) == \E r \in Rows : s.rail[r] = "low"

\* Slip: a rail that never comes up is waited for without end.
AbsorbVoltageForever(s, prior) ==
  LET read == Read(s, IF prior = "odd" THEN "low" ELSE "good")
  IN IF prior \in {"none", "error"} THEN Fail(s)
     ELSE IF s.at + 1 < N THEN [read EXCEPT !.at = @ + 1, !.flag = FALSE]
     ELSE IF ~SweptLow(read) THEN Into(read, "health")
     ELSE [read EXCEPT !.at = 0, !.flag = TRUE]

\* The whole rail is judged once its last servo is read; a rail that is not up
\* is swept again after a wait, until the budget is spent.
AbsorbVoltage(s, prior) ==
  LET read == Read(s, IF prior = "odd" THEN "low" ELSE "good")
  IN IF prior \in {"none", "error"} THEN Fail(s)
     ELSE IF s.at + 1 < N THEN [read EXCEPT !.at = @ + 1, !.flag = FALSE]
     ELSE IF ~SweptLow(read) THEN Into(read, "health")
     ELSE IF s.age >= VoltageBudget THEN Fail(s)
     ELSE [read EXCEPT !.at = 0, !.flag = TRUE]

\* Latched error bits are recorded and refuse nothing here.
AbsorbHealth(s, prior, then) ==
  IF prior \in {"none", "error"} THEN Fail(s)
  ELSE Onward(IF prior = "odd" /\ s.rail[s.at] # "low" THEN Read(s, "flagged") ELSE s, N, then)

AbsorbGains(s, prior) == IF prior # "ok" THEN Fail(s) ELSE Onward(s, Writes, "complete")

CommissionAbsorb(s, prior) ==
  IF ~s.held THEN s
  ELSE IF prior = "nothing" THEN Fail(s)
  ELSE CASE s.phase = "presence" -> AbsorbPresence(Let(s), prior)
         [] s.phase = "identity" -> AbsorbIdentity(Let(s), prior)
         [] s.phase = "provision" -> AbsorbProvision(Let(s), prior)
         [] s.phase = "voltage" -> AbsorbVoltage(Let(s), prior)
         [] s.phase = "health" -> AbsorbHealth(Let(s), prior, "gains")
         [] s.phase = "gains" -> AbsorbGains(Let(s), prior)
         [] OTHER -> Let(s)

CommissionEmit(s) ==
  CASE Done(s) \/ Failed(s) -> s
    [] s.phase = "voltage" /\ s.flag -> [s EXCEPT !.flag = FALSE]
    [] OTHER -> [s EXCEPT !.held = TRUE]

CommissionNext(s, prior) == CommissionEmit(CommissionAbsorb(s, prior))

-----------------------------------------------------------------------------
(* The poll: the voltage, then the error bits, of the rows it was named.   *)

PollStart(rows) == [Blank EXCEPT !.kind = "poll", !.phase = "voltage", !.rows = rows]

PollAdvance(s) == Onward(s, N, IF s.phase = "voltage" THEN "health" ELSE "complete")

\* Where the sweep stands once it has passed over the rows nobody named.
PollSkip(s) ==
  LET left(from) == {r \in Rows : r >= from /\ r \in s.rows}
      first(S) == CHOOSE r \in S : \A q \in S : r <= q
  IN IF s.phase = "failed" THEN s
     ELSE IF s.phase \in {"voltage", "health"} /\ left(s.at) # {}
       THEN [s EXCEPT !.at = first(left(s.at))]
     ELSE IF s.phase = "voltage" /\ left(0) # {} THEN [Into(s, "health") EXCEPT !.at = first(left(0))]
     ELSE Into(s, "complete")

PollAbsorb(s, prior) ==
  IF ~s.held THEN s
  ELSE IF prior \in {"nothing", "none", "error"} THEN Fail(s)
  ELSE IF s.phase = "voltage"
       THEN PollAdvance(Read(Let(s), IF prior = "odd" THEN "low" ELSE "good"))
  ELSE IF s.phase = "health" THEN AbsorbHealth(Let(s), prior, "complete")
  ELSE Let(s)

PollEmit(s) == LET there == PollSkip(s)
               IN IF Done(there) \/ Failed(there) THEN there ELSE [there EXCEPT !.held = TRUE]

PollNext(s, prior) == PollEmit(PollAbsorb(s, prior))

-----------------------------------------------------------------------------
(* The orderly disarm: dwell once, measure every servo, release every servo. *)

DisarmStart == [Blank EXCEPT !.kind = "disarm", !.phase = "dwell", !.flag = TRUE]

\* Slip: a servo that answers its release at all is taken for released.
ReleaseFiledCredulous(s, prior) == [s EXCEPT !.rows = IF prior # "none" THEN @ \cup {s.at} ELSE @]

ReleaseFiled(s, prior) == [s EXCEPT !.rows = IF prior = "ok" THEN @ \cup {s.at} ELSE @]

\* Slip: a servo that could not be measured ends the measuring.
DisarmAbsorbImpatient(s, prior) ==
  IF ~s.held THEN s
  ELSE CASE s.phase = "verify" /\ prior # "ok" -> Into(Let(s), "release")
         [] s.phase = "verify" /\ prior = "ok" -> Onward(Let(s), N, "release")
         [] s.phase = "release" -> Onward(ReleaseFiled(Let(s), prior), N, "complete")
         [] OTHER -> Let(s)

\* A servo that could not be measured, or whose release did not take, is filed
\* and the sweep goes on: nothing stops torque going off.
DisarmAbsorb(s, prior) ==
  IF ~s.held THEN s
  ELSE CASE s.phase = "verify" -> Onward(Let(s), N, "release")
         [] s.phase = "release" -> Onward(ReleaseFiled(Let(s), prior), N, "complete")
         [] OTHER -> Let(s)

DisarmEmit(s) ==
  IF Done(s) THEN s
  ELSE IF s.phase = "dwell" /\ s.flag /\ Dwell > 0 THEN [s EXCEPT !.flag = FALSE]
  ELSE IF s.phase = "dwell" THEN [Into(s, "verify") EXCEPT !.held = TRUE]
  ELSE [s EXCEPT !.held = TRUE]

DisarmNext(s, prior) == DisarmEmit(DisarmAbsorb(s, prior))

Unreleased(s) == Rows \ s.rows

\* One step of whichever conversation a snapshot is of.
Step(s, prior) == CASE s.kind = "commission" -> CommissionNext(s, prior)
                    [] s.kind = "poll" -> PollNext(s, prior)
                    [] s.kind = "disarm" -> DisarmNext(s, prior)
                    [] OTHER -> s

\* Time passing under a conversation.
Older(s) == IF s.kind = "commission" /\ s.phase = "voltage" /\ s.age < VoltageBudget
            THEN [s EXCEPT !.age = @ + 1] ELSE s

WaitOf(s) == IF s.kind = "commission" THEN VoltageWait ELSE Dwell
=============================================================================
