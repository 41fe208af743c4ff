------------------------------- MODULE Session -------------------------------
(***************************************************************************)
(* The session cog (src/cogs/session_cog.rs and the session_*.rs files it  *)
(* calls): which phase the machine is in, what it is asked for, and what   *)
(* it owes.  The slot is one record, as in the code, and each function     *)
(* that takes the slot is an operator from slots to slots.  One execution  *)
(* of the cog is a run of actions: it wakes, takes the messages waiting for *)
(* it class by class, and then walks its turn in the order of              *)
(* execute_session.  What arrives, and when, is anybody's: no driver and no *)
(* host stand behind this module, only what either of them might say.      *)
(***************************************************************************)
EXTENDS Sequencers, FiniteSets

CONSTANTS AuxTimeout,    \* aux_timeout_ns, in clock ticks
          AuxRetries,    \* aux_retries
          CorrWrap,      \* bound: distinct correlation numbers
          StowBudget,    \* stow_budget_ns
          StaleAfter,    \* sample_stale_after
          Grace,         \* startup_grace_ns
          MaxScript,     \* bound: script numbers
          SpanCap,       \* script_span_cap_ms, in ticks
          Spans,         \* the script spans a host sends
          Statuses,      \* what a reading of a row may say
          Ages,          \* how old a sample may be when a wake first sees it
          Raises,        \* the faults other cogs raise
          Hazards        \* which of HazardKinds the environment has

HazardKinds == {"early",   \* an engagement answered before this one has asked
                "stray",   \* a release confirmed that the driver was never told
                "late",    \* a fault raised about a machine no longer commanded
                "silent",  \* the driver's samples stop
                "stale"}   \* a rail reading grows old

PhaseKinds == {"STARTING", "RESTING", "ENGAGING", "ACTIVE", "WINDING_DOWN",
               "STOPPING", "PARKED"}
FaultKinds == {"AntennaFault", "HeadObstructed", "HeadServoFault", "PoseLost",
               "BusFailure", "TorqueOffUnconfirmed"}
Events == {"TorqueOffConfirmed", "TorqueOffUnconfirmed", "BusFailure",
           "EngageConfirmed", "EngageUnconfirmed", "EngageDeclined"}
Answered == {"EngageConfirmed", "EngageUnconfirmed", "EngageDeclined"}
Cmds == {"none", "release", "engage", "aux", "keepalive"}

\* A script's span is the ticks left to its last instant.  Two values past the
\* cap stand for a script the screen refuses (malformed, or too long) and for
\* one of no steps, which has no last instant at all.
Refused == SpanCap + 1
Stepless == SpanCap + 2

ASSUME SessionConstants ==
  /\ AuxTimeout \in Nat /\ AuxRetries \in Nat /\ CorrWrap \in Nat \ {0}
  /\ StowBudget \in Nat /\ StaleAfter \in Nat /\ Grace \in Nat
  /\ MaxScript \in Nat \ {0} /\ SpanCap \in Nat
  /\ Spans \subseteq 0..Stepless
  /\ Statuses \subseteq Readings
  /\ Ages \subseteq Nat
  /\ Raises \subseteq FaultKinds
  /\ Hazards \subseteq HazardKinds

EngageBudget == AuxTimeout * (AuxRetries + 1)
AtMost(n, bound) == IF n <= bound THEN n ELSE bound
Less(n) == IF n > 0 THEN n - 1 ELSE 0

SilenceCap == 1 + (IF StaleAfter >= Grace THEN StaleAfter ELSE Grace)
LeftCap == SpanCap + StowBudget

Scripts == [id : 1..MaxScript, span : Spans]
NoScript == [id |-> 0, span |-> 0]

NoRow == N
NoAux == [on |-> FALSE, corr |-> 0, age |-> 0, retries |-> 0, row |-> NoRow]
Endings == {"slowRest", "maskedPark", "offPark"}
NoStow == [on |-> FALSE, defeated |-> FALSE, ending |-> "slowRest", left |-> 0,
           due |-> FALSE]

Slots ==
  [phase : PhaseKinds,
   owed : BOOLEAN,                          \* torque_off_pending
   ending : BOOLEAN,                        \* ending_by_fault
   asking : BOOLEAN,                        \* engage_pending
   asked : 0..(EngageBudget + 1),           \* engage_issued: 0, or 1 + its age
   rows : SUBSET Rows,                      \* engage_rows
   pending : [id : 0..MaxScript, span : 0..Stepless], \* the held script
   id : 0..MaxScript,                       \* active_script_id
   left : 0..LeftCap,                       \* ticks to the schedule's last instant
   engaged : BOOLEAN,                       \* schedule.engaged
   news : BOOLEAN,                          \* the epoch is one nobody was sent
   aux : [on : BOOLEAN, corr : 0..(CorrWrap - 1), age : 0..(AuxTimeout + 1),
          retries : 0..AuxRetries, row : 0..N],
   corr : 0..(CorrWrap - 1),                \* next_corr
   draining : BOOLEAN,                      \* degrade_pending
   limp : SUBSET Rows,                      \* degrade_release: rows still to let go
   seq : Snaps,                             \* the sequence seq_kind names
   wait : 0..(VoltageWait + Dwell),         \* ticks to wait_deadline
   stow : [on : BOOLEAN, defeated : BOOLEAN, ending : Endings,
           left : 0..StowBudget, due : BOOLEAN],       \* winddown
   started : BOOLEAN, saw : BOOLEAN,        \* started, saw_sample
   silence : 0..SilenceCap,                 \* since the last sample, or the start
   faulted : SUBSET Rows,                   \* health_faulted
   rail : [Rows -> Readings \cup {"stale"}]]

VARIABLES slot,      \* the state the cog keeps between executions
          stage,     \* where in its execution the cog is
          replaced,  \* a schedule was replaced in this execution
          cmd,       \* what this execution says to the driver
          sent,      \* the last schedule published: does it engage
          told       \* the release was owed when this execution began
vars == <<slot, stage, replaced, cmd, sent, told>>

Stages == {"asleep", "raises", "events", "readings", "scripts", "wound",
           "driven", "drained"}

-----------------------------------------------------------------------------
(* Phases, and what is owed (session_bus.rs, enter; session_ladder.rs).    *)

\* Leaving ENGAGING answers the engagement; parking outranks an ending by fault.
Enter(s, to) ==
  LET left == s.phase = "ENGAGING" /\ to # "ENGAGING"
  IN [s EXCEPT !.phase = to,
               !.asking = @ /\ ~left,
               !.asked = IF left THEN 0 ELSE @,
               !.ending = @ /\ to # "PARKED"]

\* Slip: what was in flight when the release was commanded stays in flight.
CommandReleaseMidAir(s) == [s EXCEPT !.owed = TRUE, !.draining = FALSE, !.limp = {}]

CommandRelease(s) == [s EXCEPT !.owed = TRUE, !.aux = NoAux, !.draining = FALSE,
                               !.limp = {}]

OwesDegrade(s) == s.draining \/ s.limp # {}

Confirmed(s) == IF s.owed THEN [s EXCEPT !.owed = FALSE, !.ending = FALSE] ELSE s

ReleasedInto(s, to) == LET t == CommandRelease(s)
                       IN IF t.phase = to THEN t ELSE Enter(t, to)

-----------------------------------------------------------------------------
(* The wind-down in its slot (session_stow.rs, winddown.rs).               *)

Response(kind) == CASE kind = "AntennaFault" -> "degrade"
                    [] kind = "HeadObstructed" -> "slowRest"
                    [] kind = "HeadServoFault" -> "maskedPark"
                    [] OTHER -> "offPark"

Rank(ending) == CASE ending = "slowRest" -> 2
                  [] ending = "maskedPark" -> 4
                  [] ending = "offPark" -> 5
Worse(a, b) == IF Rank(b) > Rank(a) THEN b ELSE a
StowsFor(ending) == ending \in {"slowRest", "maskedPark"}
Disposition(ending) == IF ending = "slowRest" THEN "RESTING" ELSE "PARKED"

Begin(s, response) == [s EXCEPT !.stow = [on |-> TRUE, defeated |-> FALSE, ending |-> response,
                                          left |-> StowBudget, due |-> TRUE]]

\* A fault under a running stow judges it, and has it commanded again; a second
\* obstruction defeats it.
ReRank(s, response) ==
  [s EXCEPT !.stow.ending = Worse(@, response), !.stow.due = TRUE,
            !.stow.defeated = @ \/ response = "slowRest"]

\* A stow commanded: one step to the stow pose, of a new epoch, published at once.
CommandStow(s) == [s EXCEPT !.stow.due = FALSE, !.left = s.stow.left,
                            !.engaged = TRUE, !.news = FALSE]

-----------------------------------------------------------------------------
(* A fault answered (session_ladder.rs, answer; session_cog.rs, record_fault). *)

Responds(s, kind) ==
  /\ ~s.owed
  /\ IF Response(kind) = "degrade" THEN ~OwesDegrade(s) ELSE ~s.stow.on

StowOrRelease(s, response) ==
  IF s.phase = "ACTIVE" THEN Enter(Begin(s, response), "WINDING_DOWN")
  ELSE ReleasedInto(s, Disposition(response))

\* Slip: a fault under a running stow is answered as if none ran.
AnswerFaultAfresh(s, kind) ==
  LET response == Response(kind)
  IN IF s.owed \/ (response = "degrade" /\ OwesDegrade(s)) THEN s
     ELSE IF response = "degrade" THEN [s EXCEPT !.limp = Antennas]
     ELSE IF response = "offPark" THEN ReleasedInto(s, "PARKED")
     ELSE StowOrRelease(s, response)

AnswerFault(s, kind) ==
  LET response == Response(kind)
  IN IF s.owed \/ (response = "degrade" /\ OwesDegrade(s)) THEN s
     ELSE IF response = "degrade" THEN [s EXCEPT !.limp = Antennas]
     ELSE IF s.stow.on THEN ReRank(s, response)
     ELSE IF response = "offPark" THEN ReleasedInto(s, "PARKED")
     ELSE StowOrRelease(s, response)

\* A response that ends the session toward rest declines the script held for it.
RecordFault(s, kind) ==
  LET t == AnswerFault(s, kind)
  IN IF Responds(s, kind) /\ t.phase # "PARKED" /\ Response(kind) = "slowRest"
     THEN [t EXCEPT !.ending = TRUE, !.pending = NoScript] ELSE t

-----------------------------------------------------------------------------
(* Scripts (session_cog.rs, decide and what it calls).                     *)

\* Slip: a machine at rest takes any script, whatever it owes.
IntakeAtRest(s) == CASE s.phase \in {"ACTIVE", "RESTING"} -> "take"
                     [] s.phase \in {"STARTING", "ENGAGING", "STOPPING"} -> "hold"
                     [] OTHER -> "refuse"

Intake(s) == CASE s.phase = "ACTIVE" \/ (s.phase = "RESTING" /\ ~s.ending) -> "take"
               [] s.phase \in {"STARTING", "ENGAGING", "STOPPING"} -> "hold"
               [] OTHER -> "refuse"

\* Ordering, the screen, and an engagement whose every window has closed.
Admits(s, script) ==
  /\ Intake(s) = "take"
  /\ s.phase = "ACTIVE" => script.id > s.id
  /\ script.span # Refused
  /\ s.phase # "ACTIVE" => script.span # 0

Replaces(s, script) == s.phase = "ACTIVE" /\ Admits(s, script)

Hold(s, script) == IF s.pending # NoScript /\ script.id <= s.pending.id THEN s
                   ELSE [s EXCEPT !.pending = script]

Store(s, script, engaged, bump) ==
  [s EXCEPT !.left = IF script.span > SpanCap THEN 0 ELSE script.span,
            !.engaged = engaged, !.news = @ \/ bump, !.id = script.id,
            !.pending = NoScript]

OpenEngagement(s) == Enter([s EXCEPT !.asking = TRUE, !.asked = 0, !.rows = {}], "ENGAGING")

Decide(s, script, bumped) ==
  IF Intake(s) = "hold" THEN Hold(s, script)
  ELSE IF ~Admits(s, script) THEN s
  ELSE IF s.phase = "ACTIVE" THEN Store(s, script, TRUE, ~bumped)
  ELSE OpenEngagement(Store(s, script, FALSE, ~bumped))

-----------------------------------------------------------------------------
(* Transactions (session_bus.rs).  A turn is the slot and what it says.    *)

Turn(s, says) == [slot |-> s, cmd |-> says]

Issue(s, row) == [s EXCEPT !.aux = [on |-> TRUE, corr |-> s.corr, age |-> 0,
                                    retries |-> 0, row |-> row],
                           !.corr = (@ + 1) % CorrWrap]

Overdue(s) == s.aux.age > AuxTimeout

\* Slip: a transaction nobody answers is sent again for ever.
SettledNever(s, answer) == IF ~s.aux.on THEN "nothing"
                           ELSE IF answer # "nothing" THEN answer ELSE "waiting"

Settled(s, answer) ==
  IF ~s.aux.on THEN "nothing"
  ELSE IF answer # "nothing" THEN answer
  ELSE IF ~Overdue(s) \/ s.aux.retries < AuxRetries THEN "waiting" ELSE "none"

Resends(s, answer) == Settled(s, answer) = "waiting" /\ Overdue(s)

\* Slip: a transaction given up is left in flight.
SettleLeaving(s, answer) ==
  IF Resends(s, answer) THEN [s EXCEPT !.aux.retries = @ + 1, !.aux.age = 0]
  ELSE IF Settled(s, answer) \in {"waiting", "none"} THEN s ELSE [s EXCEPT !.aux = NoAux]

Settle(s, answer) ==
  IF Resends(s, answer) THEN [s EXCEPT !.aux.retries = @ + 1, !.aux.age = 0]
  ELSE IF Settled(s, answer) = "waiting" THEN s ELSE [s EXCEPT !.aux = NoAux]

Paced(s, snap) ==
  CASE Transacts(snap) -> Issue([s EXCEPT !.seq = snap], NoRow)
    [] Waits(snap) -> [s EXCEPT !.seq = snap, !.wait = WaitOf(snap)]
    [] OTHER -> [s EXCEPT !.seq = Blank, !.wait = 0]
PacedSays(snap) == IF Transacts(snap) THEN "aux" ELSE "none"

\* The snapshot a phase's sequence takes its next step from, and the step.
Stepped(s, start, prior) == IF s.seq.kind = start.kind THEN Step(s.seq, prior)
                            ELSE Step(start, "nothing")

MergeRail(s, rail, rows) ==
  [s EXCEPT !.rail = [r \in Rows |-> IF r \in rows THEN rail[r] ELSE s.rail[r]]]

-----------------------------------------------------------------------------
(* The phase's own sequence, one step (session_bus.rs, run).               *)

Commission(s, prior) ==
  LET snap == Stepped(s, CommissionStart, prior)
      t == Paced(s, snap)
  IN CASE Done(snap) -> Turn(Enter(MergeRail(t, snap.rail, Rows), "RESTING"), "none")
       [] Failed(snap) -> Turn(Enter(t, "PARKED"), "none")
       [] OTHER -> Turn(t, PacedSays(snap))

Rested(s) == Turn(Enter([s EXCEPT !.asking = FALSE], "RESTING"), "none")

Stale(s) == {r \in Rows : s.rail[r] = "stale"}
Flagged(s) == {r \in Rows : s.rail[r] = "flagged"}
\* Slip: error bits refuse nothing, head or antenna.
GatesRefuseLow(s) == \E r \in Rows : s.rail[r] = "low"
GatesRefuse(s) == (\E r \in Rows : s.rail[r] = "low") \/ Flagged(s) \cap Heads # {}

\* The ask, once nothing about the rail is older than the gate may judge: the
\* rows asked for leave the antennas that flag an error out of service.
Ask(s) ==
  LET poll == Step(PollStart(Stale(s)), "nothing")
  IN IF s.asked # 0 THEN Turn(s, "engage")
     ELSE IF Stale(s) # {} THEN Turn(Paced(s, poll), PacedSays(poll))
     ELSE IF GatesRefuse(s) THEN Rested(s)
     ELSE Turn([s EXCEPT !.rows = Rows \ Flagged(s), !.asked = 1], "engage")

\* Slip: an engagement is asked for until somebody answers.
SilentTooLongNever(s) == FALSE
SilentTooLong(s) == s.asked # 0 /\ s.asked - 1 >= EngageBudget

Engage(s, prior) ==
  LET snap == Step(s.seq, prior)
      t == Paced(s, snap)
  IN IF SilentTooLong(s) THEN Rested(s)
     ELSE IF s.seq.kind # "poll" THEN Ask(s)
     ELSE IF Done(snap) THEN Ask(MergeRail(t, snap.rail, snap.rows))
     ELSE IF Failed(snap) THEN Rested(t) ELSE Turn(t, PacedSays(snap))

\* Letting go: a servo whose release was not confirmed is a torque-off
\* unconfirmed, which says nothing about torque being off.
Unconfirmed(s) == LET t == RecordFault(s, "TorqueOffUnconfirmed")
                  IN Turn(t, IF t.owed THEN "release" ELSE "none")

LettingGo(s, prior) ==
  LET snap == Stepped(s, DisarmStart, prior)
      t == Paced(s, snap)
  IN CASE Done(snap) /\ Unreleased(snap) # {} -> Unconfirmed(t)
       [] Done(snap) /\ Unreleased(snap) = {} -> Turn(Enter(t, "RESTING"), "none")
       [] OTHER -> Turn(t, PacedSays(snap))

Live(s) == \/ s.phase = "STARTING" /\ s.saw
           \/ s.phase \in {"ENGAGING", "STOPPING"}

RunPhase(s, answer) ==
  LET out == Settled(s, answer)
      t == Settle(s, answer)
  IN IF out = "waiting" THEN Turn(t, IF Resends(s, answer) THEN "aux" ELSE "none")
     ELSE IF out = "nothing" /\ t.wait > 0 THEN Turn(t, "none")
     ELSE CASE s.phase = "STARTING" -> Commission(t, out)
            [] s.phase = "ENGAGING" -> Engage(t, out)
            [] OTHER -> LettingGo(t, out)

Run(s, answer) == IF Live(s) THEN RunPhase(s, answer) ELSE Turn(s, "none")

-----------------------------------------------------------------------------
(* The antennas let go on their own (session_bus.rs, degrade).             *)

Lowest(rows) == CHOOSE r \in rows : \A q \in rows : r <= q

NextLimp(s) == IF s.limp = {} THEN Turn(s, "none")
               ELSE Turn([Issue(s, Lowest(s.limp)) EXCEPT !.draining = TRUE], "aux")

Degrade(s, answer) ==
  LET out == IF s.draining THEN Settled(s, answer) ELSE "nothing"
      t == IF s.draining THEN Settle(s, answer) ELSE s
      done == [t EXCEPT !.draining = FALSE]
  IN CASE out = "waiting" -> Turn(t, IF Resends(s, answer) THEN "aux" ELSE "none")
       [] out = "nothing" -> NextLimp(done)
       [] out = "ok" -> NextLimp([done EXCEPT !.limp = @ \ {s.aux.row}])
       [] OTHER -> Unconfirmed(done)

\* A driver let down in silence holds the machine against its own dead-man.
KeepAliveOwed(s) == s.phase = "STOPPING"
Kept(turn) == IF turn.cmd = "none" /\ KeepAliveOwed(turn.slot)
              THEN Turn(turn.slot, "keepalive") ELSE turn

EndedNow(s) == IF s.phase = "ACTIVE" /\ s.left = 0 THEN Enter(s, "STOPPING") ELSE s

\* One turn of the bus: a release owed is all that is said, a degrade owed is
\* run between the transactions of the phase's sequence, and then that.
BusTurn(s, answer) ==
  LET t == EndedNow(s)
  IN IF s.owed THEN Turn(s, "release")
     ELSE IF OwesDegrade(t) /\ (t.draining \/ ~t.aux.on) THEN Kept(Degrade(t, answer))
     ELSE Kept(Run(t, answer))

-----------------------------------------------------------------------------
(* The execution, in the order of execute_session.                         *)

Reading(s, row, status) ==
  LET read == [s EXCEPT !.rail[row] = status]
      kind == IF row \in Antennas THEN "AntennaFault" ELSE "HeadServoFault"
  IN IF status # "flagged" \/ row \in s.faulted THEN read
     ELSE RecordFault([read EXCEPT !.faulted = @ \cup {row}], kind)

\* The sample clock: a sample no newer than the last one is not one.
NoteSample(s, age) == IF s.saw /\ age >= s.silence THEN s
                      ELSE [s EXCEPT !.saw = TRUE, !.silence = AtMost(age, SilenceCap)]
NoteStart(s) == IF s.started THEN s ELSE [s EXCEPT !.started = TRUE, !.silence = 0]

SilentFor(s) == /\ s.phase # "PARKED"
                /\ s.silence > (IF s.saw THEN StaleAfter ELSE Grace)

Watched(s) == IF SilentFor(s) THEN RecordFault(s, "BusFailure") ELSE s

\* An engagement's answer, matched to a pending engagement by its being pending.
AnswerEngagement(s, event) ==
  IF ~s.asking THEN s
  ELSE LET t == [s EXCEPT !.asking = FALSE]
       IN CASE event = "EngageConfirmed" -> Enter(t, "ACTIVE")
            [] event = "EngageUnconfirmed" -> Enter(CommandRelease(t), "PARKED")
            [] OTHER -> Enter(t, "RESTING")

Heard(s, event) ==
  CASE event = "TorqueOffConfirmed" -> Confirmed(s)
    [] event \in Answered -> AnswerEngagement(s, event)
    [] OTHER -> RecordFault(s, event)

\* One step of a running wind-down, given whether the machine measures stowed.
WindDownStep(s, stowed) ==
  LET over == \/ s.stow.defeated \/ stowed
              \/ ~StowsFor(s.stow.ending) \/ s.stow.left = 0
  IN IF over THEN Enter(CommandRelease([s EXCEPT !.stow = NoStow]), Disposition(s.stow.ending))
     ELSE IF s.stow.due THEN CommandStow(s) ELSE s

\* The held script decided once its phase can take it; an engagement it opens
\* takes its first step in the same execution.
\* Slip: a script held for a machine that parks is held for ever.
DrainsAtRest(s) == \/ s.phase = "ACTIVE"
                   \/ s.phase = "RESTING" /\ ~s.owed /\ ~s.aux.on /\ ~s.draining

DrainsAt(s) == \/ s.phase \in {"ACTIVE", "PARKED"}
               \/ s.phase = "RESTING" /\ ~s.owed /\ ~s.aux.on /\ ~s.draining

Drained(s, bumped) ==
  LET t == Decide([s EXCEPT !.pending = NoScript], s.pending, bumped)
  IN IF s.phase = "PARKED" THEN Turn([s EXCEPT !.pending = NoScript], "none")
     ELSE IF t.phase = "ENGAGING" THEN Engage(t, "nothing")
     ELSE Turn(t, "none")

Commanded(s) == s.phase \in {"ACTIVE", "WINDING_DOWN"}

\* Time passing: every instant the slot holds is a tick further off.
Aged(s) ==
  [s EXCEPT !.asked = IF @ = 0 THEN 0 ELSE AtMost(@ + 1, EngageBudget + 1),
            !.pending.span = IF @ \in 1..SpanCap THEN @ - 1 ELSE @,
            !.left = Less(@),
            !.aux.age = IF s.aux.on THEN AtMost(@ + 1, AuxTimeout + 1) ELSE 0,
            !.seq = Older(@), !.wait = Less(@), !.stow.left = Less(@),
            !.silence = IF s.started THEN AtMost(@ + 1, SilenceCap) ELSE 0]

-----------------------------------------------------------------------------
Init ==
  /\ slot = [phase |-> "STARTING", owed |-> FALSE, ending |-> FALSE, asking |-> FALSE,
             asked |-> 0, rows |-> {}, pending |-> NoScript, id |-> 0, left |-> 0,
             engaged |-> FALSE, news |-> FALSE, aux |-> NoAux, corr |-> 0,
             draining |-> FALSE, limp |-> {}, seq |-> Blank, wait |-> 0,
             stow |-> NoStow, started |-> FALSE, saw |-> FALSE, silence |-> 0,
             faulted |-> {}, rail |-> [r \in Rows |-> "stale"]]
  /\ stage = "asleep" /\ replaced = FALSE /\ cmd = "none" /\ sent = FALSE
  /\ told = FALSE

\* watch: a sample seen by this wake is one of an age, or there is none newer.
Wake ==
  /\ stage = "asleep"
  /\ \/ slot' = Watched(NoteStart(slot))
     \/ \E age \in Ages : slot' = Watched(NoteSample(NoteStart(slot), age))
  /\ stage' = "raises" /\ cmd' = "none" /\ replaced' = FALSE /\ told' = slot.owed
  /\ UNCHANGED sent

\* Each class of message is taken in its turn, any number of each.
Taking(from, to) == stage \in from /\ stage' = to

TakeRaise(kind) ==
  /\ Taking({"raises"}, "raises")
  /\ sent \/ "late" \in Hazards
  /\ slot' = RecordFault(slot, kind)
  /\ UNCHANGED <<replaced, cmd, sent, told>>

TakeEvent(event) ==
  /\ Taking({"raises", "events"}, "events")
  /\ event = "TorqueOffConfirmed" /\ slot.owed => told \/ "stray" \in Hazards
  /\ event \in Answered /\ slot.asking => slot.asked # 0 \/ "early" \in Hazards
  /\ slot' = Heard(slot, event)
  /\ UNCHANGED <<replaced, cmd, sent, told>>

TakeReading(row, status) ==
  /\ Taking({"raises", "events", "readings"}, "readings")
  /\ slot' = Reading(slot, row, status)
  /\ UNCHANGED <<replaced, cmd, sent, told>>

TakeScript(script) ==
  /\ Taking({"raises", "events", "readings", "scripts"}, "scripts")
  /\ slot' = Decide(slot, script, replaced)
  /\ replaced' = (replaced \/ Replaces(slot, script))
  /\ UNCHANGED <<cmd, sent, told>>

RunWindDown ==
  /\ Taking({"raises", "events", "readings", "scripts"}, "wound")
  /\ IF slot.stow.on THEN \E stowed \in BOOLEAN : slot' = WindDownStep(slot, stowed)
     ELSE UNCHANGED slot
  /\ sent' = (sent \/ (slot.stow.due /\ slot'.stow.on))
  /\ UNCHANGED <<replaced, cmd, told>>

\* An answer to the transaction in flight, if this wake's messages hold one.
AnswersNow == IF slot.aux.on THEN Priors ELSE {"nothing"}
RunBusWith(answer) ==
  /\ Taking({"wound"}, "driven")
  /\ LET turn == BusTurn(slot, answer) IN slot' = turn.slot /\ cmd' = turn.cmd
  /\ UNCHANGED <<replaced, sent, told>>
RunBus == \E answer \in AnswersNow : RunBusWith(answer)

DrainPending ==
  /\ Taking({"driven"}, "drained")
  /\ IF slot.pending # NoScript /\ DrainsAt(slot)
     THEN LET turn == Drained(slot, replaced)
          IN /\ slot' = turn.slot
             /\ cmd' = IF turn.cmd = "none" THEN cmd ELSE turn.cmd
             /\ replaced' = (replaced \/ Replaces(slot, slot.pending))
     ELSE UNCHANGED <<slot, cmd, replaced>>
  /\ UNCHANGED <<sent, told>>

\* A schedule goes out when it was replaced, or when it stops or starts engaging.
PublishSchedule ==
  /\ Taking({"drained"}, "asleep")
  /\ IF replaced \/ slot.engaged # Commanded(slot)
     THEN /\ slot' = [slot EXCEPT !.engaged = Commanded(slot), !.news = FALSE]
          /\ sent' = Commanded(slot)
     ELSE UNCHANGED <<slot, sent>>
  /\ UNCHANGED <<replaced, cmd, told>>

Tick == /\ stage = "asleep"
        /\ "silent" \in Hazards \/ ~slot.started \/ SilentFor(slot) \/ ~SilentFor(Aged(slot))
        /\ slot' = Aged(slot)
        /\ UNCHANGED <<stage, replaced, cmd, sent, told>>

\* rail_stale_after_ns has passed since a row was read.
GoStale(row) == /\ stage = "asleep" /\ "stale" \in Hazards
                /\ slot.rail[row] # "stale"
                /\ slot' = [slot EXCEPT !.rail[row] = "stale"]
                /\ UNCHANGED <<stage, replaced, cmd, sent, told>>

Messages ==
  \/ \E kind \in Raises : TakeRaise(kind)
  \/ \E event \in Events : TakeEvent(event)
  \/ \E row \in Rows, status \in Statuses : TakeReading(row, status)
  \/ \E script \in Scripts : TakeScript(script)

Turns == RunWindDown \/ RunBus \/ DrainPending \/ PublishSchedule

World == Tick \/ \E row \in Rows : GoStale(row)

Next == Wake \/ Messages \/ Turns \/ World

Spec == Init /\ [][Next]_vars

\* A driver that is alive publishes a sample, and the cog is woken by its floor.
WakeSampled == Wake /\ slot'.silence = 0

\* The cog's own steps are taken once it wakes; it is woken at its floor; time
\* passes; and what a transaction or an engagement is answered, or whether it is
\* at all, is left open.
Fairness == WF_vars(Turns) /\ WF_vars(Wake) /\ SF_vars(Tick) /\ SF_vars(WakeSampled)
FairSpec == Spec /\ Fairness

-----------------------------------------------------------------------------
Asleep == stage = "asleep"

TypeOK == /\ slot \in Slots /\ stage \in Stages /\ cmd \in Cmds
          /\ replaced \in BOOLEAN /\ sent \in BOOLEAN /\ told \in BOOLEAN

\* A release owed is the whole of what the session is doing: it stands where the
\* fault left it, no transaction, no degrade and no stow runs beside the release,
\* and at rest no script is taken or kept until the driver confirms, the one held
\* before the fault among them (command_release; phase_intake, ending_by_fault).
\* Every execution that owes it says it, in the one datagram it has (run_bus).
NothingBesideARelease ==
  /\ slot.owed => /\ slot.phase \in {"RESTING", "PARKED"}
                  /\ ~slot.aux.on /\ ~OwesDegrade(slot) /\ ~slot.stow.on
  /\ Asleep => (slot.owed <=> cmd = "release")
  /\ slot.ending => slot.phase \in {"WINDING_DOWN", "RESTING"} /\ slot.pending = NoScript
  /\ slot.phase = "RESTING" => (slot.ending <=> slot.owed)

\* The one transaction in flight is the degrade's or the live sequence's own, so
\* whatever answers it, or its giving up, steps the thing that is waiting on it.
TransactionHasOneOwner ==
  slot.aux.on =>
    /\ slot.draining <=> slot.aux.row # NoRow
    /\ ~slot.draining => slot.seq.held /\ Live(slot)

\* A stow under way is governed: it runs in its phase and no other, what it was
\* re-ranked to is commanded by the time the cog sleeps, and one that may no
\* longer stow ends at the next step.
StowIsGoverned ==
  /\ slot.stow.on <=> slot.phase = "WINDING_DOWN"
  /\ Asleep /\ slot.stow.on /\ StowsFor(slot.stow.ending) => ~slot.stow.due

\* Torque is asked for only by a machine that commissioned, rests and owes
\* nothing, is answered only while asked, and goes off before a park is left to
\* an operator: the session's life is the one it promises.
Life == INSTANCE SessionLife WITH phase <- slot.phase, owed <- slot.owed
LivesAsPromised == Life!Spec

\* Torque is first asked for on a rail no reading of which is stale: the whole
\* supply up, no error on a servo that carries the head, and an antenna with an
\* error left out, though the readings came in over many executions and from two
\* sources (engage, merge_rail, record_readings).
AsksOfTheFit ==
  [][slot.asked = 0 /\ slot'.asked # 0 =>
       \A r \in Rows : \/ slot'.rail[r] = "good" /\ r \in slot'.rows
                       \/ slot'.rail[r] = "flagged" /\ r \in Antennas \ slot'.rows]_vars

\* No phase that is on its way somewhere lasts: commissioning, engaging, a stow
\* and a release each end, answered or not.
Passing == {"STARTING", "ENGAGING", "WINDING_DOWN", "STOPPING"}
EveryPassagePasses == \A p \in Passing : slot.phase = p ~> slot.phase # p

\* A script held for a machine in the middle of something is answered.
HeldScriptIsAnswered == slot.pending # NoScript ~> slot.pending = NoScript

-----------------------------------------------------------------------------
(* What the sources say of the session and the code does not keep.         *)

\* session.clk and docs/fault-management.md latch a parked machine: nothing but an
\* operator restarting the process takes it out of PARKED.
ParkedIsLatched == [][slot.phase = "PARKED" => slot'.phase = "PARKED"]_vars

=============================================================================
