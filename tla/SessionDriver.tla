---------------------------- MODULE SessionDriver ----------------------------
(***************************************************************************)
(* The session and the driver together, over two lines of messages: what   *)
(* the session says to the driver at the end of each of its executions,     *)
(* and the one event the driver reports in a cycle.  The session is Session *)
(* as it stands, its events now the driver's own.  The driver is what       *)
(* Driver comes to for somebody who only talks to it: a cycle is one step,  *)
(* the confirmation pass is one reading of the machine, and an out-of-band  *)
(* request runs in the cycle after it is heard.                             *)
(***************************************************************************)
EXTENDS Session, Sequences

CONSTANTS EngageCycles,  \* ENGAGE_CYCLES
          HoldTimeout,   \* hold_timeout_ns, in clock ticks
          LineCap,       \* bound: messages in flight each way
          Faults         \* which of FaultsHere befall the two of them

FaultsHere == {"lost",       \* a datagram to the driver is dropped
               "stall",      \* whoever owes the driver a word is late with it
               "displaced",  \* a cycle's event slot is taken by a remark
               "sweep",      \* a release the driver writes does not take
               "bus"}        \* an enable is lost, or waits for the bus

ASSUME SessionDriverConstants ==
  /\ EngageCycles \in Nat \ {0} /\ HoldTimeout \in Nat /\ LineCap \in Nat \ {0}
  /\ Faults \subseteq FaultsHere

VARIABLES line,   \* datagrams on their way to the driver
          back,   \* events on their way to the session
          drv     \* the driver and the machine on its bus
both == <<vars, line, back, drv>>

\* A pass is one read a cycle, and takes a tick to come round.
Passes == {"none", "begun", "reading", "overdue", "confirmed"}
Transactions == {"none", "taken", "well", "badly"}
Drivers == [torqued : SUBSET Rows,   \* what the servos hold
            believed : SUBSET Rows, latched : BOOLEAN,
            pass : Passes,           \* the confirmation pass, and what it has said
            ask : SUBSET Rows,       \* the engagement asked for
            waited : 0..(EngageCycles - 1),
            txn : Transactions,      \* what became of the one out-of-band request
            frees : SUBSET Rows,     \* the row that request releases, if it does
            corr : 0..(CorrWrap - 1),
            quiet : 0..(HoldTimeout + 1)]  \* since anybody was heard
\* rows: those an engagement names, or the row a transaction releases.
Datagrams == [says : Cmds \ {"none"}, rows : SUBSET Rows, corr : 0..(CorrWrap - 1)]
Remarks == Events \cup {"none", "HoldTimeoutTorqueOff"}

-----------------------------------------------------------------------------
(* What a datagram does.                                                   *)

BeginPass(d) == IF d.pass = "none" THEN [d EXCEPT !.pass = "begun"] ELSE d

LetGo(d) == [BeginPass(d) EXCEPT !.latched = TRUE, !.txn = "none", !.frees = {}, !.corr = 0]
Unasked(d) == [d EXCEPT !.ask = {}, !.waited = 0]
RequestTorqueOff(d) == Unasked(LetGo(d))

OfferEngage(d, rows) == [d EXCEPT !.ask = rows, !.waited = IF d.ask = rows THEN @ ELSE 0]

Accept(d, datagram) ==
  LET heard == [d EXCEPT !.quiet = 0]
  IN CASE datagram.says = "release" -> RequestTorqueOff(heard)
       [] datagram.says = "engage" -> OfferEngage(heard, datagram.rows)
       [] datagram.says = "aux" -> 
              [heard EXCEPT !.txn = "taken", !.frees = datagram.rows, !.corr = datagram.corr]
       [] OTHER -> heard

-----------------------------------------------------------------------------
(* A cycle: the gate, the engagement, the pass, and the one event.         *)

Outcome(d, says) == [drv |-> d, says |-> says]

Reached(rows, fault) == IF fault \in Faults THEN SUBSET rows ELSE {rows}

Without(d, rows) == [d EXCEPT !.torqued = @ \ rows, !.believed = @ \ rows]

Expired(d) == d.believed # {} /\ d.quiet > HoldTimeout

Gate(d) ==
  IF d.latched THEN {Outcome(BeginPass(Without(d, off)), "none") : off \in Reached(Rows, "sweep")}
  ELSE IF Expired(d)
  THEN {Outcome(LetGo(Without(d, off)), "HoldTimeoutTorqueOff") : off \in Reached(Rows, "sweep")}
  ELSE {Outcome(d, "none")}

\* Slip: the latch stands under the machine it let go, and is swept again.
CreditedStanding(d, rows) == [d EXCEPT !.believed = @ \cup rows, !.quiet = 0]

\* Slip: a pass that has spoken is the pass of the next release too.
CreditedSpoken(d, rows) ==
  [d EXCEPT !.believed = @ \cup rows, !.quiet = 0, !.latched = FALSE]

\* An enable read back ends a standing latch, and the pass confirming it.
Credited(d, rows) ==
  [d EXCEPT !.believed = @ \cup rows, !.quiet = 0, !.latched = FALSE,
            !.pass = IF d.latched THEN "none" ELSE @]

Enabled(d, on) ==
  LET held == [Unasked(d) EXCEPT !.torqued = @ \cup on]
      seen == d.ask \cap held.torqued
  IN CASE seen = d.ask -> Outcome(Credited(held, seen), "EngageConfirmed")
       [] seen = {} -> Outcome(LetGo(held), "EngageUnconfirmed")
       [] OTHER -> Outcome(LetGo(Credited(held, seen)), "EngageUnconfirmed")

Waiting(d) == IF "bus" \notin Faults THEN {}
              ELSE IF d.waited + 1 < EngageCycles
              THEN {Outcome([d EXCEPT !.waited = @ + 1], "none")}
              ELSE {Outcome(Unasked(d), "EngageDeclined")}

EngageStep(d) ==
  IF d.ask = {} THEN {Outcome(d, "none")}
  ELSE IF d.ask \subseteq d.believed THEN {Outcome(Unasked(d), "EngageConfirmed")}
  ELSE {Enabled(d, on) : on \in Reached(d.ask, "bus")} \cup Waiting(d)

\* Slip: the pass says what was written, not what it reads.
ConfirmStepUnread(d) ==
  {Outcome(d, "none")}
  \cup (IF d.pass \in {"reading", "overdue"}
        THEN {Outcome([d EXCEPT !.pass = "confirmed", !.believed = {}], "TorqueOffConfirmed")}
        ELSE {})

\* The pass says each of its two verdicts once, and reads on after the second.
ConfirmStep(d) ==
  {Outcome(d, "none")}
  \cup (IF d.pass \in {"reading", "overdue"} /\ d.torqued = {}
        THEN {Outcome([d EXCEPT !.pass = "confirmed", !.believed = {}], "TorqueOffConfirmed")}
        ELSE {})
  \cup (IF d.pass = "reading" /\ "sweep" \in Faults
        THEN {Outcome([d EXCEPT !.pass = "overdue"], "TorqueOffUnconfirmed")} ELSE {})

\* The out-of-band request runs; one that goes badly may still have taken.
HostStep(d) ==
  IF d.txn # "taken" THEN {d}
  ELSE {[Without(d, d.frees) EXCEPT !.txn = "well"], [d EXCEPT !.txn = "badly"],
        [d EXCEPT !.txn = "badly", !.torqued = @ \ d.frees]}

\* One event a cycle, the first raised; a remark may have been there before it.
Foremost(g, e, c) == IF g # "none" THEN g ELSE IF e # "none" THEN e ELSE c

Reported(says) == {says} \cup (IF "displaced" \in Faults THEN {"none"} ELSE {})

Cycle ==
  /\ Len(back) < LineCap
  /\ \E g \in Gate(drv) : \E e \in EngageStep(g.drv) : \E c \in ConfirmStep(e.drv) :
       /\ drv' \in HostStep(c.drv)
       /\ \E says \in Reported(Foremost(g.says, e.says, c.says)) :
            back' = IF says \in Events THEN Append(back, says) ELSE back
  /\ UNCHANGED <<vars, line>>

Hear == /\ line # <<>>
        /\ drv' = Accept(drv, Head(line)) /\ line' = Tail(line)
        /\ UNCHANGED <<vars, back>>

Lose == /\ "lost" \in Faults /\ line # <<>>
        /\ line' = Tail(line)
        /\ UNCHANGED <<vars, back, drv>>

-----------------------------------------------------------------------------
(* The session's execution, its events taken from the driver.              *)

Alone(A) == A /\ UNCHANGED <<line, back, drv>>

Answer == /\ back # <<>>
          /\ TakeEvent(Head(back)) /\ back' = Tail(back)
          /\ UNCHANGED <<line, drv>>

\* A transaction is answered with what became of it, once, and its answer does
\* not overtake what the driver reported before it.  An answer to a transaction
\* the session no longer has is dropped.
Settles == drv.txn \in {"well", "badly"} /\ (back = <<>> \/ "stall" \in Faults)
Answers == drv.corr = slot.aux.corr /\ slot.aux.on /\ Settles
Bus == \E answer \in AnswersNow :
         /\ IF Answers THEN answer = "ok" => drv.txn = "well" ELSE answer = "nothing"
         /\ answer = "nothing" => ~Answers \/ "stall" \in Faults
         /\ RunBusWith(answer)
         /\ drv' = IF Settles /\ (Answers => answer # "nothing")
                   THEN [drv EXCEPT !.txn = "none", !.frees = {}, !.corr = 0] ELSE drv
         /\ UNCHANGED <<line, back>>

ReleasedRow == IF slot.draining THEN {slot.aux.row}
               ELSE IF slot.seq.phase = "release" THEN {slot.seq.at} ELSE {}
DatagramRows == CASE cmd = "engage" -> slot.rows
                  [] cmd = "aux" -> ReleasedRow
                  [] OTHER -> {}

\* The turn's one datagram goes out as the execution ends.
Send == /\ cmd # "none" => Len(line) < LineCap
        /\ PublishSchedule
        /\ line' = IF cmd = "none" THEN line
                   ELSE Append(line, [says |-> cmd, rows |-> DatagramRows, corr |-> slot.aux.corr])
        /\ UNCHANGED <<back, drv>>

\* Somebody owes the driver a word: the mover its goals, the session the rest.
WordOwed == slot.phase \in {"ENGAGING", "ACTIVE", "WINDING_DOWN", "STOPPING"} \/ slot.owed

\* What was said is heard, and what was asked of the driver is begun.
Prompt == line = <<>> /\ back = <<>> /\ drv.ask = {} /\ drv.txn = "none"

TickBoth == /\ Tick /\ drv' = [drv EXCEPT !.quiet = AtMost(@ + 1, HoldTimeout + 1),
                                       !.pass = IF @ = "begun" THEN "reading" ELSE @]
            /\ "stall" \notin Faults => Prompt /\ ~(WordOwed /\ Expired(drv'))
            /\ UNCHANGED <<line, back>>

\* A goal of the mover's, taken into the driver's line.
Goal == /\ sent /\ drv' = [drv EXCEPT !.quiet = 0]
        /\ UNCHANGED <<vars, line, back>>

InitBoth == /\ Init /\ line = <<>> /\ back = <<>>
            /\ drv = [torqued |-> {}, believed |-> {}, latched |-> FALSE, pass |-> "none",
                      ask |-> {}, waited |-> 0, txn |-> "none", frees |-> {}, corr |-> 0, quiet |-> 0]

SessionSteps == \/ Alone(Wake) \/ Alone(RunWindDown) \/ Alone(DrainPending)
                \/ \E kind \in Raises : Alone(TakeRaise(kind))
                \/ \E row \in Rows, status \in Statuses : Alone(TakeReading(row, status))
                \/ \E script \in Scripts : Alone(TakeScript(script))
                \/ \E row \in Rows : Alone(GoStale(row))
                \/ Answer \/ Bus \/ Send

NextBoth == SessionSteps \/ Cycle \/ Hear \/ Lose \/ TickBoth \/ Goal

SpecBoth == InitBoth /\ [][NextBoth]_both

\* The last of what is in flight is heard while the cog sleeps; the bus answers
\* a read-back in the end.
HearLast == Hear /\ Asleep /\ line' = <<>>
ConfirmCycle == Cycle /\ drv'.pass = "confirmed"

\* Both processes run, time passes, samples keep coming, and the network is one
\* that does not hold a datagram back for ever.  Nothing is assumed of what it
\* loses, of the faults raised, or of the scripts sent.
FairBoth ==
  /\ SpecBoth
  /\ WF_both(Alone(Wake)) /\ SF_both(Alone(Wake) /\ slot'.silence = 0)
  /\ WF_both(Alone(RunWindDown)) /\ WF_both(Bus) /\ WF_both(Alone(DrainPending))
  /\ WF_both(Send) /\ SF_both(Answer) /\ SF_both(TickBoth)
  /\ WF_both(Hear) /\ SF_both(Hear /\ Asleep) /\ SF_both(HearLast)
  /\ WF_both(Cycle) /\ SF_both(ConfirmCycle)

-----------------------------------------------------------------------------
\* What is on its way and what the driver keeps of it (session_cmd, driver_event).
TypeBoth == /\ line \in Seq(Datagrams) /\ Len(line) <= LineCap
            /\ back \in Seq(Remarks) /\ Len(back) <= LineCap
            /\ drv \in Drivers

\* What a session owes is paid in torque: it stops owing a release only while the
\* servos hold nothing, though the event that says so was read off the machine an
\* execution ago and an engagement may have been in flight behind it
\* (session_ladder.rs, confirmed; torque.rs, step).
OffWhenTold == [][slot.owed /\ ~slot'.owed => drv.torqued = {}]_both

\* A machine at rest that owes nothing is limp, whichever of the driver's sweep
\* and the session's own release let it go, and whatever was still in flight
\* (session.clk, RESTING; session_cog.rs, answer_engagement).
RestIsLimp == slot.phase = "RESTING" /\ ~slot.owed => drv.torqued = {}

\* A session goes under command of a machine that holds: every servo of the head,
\* and no row it did not ask for (answer_engagement; engage.rs).
ActiveIsHeld == [][slot.phase = "ENGAGING" /\ slot'.phase = "ACTIVE" =>
                   Heads \subseteq drv.torqued /\ drv.torqued \subseteq slot.rows]_both

\* A release owed is confirmed, however many datagrams are lost: it is said again
\* every execution, and the driver's one confirmation is of that release.
OwedEnds == slot.owed ~> ~slot.owed

-----------------------------------------------------------------------------
(* What the sources say of the two together and the code does not keep.    *)

\* docs/fault-management.md: a session ended by an obstruction rests, and the
\* next wake engages it again, so its release is not owed for ever.
RestingOwedEnds == slot.owed /\ slot.phase = "RESTING" ~> ~slot.owed
=============================================================================
