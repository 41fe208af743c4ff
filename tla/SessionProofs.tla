---------------------------- MODULE SessionProofs ----------------------------
(***************************************************************************)
(* Proofs about the session, for any number of servos and scripts, any     *)
(* budgets, and whatever arrives in whatever order.  The slot is one       *)
(* record and every function of the cog is an operator on it, so most of   *)
(* the argument is about slots: what each operator keeps of a sane one.    *)
(***************************************************************************)
EXTENDS Session, SequencersProofs

LEMMA Spare ==
  /\ 0 \in 0..StowBudget /\ 0 \in 0..LeftCap
  /\ 0 \in 0..(EngageBudget + 1) /\ 1 \in 0..(EngageBudget + 1)
  /\ 0 \in 0..(CorrWrap - 1) /\ 0 \in 0..(AuxTimeout + 1) /\ 0 \in 0..AuxRetries
  /\ NoRow \in 0..N /\ 0 \in 0..SilenceCap /\ 0 \in 0..(VoltageWait + Dwell)
  /\ 0 \in 0..MaxScript /\ 0 \in 0..Stepless
  /\ StowBudget \in 0..StowBudget /\ StowBudget \in Nat /\ StowBudget <= LeftCap
  /\ AuxTimeout \in Nat /\ AuxRetries \in Nat /\ EngageBudget \in Nat /\ SilenceCap \in Nat
  /\ LeftCap \in Nat /\ SpanCap \in Nat /\ SpanCap <= LeftCap /\ CorrWrap \in Nat /\ CorrWrap > 0
  /\ MaxScript \in Nat /\ VoltageWait \in Nat /\ Dwell \in Nat /\ N \in Nat
<1>1. EngageBudget \in Nat
  BY SessionConstants DEF SessionConstants, EngageBudget
<1>2. /\ StaleAfter \in Nat /\ Grace \in Nat /\ StowBudget \in Nat /\ SpanCap \in Nat
      /\ AuxTimeout \in Nat /\ AuxRetries \in Nat /\ CorrWrap \in Nat /\ CorrWrap > 0
      /\ MaxScript \in Nat
  BY SessionConstants DEF SessionConstants
<1>3. SilenceCap \in Nat /\ LeftCap \in Nat
  BY <1>2 DEF SilenceCap, LeftCap
<1>4. N \in Nat /\ VoltageWait \in Nat /\ Dwell \in Nat
  BY SequencerConstants DEF SequencerConstants
<1> QED BY <1>1, <1>2, <1>3, <1>4 DEF LeftCap, NoRow, Stepless

LEMMA Nones ==
  /\ NoAux \in [on : BOOLEAN, corr : 0..(CorrWrap - 1), age : 0..(AuxTimeout + 1),
                retries : 0..AuxRetries, row : 0..N]
  /\ NoAux.on = FALSE
  /\ NoStow \in [on : BOOLEAN, defeated : BOOLEAN, ending : Endings,
                 left : 0..StowBudget, due : BOOLEAN]
  /\ NoStow.on = FALSE /\ NoStow.due = FALSE
  /\ NoScript \in [id : 0..MaxScript, span : 0..Stepless]
BY Spare DEF NoAux, NoStow, NoScript, Endings

-----------------------------------------------------------------------------
(* What an operator leaves of a slot.                                      *)

SameLife(s, t) == /\ t.phase = s.phase /\ t.owed = s.owed /\ t.ending = s.ending
                  /\ t.asking = s.asking /\ t.asked = s.asked
SameBus(s, t) == /\ t.aux = s.aux /\ t.draining = s.draining /\ t.limp = s.limp
                 /\ t.seq = s.seq
SameRail(s, t) == t.rail = s.rail /\ t.rows = s.rows
SameHeld(s, t) == t.pending = s.pending /\ t.saw = s.saw
SameStow(s, t) == t.stow = s.stow
SameEngaged(s, t) == t.engaged = s.engaged

\* What a phase entered leaves of the slot.
Entered(s, to, t) ==
  LET left == s.phase = "ENGAGING" /\ to # "ENGAGING"
  IN  /\ t \in Slots
      /\ t.phase = to /\ t.owed = s.owed
      /\ t.asking = (s.asking /\ ~left) /\ t.ending = (s.ending /\ to # "PARKED")
      /\ t.asked = IF left THEN 0 ELSE s.asked
      /\ SameBus(s, t) /\ SameRail(s, t) /\ SameHeld(s, t) /\ SameStow(s, t)
      /\ SameEngaged(s, t)

LEMMA EnterIs ==
  ASSUME NEW s \in Slots, NEW to \in PhaseKinds
  PROVE  Entered(s, to, Enter(s, to))
<1> DEFINE left == s.phase = "ENGAGING" /\ to # "ENGAGING"
           asking == s.asking /\ ~left
           asked == IF left THEN 0 ELSE s.asked
           ending == s.ending /\ to # "PARKED"
           t == Enter(s, to)
<1>1. t = [s EXCEPT !.phase = to, !.asking = asking, !.asked = asked, !.ending = ending]
  BY DEF Enter
<1>2. asking \in BOOLEAN /\ ending \in BOOLEAN /\ asked \in 0..(EngageBudget + 1)
  BY Spare DEF Slots
<1> HIDE DEF t, asking, asked, ending
<1>3. /\ t \in Slots
      /\ t.phase = to /\ t.owed = s.owed
      /\ t.asking = asking /\ t.ending = ending /\ t.asked = asked
      /\ SameBus(s, t) /\ SameRail(s, t) /\ SameHeld(s, t) /\ SameStow(s, t)
      /\ SameEngaged(s, t)
  BY <1>1, <1>2, ZenonT(40) DEF Slots, SameBus, SameRail, SameHeld, SameStow, SameEngaged
<1> QED BY <1>3 DEF Entered, t, asking, asked, ending

LEMMA CommandReleaseIs ==
  ASSUME NEW s \in Slots
  PROVE  LET t == CommandRelease(s)
         IN  /\ t \in Slots
             /\ t.owed = TRUE /\ t.aux = NoAux /\ t.draining = FALSE /\ t.limp = {}
             /\ t.phase = s.phase /\ t.ending = s.ending /\ t.asking = s.asking
             /\ t.asked = s.asked /\ t.seq = s.seq
             /\ SameRail(s, t) /\ SameHeld(s, t) /\ SameStow(s, t) /\ SameEngaged(s, t)
<1> DEFINE t == CommandRelease(s)
<1>1. t = [s EXCEPT !.owed = TRUE, !.aux = NoAux, !.draining = FALSE, !.limp = {}]
  BY DEF CommandRelease
<1> HIDE DEF t
<1>2. /\ t \in Slots
      /\ t.owed = TRUE /\ t.aux = NoAux /\ t.draining = FALSE /\ t.limp = {}
      /\ t.phase = s.phase /\ t.ending = s.ending /\ t.asking = s.asking
      /\ t.asked = s.asked /\ t.seq = s.seq
      /\ SameRail(s, t) /\ SameHeld(s, t) /\ SameStow(s, t) /\ SameEngaged(s, t)
  BY <1>1, Nones, ZenonT(40) DEF Slots, SameRail, SameHeld, SameStow, SameEngaged
<1> QED BY <1>2 DEF t

\* A release that takes the machine into a phase.
LEMMA ReleasedIntoIs ==
  ASSUME NEW s \in Slots, NEW to \in PhaseKinds, to # "ENGAGING", 
         s.phase # "ENGAGING" => ~s.asking /\ s.asked = 0,
         s.phase = "PARKED" => s.ending = FALSE
  PROVE  LET t == ReleasedInto(s, to)
         IN  /\ t \in Slots
             /\ t.phase = to /\ t.owed = TRUE /\ t.ending = (s.ending /\ to # "PARKED")
             /\ t.asking = FALSE /\ t.asked = 0
             /\ t.aux = NoAux /\ t.draining = FALSE /\ t.limp = {} /\ t.seq = s.seq
             /\ SameRail(s, t) /\ SameHeld(s, t) /\ SameStow(s, t) /\ SameEngaged(s, t)
<1> DEFINE u == CommandRelease(s)
           t == Enter(u, to)
<1>1. /\ u \in Slots
      /\ u.owed = TRUE /\ u.aux = NoAux /\ u.draining = FALSE /\ u.limp = {}
      /\ u.phase = s.phase /\ u.ending = s.ending /\ u.asking = s.asking
      /\ u.asked = s.asked /\ u.seq = s.seq
      /\ SameRail(s, u) /\ SameHeld(s, u) /\ SameStow(s, u) /\ SameEngaged(s, u)
  BY CommandReleaseIs
<1>2. ReleasedInto(s, to) = IF u.phase = to THEN u ELSE t
  BY DEF ReleasedInto
<1> HIDE DEF u
<1>3. Entered(u, to, t)
  BY <1>1, EnterIs
<1> HIDE DEF t
<1>4. u.asking \in BOOLEAN /\ u.ending \in BOOLEAN /\ s.ending \in BOOLEAN /\ s.asking \in BOOLEAN
  BY <1>1 DEF Slots
<1>5. CASE u.phase = to
  BY <1>1, <1>2, <1>4, <1>5
<1>6. CASE u.phase # to
  BY <1>1, <1>2, <1>3, <1>4, <1>6, ZenonT(40)
     DEF Entered, SameBus, SameRail, SameHeld, SameStow, SameEngaged
<1> QED BY <1>5, <1>6
-----------------------------------------------------------------------------
(* What holds of the slot wherever in its execution the cog is.            *)

Owing(s) == s.owed => /\ s.phase \in {"RESTING", "PARKED"}
                      /\ ~s.aux.on /\ ~OwesDegrade(s) /\ ~s.stow.on
Ending(s) == /\ s.ending => s.phase \in {"WINDING_DOWN", "RESTING"} /\ s.pending = NoScript
             /\ s.phase = "RESTING" => (s.ending <=> s.owed)
Stowing(s) == /\ s.stow.on <=> s.phase = "WINDING_DOWN"
              /\ s.stow.on /\ s.stow.ending = "slowRest" => s.ending
Asking(s) == s.asking \/ s.asked # 0 => s.phase = "ENGAGING"

\* An engagement that has asked has no poll left to run; where one may be
\* answered before it has asked, the poll outlives its phase.
Owned(s) == /\ s.aux.on => /\ s.draining <=> s.aux.row # NoRow
                           /\ ~s.draining => s.seq.held /\ Live(s)
            /\ s.asked # 0 => s.seq.kind # "poll" /\ (s.aux.on => s.draining)

\* A disarm begun is gone through before another is; a machine that can be
\* faulted out of a park takes half a disarm with it.
Disarming(s) == s.seq.kind = "disarm" => s.phase \in {"STOPPING", "PARKED"}

Sane(s) == /\ s \in Slots /\ Runs(s.seq)
           /\ Owing(s) /\ Ending(s) /\ Stowing(s) /\ Asking(s)
           /\ "early" \in Hazards \/ Owned(s)
           /\ "late" \in Hazards \/ Disarming(s)

\* One step of the life a session promises, or none (SessionLife, Next).
Lives(s, t) ==
  \/ t.phase = s.phase /\ t.owed = s.owed
  \/ /\ \/ s.phase \in PhaseKinds /\ t.phase = "PARKED"
        \/ s.phase \in {"ENGAGING", "WINDING_DOWN"} /\ t.phase = "RESTING"
     /\ t.owed = TRUE
  \/ s.owed = TRUE /\ t.owed = FALSE /\ t.phase = s.phase
  \/ /\ \/ s.phase = "STARTING" /\ t.phase \in {"RESTING", "PARKED"}
        \/ s.phase = "RESTING" /\ t.phase = "ENGAGING"
        \/ s.phase = "ENGAGING" /\ t.phase \in {"ACTIVE", "RESTING"}
        \/ s.phase = "ACTIVE" /\ t.phase \in {"STOPPING", "WINDING_DOWN"}
        \/ s.phase = "STOPPING" /\ t.phase = "RESTING"
     /\ s.owed = FALSE /\ t.owed = FALSE

\* A machine under command stays so, or is let go into a park.
Firm(s, t) == Commanded(s) => Commanded(t) \/ (t.phase = "PARKED" /\ t.owed)

-----------------------------------------------------------------------------
(* A fault answered.                                                       *)

\* The faults that leave by way of rest are those of a machine under command.
Timely(s, kind) == "late" \in Hazards \/ Response(kind) # "slowRest" \/ Commanded(s) \/ s.owed

\* Torque is first asked for of a machine that is fit for it.
Fit(s) == \A r \in Rows : \/ s.rail[r] = "good" /\ r \in s.rows
                          \/ s.rail[r] = "flagged" /\ r \in Antennas \ s.rows
Asks(s, t) == s.asked = 0 /\ t.asked # 0 => Fit(t)

\* Only a machine at rest, or one let go, stops being engaged by its schedule.
Engages(s, t) == \/ t.engaged = s.engaged \/ t.engaged = TRUE
                 \/ s.phase = "RESTING" /\ s.owed = FALSE

\* What any step of the cog makes of a slot, and what any message does.
Goes(s, t) == /\ Sane(t) /\ Engages(s, t) /\ Asks(s, t)
              /\ "late" \notin Hazards => Lives(s, t)
Follows(s, t) == Goes(s, t) /\ Firm(s, t)

LEMMA LimpIs ==
  ASSUME NEW s \in Slots
  PROVE  LET t == [s EXCEPT !.limp = Antennas]
         IN  /\ t \in Slots /\ SameLife(s, t) /\ SameRail(s, t) /\ SameHeld(s, t)
             /\ SameStow(s, t) /\ SameEngaged(s, t)
             /\ t.aux = s.aux /\ t.draining = s.draining /\ t.seq = s.seq
<1>1. Antennas \subseteq Rows
  BY SequencerConstants DEF SequencerConstants
<1> QED BY <1>1 DEF Slots, SameLife, SameRail, SameHeld, SameStow, SameEngaged

LEMMA ReRankIs ==
  ASSUME NEW s \in Slots, NEW response \in Endings
  PROVE  LET t == ReRank(s, response)
         IN  /\ t \in Slots /\ SameLife(s, t) /\ SameRail(s, t) /\ SameHeld(s, t)
             /\ SameBus(s, t) /\ SameEngaged(s, t)
             /\ t.stow.on = s.stow.on /\ t.stow.ending = Worse(s.stow.ending, response)
<1> DEFINE t == ReRank(s, response)
           stow == [s.stow EXCEPT !.ending = Worse(s.stow.ending, response), !.due = TRUE,
                                  !.defeated = s.stow.defeated \/ response = "slowRest"]
<1>1. t = [s EXCEPT !.stow = stow]
  BY DEF ReRank, Slots
<1>2. Worse(s.stow.ending, response) \in Endings
  BY DEF Worse, Slots
<1>3. /\ stow \in [on : BOOLEAN, defeated : BOOLEAN, ending : Endings,
                  left : 0..StowBudget, due : BOOLEAN]
      /\ stow.on = s.stow.on /\ stow.ending = Worse(s.stow.ending, response)
  BY <1>2 DEF Slots
<1> HIDE DEF t, stow
<1>4. /\ t \in Slots /\ SameLife(s, t) /\ SameRail(s, t) /\ SameHeld(s, t)
      /\ SameBus(s, t) /\ SameEngaged(s, t) /\ t.stow = stow
  BY <1>1, <1>3 DEF Slots, SameLife, SameRail, SameHeld, SameBus, SameEngaged
<1> QED BY <1>3, <1>4 DEF t

LEMMA BeginIs ==
  ASSUME NEW s \in Slots, NEW response \in Endings
  PROVE  LET t == Begin(s, response)
         IN  /\ t \in Slots /\ SameLife(s, t) /\ SameRail(s, t) /\ SameHeld(s, t)
             /\ SameBus(s, t) /\ SameEngaged(s, t)
             /\ t.stow.on = TRUE /\ t.stow.ending = response
<1> DEFINE t == Begin(s, response)
           stow == [on |-> TRUE, defeated |-> FALSE, ending |-> response,
                    left |-> StowBudget, due |-> TRUE]
<1>1. t = [s EXCEPT !.stow = stow]
  BY DEF Begin
<1>3. /\ stow \in [on : BOOLEAN, defeated : BOOLEAN, ending : Endings,
                  left : 0..StowBudget, due : BOOLEAN]
      /\ stow.on = TRUE /\ stow.ending = response
  BY Spare
<1> HIDE DEF t, stow
<1>4. /\ t \in Slots /\ SameLife(s, t) /\ SameRail(s, t) /\ SameHeld(s, t)
      /\ SameBus(s, t) /\ SameEngaged(s, t) /\ t.stow = stow
  BY <1>1, <1>3 DEF Slots, SameLife, SameRail, SameHeld, SameBus, SameEngaged
<1> QED BY <1>3, <1>4 DEF t

LEMMA Stays ==
  ASSUME NEW s, Sane(s)
  PROVE  Follows(s, s)
BY DEF Follows, Goes, Engages, Asks, Firm, Lives

\* What a sane slot is, as facts the provers can use.
LEMMA SaneIs ==
  ASSUME NEW s, Sane(s)
  PROVE  /\ s \in Slots /\ Runs(s.seq) /\ s.phase \in PhaseKinds
         /\ s.owed \in BOOLEAN /\ s.ending \in BOOLEAN /\ s.asking \in BOOLEAN
         /\ s.stow.on \in BOOLEAN /\ s.aux.on \in BOOLEAN /\ s.draining \in BOOLEAN
         /\ s.saw \in BOOLEAN /\ s.engaged \in BOOLEAN /\ s.stow.ending \in Endings
         /\ s.asked \in Nat
         /\ s.phase # "ENGAGING" => ~s.asking /\ s.asked = 0
         /\ s.phase = "PARKED" => s.ending = FALSE
         /\ s.owed => s.phase \in {"RESTING", "PARKED"}
         /\ s.stow.on <=> s.phase = "WINDING_DOWN"
<1>1. s \in Slots
  BY DEF Sane
<1>2. s.asked \in Nat /\ s.aux.on \in BOOLEAN /\ s.stow.on \in BOOLEAN /\ s.stow.ending \in Endings
  BY <1>1, Spare DEF Slots
<1>3. /\ s.phase \in PhaseKinds /\ s.owed \in BOOLEAN /\ s.ending \in BOOLEAN
      /\ s.asking \in BOOLEAN /\ s.draining \in BOOLEAN /\ s.saw \in BOOLEAN
      /\ s.engaged \in BOOLEAN
  BY <1>1 DEF Slots
<1> QED BY <1>1, <1>2, <1>3 DEF Sane, Owing, Ending, Stowing, Asking

LEMMA FaultParks ==
  ASSUME NEW s, Sane(s), ~s.owed, ~s.stow.on
  PROVE  Follows(s, ReleasedInto(s, "PARKED"))
<1> DEFINE t == ReleasedInto(s, "PARKED")
<1>0. /\ s \in Slots
      /\ s.phase # "ENGAGING" => ~s.asking /\ s.asked = 0
      /\ s.phase = "PARKED" => s.ending = FALSE
  BY SaneIs
<1>1. /\ t \in Slots
      /\ t.phase = "PARKED" /\ t.owed = TRUE /\ t.ending = FALSE
      /\ t.asking = FALSE /\ t.asked = 0
      /\ t.aux = NoAux /\ t.draining = FALSE /\ t.limp = {} /\ t.seq = s.seq
      /\ SameRail(s, t) /\ SameHeld(s, t) /\ SameStow(s, t) /\ SameEngaged(s, t)
  BY <1>0, ReleasedIntoIs DEF PhaseKinds
<1> HIDE DEF t
<1>2. Owing(t) /\ Ending(t) /\ Stowing(t) /\ Asking(t) /\ Owned(t) /\ Disarming(t)
  BY <1>1, Nones DEF Owing, Ending, Stowing, Asking, Owned, Disarming, OwesDegrade, SameStow
<1>3. Sane(t)
  BY <1>1, <1>2 DEF Sane
<1>4. t.engaged = s.engaged /\ t.saw = s.saw
  BY <1>1 DEF SameEngaged, SameHeld
<1> QED BY <1>1, <1>3, <1>4, SaneIs DEF Follows, Goes, Engages, Asks, Firm, Lives, t

\* The rest a fault leaves by is one that takes no script.
Spent(s) == [s EXCEPT !.ending = TRUE, !.pending = NoScript]

LEMMA SpentIs ==
  ASSUME NEW s \in Slots
  PROVE  LET t == Spent(s)
         IN  /\ t \in Slots /\ t.ending = TRUE /\ t.pending = NoScript
             /\ t.phase = s.phase /\ t.owed = s.owed /\ t.asking = s.asking /\ t.asked = s.asked
             /\ t.saw = s.saw
             /\ SameBus(s, t) /\ SameRail(s, t) /\ SameStow(s, t) /\ SameEngaged(s, t)
BY Nones DEF Spent, Slots, SameBus, SameRail, SameStow, SameEngaged

LEMMA FaultRests ==
  ASSUME NEW s, Sane(s), ~s.owed, ~s.stow.on, s.phase # "ACTIVE",
         "late" \in Hazards
  PROVE  Follows(s, Spent(ReleasedInto(s, "RESTING")))
<1> DEFINE u == ReleasedInto(s, "RESTING")
           t == Spent(u)
<1>0. /\ s \in Slots
      /\ s.phase # "ENGAGING" => ~s.asking /\ s.asked = 0
      /\ s.phase = "PARKED" => s.ending = FALSE
  BY SaneIs
<1>1. /\ u \in Slots
      /\ u.phase = "RESTING" /\ u.owed = TRUE
      /\ u.asking = FALSE /\ u.asked = 0
      /\ u.aux = NoAux /\ u.draining = FALSE /\ u.limp = {} /\ u.seq = s.seq
      /\ SameRail(s, u) /\ SameHeld(s, u) /\ SameStow(s, u) /\ SameEngaged(s, u)
  BY <1>0, ReleasedIntoIs DEF PhaseKinds
<1> HIDE DEF u
<1>2. /\ t \in Slots /\ t.ending = TRUE /\ t.pending = NoScript
      /\ t.phase = u.phase /\ t.owed = u.owed /\ t.asking = u.asking /\ t.asked = u.asked
      /\ t.saw = u.saw
      /\ SameBus(u, t) /\ SameRail(u, t) /\ SameStow(u, t) /\ SameEngaged(u, t)
  BY <1>1, SpentIs
<1> HIDE DEF t
<1>3. /\ t.phase = "RESTING" /\ t.owed = TRUE /\ t.asking = FALSE /\ t.asked = 0
      /\ t.aux = NoAux /\ t.draining = FALSE /\ t.limp = {} /\ t.seq = s.seq /\ t.stow = s.stow
      /\ t.engaged = s.engaged /\ t.saw = s.saw
  BY <1>1, <1>2 DEF SameBus, SameStow, SameEngaged, SameHeld
<1>4. Owing(t) /\ Ending(t) /\ Stowing(t) /\ Asking(t) /\ Owned(t)
  BY <1>2, <1>3, Nones, SaneIs DEF Owing, Ending, Stowing, Asking, Owned, OwesDegrade
<1>5. Sane(t)
  BY <1>2, <1>3, <1>4 DEF Sane
<1>6. ~Commanded(s)
  BY SaneIs DEF Commanded
<1> QED BY <1>3, <1>5, <1>6 DEF Follows, Goes, Engages, Asks, Firm, t, u

LEMMA FaultWinds ==
  ASSUME NEW s, Sane(s), ~s.owed, ~s.stow.on, s.phase = "ACTIVE", NEW response \in Endings
  PROVE  LET u == Enter(Begin(s, response), "WINDING_DOWN")
         IN  Follows(s, IF response = "slowRest" THEN Spent(u) ELSE u)
<1> DEFINE b == Begin(s, response)
           u == Enter(b, "WINDING_DOWN")
           t == Spent(u)
<1>0. s \in Slots /\ s.asking = FALSE /\ s.asked = 0 /\ s.owed = FALSE
  BY SaneIs
<1>1. /\ b \in Slots /\ SameLife(s, b) /\ SameRail(s, b) /\ SameHeld(s, b)
      /\ SameBus(s, b) /\ SameEngaged(s, b)
      /\ b.stow.on = TRUE /\ b.stow.ending = response
  BY <1>0, BeginIs
<1> HIDE DEF b
<1>2. Entered(b, "WINDING_DOWN", u)
  BY <1>1, EnterIs DEF PhaseKinds
<1> HIDE DEF u
<1>3. s.ending = FALSE
  BY SaneIs DEF Sane, Ending
<1>4. /\ u.phase = "WINDING_DOWN" /\ u.owed = FALSE /\ u.asking = FALSE /\ u.asked = 0
      /\ u.ending = FALSE
      /\ SameBus(s, u) /\ u.pending = s.pending /\ u.saw = s.saw
      /\ u.stow.on = TRUE /\ u.stow.ending = response /\ u.engaged = s.engaged
  BY <1>0, <1>1, <1>2, <1>3 DEF Entered, SameLife, SameBus, SameHeld, SameStow, SameEngaged
<1>5. /\ t \in Slots /\ t.ending = TRUE /\ t.pending = NoScript
      /\ t.phase = u.phase /\ t.owed = u.owed /\ t.asking = u.asking /\ t.asked = u.asked
      /\ t.saw = u.saw
      /\ SameBus(u, t) /\ SameRail(u, t) /\ SameStow(u, t) /\ SameEngaged(u, t)
  BY <1>2, SpentIs DEF Entered
<1> HIDE DEF t
<1>6. ASSUME NEW v \in Slots, v.phase = "WINDING_DOWN", v.owed = FALSE, v.asking = FALSE,
             v.asked = 0, SameBus(s, v), v.saw = s.saw, v.stow.on = TRUE, v.engaged = s.engaged,
             v.ending => v.pending = NoScript, v.stow.ending = "slowRest" => v.ending
      PROVE  Follows(s, v)
  <2>1. Owing(v) /\ Ending(v) /\ Stowing(v) /\ Asking(v)
    BY <1>6 DEF Owing, Ending, Stowing, Asking
  <2>2. Owned(s) => Owned(v)
    BY <1>6 DEF Owned, SameBus, Live
  <2>3. Disarming(s) => Disarming(v)
    BY <1>6 DEF Disarming, SameBus
  <2>4. Sane(v)
    BY <1>6, <2>1, <2>2, <2>3 DEF Sane, SameBus
  <2>5. v.seq = s.seq
    BY <1>6 DEF SameBus
  <2> QED BY <1>0, <1>6, <2>4, <2>5 DEF Follows, Goes, Engages, Asks, Firm, Commanded, Lives
<1>7. CASE response = "slowRest"
  <2>1. t.phase = "WINDING_DOWN" /\ t.owed = FALSE /\ t.asking = FALSE /\ t.asked = 0
        /\ SameBus(s, t) /\ t.saw = s.saw /\ t.stow.on = TRUE /\ t.engaged = s.engaged
    BY <1>4, <1>5 DEF SameBus, SameStow, SameEngaged
  <2>2. Follows(s, t)
    BY <1>5, <1>6, <2>1
  <2> QED BY <1>7, <2>2 DEF t, u, b
<1>8. CASE response # "slowRest"
  <2>1. Follows(s, u)
    BY <1>2, <1>4, <1>6, <1>8 DEF Entered
  <2> QED BY <1>8, <2>1 DEF u, b
<1> QED BY <1>7, <1>8

\* A fault, whatever its kind and wherever the machine is, leaves a sane slot,
\* and one that turns torque off leaves no stow to be commanded.
LEMMA RecordFaultIs ==
  ASSUME NEW s, Sane(s), NEW kind \in FaultKinds, Timely(s, kind)
  PROVE  /\ Follows(s, RecordFault(s, kind))
         /\ Response(kind) = "offPark" =>
              ~(RecordFault(s, kind).stow.on /\ StowsFor(RecordFault(s, kind).stow.ending))
<1> DEFINE response == Response(kind)
           a == AnswerFault(s, kind)
           t == RecordFault(s, kind)
           Off(v) == response = "offPark" => ~(v.stow.on /\ StowsFor(v.stow.ending))
<1>1. response \in Endings \cup {"degrade"}
  BY DEF Response, Endings, FaultKinds
<1>2. t = IF Responds(s, kind) /\ a.phase # "PARKED" /\ response = "slowRest" THEN Spent(a) ELSE a
  BY DEF RecordFault, Spent
<1>3. /\ s \in Slots /\ s.phase \in PhaseKinds /\ s.owed \in BOOLEAN
      /\ s.stow.on <=> s.phase = "WINDING_DOWN"
      /\ s.stow.ending \in Endings
  BY SaneIs
<1>4. s.owed => ~s.stow.on
  BY DEF Sane, Owing
<1> HIDE DEF t
<1>5. CASE s.owed \/ (response = "degrade" /\ OwesDegrade(s))
  <2>1. a = s
    BY <1>5 DEF AnswerFault
  <2>2. ~Responds(s, kind)
    BY <1>5 DEF Responds
  <2>3. t = s
    BY <1>2, <2>1, <2>2
  <2>4. response = "offPark" => s.owed
    BY <1>5
  <2> QED BY <1>4, <2>3, <2>4, Stays DEF t
<1>6. CASE ~(s.owed \/ (response = "degrade" /\ OwesDegrade(s))) /\ response = "degrade"
  <2> DEFINE u == [s EXCEPT !.limp = Antennas]
  <2>1. t = u
    BY <1>2, <1>6 DEF AnswerFault
  <2>2. /\ u \in Slots /\ SameLife(s, u) /\ SameRail(s, u) /\ SameHeld(s, u)
        /\ SameStow(s, u) /\ SameEngaged(s, u)
        /\ u.aux = s.aux /\ u.draining = s.draining /\ u.seq = s.seq
    BY <1>3, LimpIs
  <2> HIDE DEF u
  <2>3. Owing(u) /\ Ending(u) /\ Stowing(u) /\ Asking(u)
    BY <1>6, <2>2 DEF Sane, Owing, Ending, Stowing, Asking, SameLife, SameStow, SameHeld
  <2>4. Owned(s) => Owned(u)
    BY <2>2 DEF Owned, SameLife, SameHeld, Live
  <2>5. Disarming(s) => Disarming(u)
    BY <2>2 DEF Disarming, SameLife
  <2>6. Sane(u)
    BY <2>2, <2>3, <2>4, <2>5 DEF Sane
  <2>7. Follows(s, u)
    BY <2>2, <2>6
       DEF Follows, Goes, Engages, Asks, Firm, Commanded, Lives, SameLife, SameHeld, SameEngaged
  <2> QED BY <1>6, <2>1, <2>7 DEF t
<1>7. CASE /\ ~(s.owed \/ (response = "degrade" /\ OwesDegrade(s)))
           /\ response # "degrade" /\ s.stow.on
  <2> DEFINE u == ReRank(s, response)
  <2>1. a = u
    BY <1>7 DEF AnswerFault
  <2>2. ~Responds(s, kind)
    BY <1>7 DEF Responds
  <2>3. t = u
    BY <1>2, <2>1, <2>2
  <2>4. response \in Endings
    BY <1>1, <1>7
  <2> HIDE DEF response
  <2>5. /\ u \in Slots /\ SameLife(s, u) /\ SameRail(s, u) /\ SameHeld(s, u)
        /\ SameBus(s, u) /\ SameEngaged(s, u)
        /\ u.stow.on = s.stow.on /\ u.stow.ending = Worse(s.stow.ending, response)
    BY <1>3, <2>4, ReRankIs
  <2> HIDE DEF u, a
  <2>6. u.stow.ending = "slowRest" => s.stow.ending = "slowRest"
    BY <1>3, <2>4, <2>5 DEF Worse, Rank, Endings
  <2>7. response = "offPark" => ~StowsFor(u.stow.ending)
    BY <1>3, <2>5 DEF Worse, Rank, Endings, StowsFor
  <2>8. Owing(u) /\ Ending(u) /\ Stowing(u) /\ Asking(u)
    BY <1>7, <2>5, <2>6 DEF Sane, Owing, Ending, Stowing, Asking, SameLife, SameHeld
  <2>9. Owned(s) => Owned(u)
    BY <2>5 DEF Owned, SameLife, SameHeld, SameBus, Live
  <2>10. Disarming(s) => Disarming(u)
    BY <2>5 DEF Disarming, SameLife, SameBus
  <2>11. Sane(u)
    BY <2>5, <2>8, <2>9, <2>10 DEF Sane, SameBus
  <2>12. Follows(s, u)
    BY <2>5, <2>11
       DEF Follows, Goes, Engages, Asks, Firm, Commanded, Lives, SameLife, SameHeld, SameBus,
           SameEngaged
  <2> QED BY <2>3, <2>7, <2>12 DEF t, response
<1>8. CASE /\ ~(s.owed \/ (response = "degrade" /\ OwesDegrade(s)))
           /\ response \in {"offPark", "maskedPark"} /\ ~s.stow.on
           /\ ~(s.phase = "ACTIVE" /\ response = "maskedPark")
  <2> DEFINE u == ReleasedInto(s, "PARKED")
  <2>1. t = u
    BY <1>2, <1>8 DEF AnswerFault, StowOrRelease, Disposition
  <2>2. Follows(s, u)
    BY <1>8, FaultParks
  <2> HIDE DEF u
  <2>3. ~u.stow.on
    <3>1. Sane(u)
      BY <2>2 DEF Follows, Goes
    <3>2. u.phase = "PARKED" => ~u.stow.on
      BY <3>1 DEF Sane, Stowing
    <3>3. u.owed => ~u.stow.on
      BY <3>1 DEF Sane, Owing
    <3>4. u.owed = TRUE
      <4>1. /\ s.phase # "ENGAGING" => ~s.asking /\ s.asked = 0
            /\ s.phase = "PARKED" => s.ending = FALSE
        BY SaneIs
      <4> QED BY <1>3, <4>1, ReleasedIntoIs DEF u, PhaseKinds
    <3> QED BY <3>3, <3>4
  <2> QED BY <2>1, <2>2, <2>3 DEF t
<1>9. CASE /\ ~(s.owed \/ (response = "degrade" /\ OwesDegrade(s)))
           /\ response \in {"slowRest", "maskedPark"} /\ ~s.stow.on /\ s.phase = "ACTIVE"
  <2> DEFINE u == Enter(Begin(s, response), "WINDING_DOWN")
  <2>1. a = u
    BY <1>9 DEF AnswerFault, StowOrRelease
  <2>2. Responds(s, kind)
    BY <1>9 DEF Responds
  <2>3. u.phase = "WINDING_DOWN"
    <3>1. response \in Endings
      BY <1>9 DEF Endings
    <3>2. Begin(s, response) \in Slots
      BY <1>3, <3>1, BeginIs
    <3> QED BY <3>2, EnterIs DEF Entered, PhaseKinds
  <2>4. t = IF response = "slowRest" THEN Spent(u) ELSE u
    BY <1>2, <2>1, <2>2, <2>3
  <2>5. response \in Endings
    BY <1>9 DEF Endings
  <2>6. Follows(s, IF response = "slowRest" THEN Spent(u) ELSE u)
    BY <1>9, <2>5, FaultWinds
  <2> QED BY <1>9, <2>4, <2>6 DEF t
<1>10. CASE /\ ~(s.owed \/ (response = "degrade" /\ OwesDegrade(s)))
            /\ response = "slowRest" /\ ~s.stow.on /\ s.phase # "ACTIVE"
  <2> DEFINE u == ReleasedInto(s, "RESTING")
  <2>1. a = u
    BY <1>10 DEF AnswerFault, StowOrRelease, Disposition
  <2>2. Responds(s, kind)
    BY <1>10 DEF Responds
  <2>3. u.phase = "RESTING"
    <3>1. /\ s.phase # "ENGAGING" => ~s.asking /\ s.asked = 0
          /\ s.phase = "PARKED" => s.ending = FALSE
      BY SaneIs
    <3> QED BY <1>3, <3>1, ReleasedIntoIs DEF PhaseKinds
  <2>4. t = Spent(u)
    BY <1>2, <1>10, <2>1, <2>2, <2>3
  <2>5. "late" \in Hazards
    BY <1>3, <1>10 DEF Timely, Commanded
  <2>6. Follows(s, Spent(u))
    BY <1>10, <2>5, FaultRests
  <2> QED BY <1>10, <2>4, <2>6 DEF t
<1>11. response = "degrade" \/ response \in {"slowRest", "maskedPark", "offPark"}
  BY <1>1 DEF Endings
<1> QED BY <1>5, <1>6, <1>7, <1>8, <1>9, <1>10, <1>11

\* One message is followed by another.
LEMMA FollowsOn ==
  ASSUME NEW s, Sane(s), NEW t, Follows(s, t), s.asked = 0 => t.asked = 0,
         SameLife(s, t), t.engaged = s.engaged, NEW u, Follows(t, u)
  PROVE  Follows(s, u)
BY DEF Follows, Goes, Engages, Asks, Firm, Commanded, Lives, SameLife

-----------------------------------------------------------------------------
(* A wake, and the messages it takes.                                      *)

\* What only keeps the sample clock leaves the session where it is.
Clocks(s, t) == /\ t \in Slots /\ SameLife(s, t) /\ SameBus(s, t) /\ SameRail(s, t)
                /\ SameStow(s, t) /\ SameEngaged(s, t) /\ t.pending = s.pending
                /\ s.saw => t.saw

LEMMA ClocksKeep ==
  ASSUME NEW s, Sane(s), NEW t, Clocks(s, t)
  PROVE  Follows(s, t)
<1>1. Owing(t) /\ Ending(t) /\ Stowing(t) /\ Asking(t)
  BY DEF Clocks, Sane, Owing, Ending, Stowing, Asking, OwesDegrade, SameLife, SameBus, SameStow
<1>2. Owned(s) => Owned(t)
  BY DEF Clocks, Owned, Live, SameLife, SameBus
<1>3. Disarming(s) => Disarming(t)
  BY DEF Clocks, Disarming, SameLife, SameBus
<1>4. Sane(t)
  BY <1>1, <1>2, <1>3 DEF Clocks, Sane, SameBus
<1> QED BY <1>4
   DEF Clocks, Follows, Goes, Engages, Asks, Firm, Commanded, Lives, SameLife, SameEngaged

LEMMA NoteStartIs ==
  ASSUME NEW s \in Slots
  PROVE  Clocks(s, NoteStart(s))
<1> DEFINE t == NoteStart(s)
<1>1. CASE s.started
  BY <1>1 DEF NoteStart, Clocks, SameLife, SameBus, SameRail, SameStow, SameEngaged
<1>2. CASE ~s.started
  <2>1. t = [s EXCEPT !.started = TRUE, !.silence = 0] /\ 0 \in 0..SilenceCap
    BY <1>2, Spare DEF NoteStart
  <2> HIDE DEF t
  <2>2. Clocks(s, t)
    BY <2>1, ZenonT(40) DEF Slots, Clocks, SameLife, SameBus, SameRail, SameStow, SameEngaged
  <2> QED BY <2>2 DEF t
<1> QED BY <1>1, <1>2

LEMMA NoteSampleIs ==
  ASSUME NEW s \in Slots, NEW age \in Ages
  PROVE  Clocks(s, NoteSample(s, age))
<1> DEFINE t == NoteSample(s, age)
           silence == AtMost(age, SilenceCap)
<1>1. CASE s.saw /\ age >= s.silence
  BY <1>1 DEF NoteSample, Clocks, SameLife, SameBus, SameRail, SameStow, SameEngaged
<1>2. CASE ~(s.saw /\ age >= s.silence)
  <2>0. age \in Nat
    BY SessionConstants DEF SessionConstants
  <2>1. t = [s EXCEPT !.saw = TRUE, !.silence = silence] /\ silence \in 0..SilenceCap
    BY <1>2, <2>0, Spare DEF NoteSample, AtMost
  <2> HIDE DEF t, silence
  <2>2. Clocks(s, t)
    BY <2>1, ZenonT(40) DEF Slots, Clocks, SameLife, SameBus, SameRail, SameStow, SameEngaged
  <2> QED BY <2>2 DEF t
<1> QED BY <1>1, <1>2

LEMMA ClocksOn ==
  ASSUME NEW s, NEW t, Clocks(s, t), NEW u, Clocks(t, u)
  PROVE  Clocks(s, u)
BY DEF Clocks, SameLife, SameBus, SameRail, SameStow, SameEngaged

\* A silence noticed is a fault like another, whoever it is noticed by.
LEMMA WatchedIs ==
  ASSUME NEW s, Sane(s), NEW t, Clocks(s, t)
  PROVE  Follows(s, Watched(t))
<1>1. Follows(s, t) /\ Sane(t)
  BY ClocksKeep DEF Follows, Goes
<1>2. Timely(t, "BusFailure") /\ "BusFailure" \in FaultKinds
  BY DEF Timely, Response, FaultKinds
<1>3. Follows(t, RecordFault(t, "BusFailure"))
  BY <1>1, <1>2, RecordFaultIs
<1>4. Follows(s, RecordFault(t, "BusFailure"))
  BY <1>1, <1>3, FollowsOn DEF Clocks, SameLife, SameEngaged
<1> QED BY <1>1, <1>4 DEF Watched

LEMMA ConfirmedIs ==
  ASSUME NEW s, Sane(s)
  PROVE  Follows(s, Confirmed(s))
<1>1. CASE s.owed
  <2> DEFINE t == [s EXCEPT !.owed = FALSE, !.ending = FALSE]
  <2>0. s \in Slots
    BY DEF Sane
  <2>1. /\ t \in Slots /\ t.owed = FALSE /\ t.ending = FALSE
        /\ t.phase = s.phase /\ t.asking = s.asking /\ t.asked = s.asked
        /\ SameBus(s, t) /\ SameRail(s, t) /\ SameHeld(s, t) /\ SameStow(s, t)
        /\ SameEngaged(s, t)
    BY <2>0 DEF Slots, SameBus, SameRail, SameHeld, SameStow, SameEngaged
  <2> HIDE DEF t
  <2>2. Owing(t) /\ Ending(t) /\ Stowing(t) /\ Asking(t)
    BY <1>1, <2>1 DEF Sane, Owing, Ending, Stowing, Asking, SameStow
  <2>3. Owned(s) => Owned(t)
    BY <2>1 DEF Owned, Live, SameHeld, SameBus
  <2>4. Disarming(s) => Disarming(t)
    BY <2>1 DEF Disarming, SameBus
  <2>5. Sane(t)
    BY <2>1, <2>2, <2>3, <2>4 DEF Sane, SameBus
  <2>6. s.phase \in {"RESTING", "PARKED"} /\ s.owed = TRUE
    BY <1>1, SaneIs
  <2>7. Follows(s, t)
    BY <2>1, <2>5, <2>6 DEF Follows, Goes, Engages, Asks, Firm, Commanded, Lives, SameEngaged
  <2> QED BY <1>1, <2>7 DEF Confirmed, t
<1>2. CASE ~s.owed
  BY <1>2, Stays DEF Confirmed
<1> QED BY <1>1, <1>2

\* An engagement left with nothing commanded: taken hold of, or never.
LEMMA LeavesEngaging ==
  ASSUME NEW s, Sane(s), s.phase = "ENGAGING", NEW t \in Slots, t.phase \in {"ACTIVE", "RESTING"},
         t.owed = FALSE, t.ending = FALSE, t.asking = FALSE, t.asked = 0,
         SameStow(s, t), SameEngaged(s, t), Runs(t.seq),
         t.seq.kind \in {s.seq.kind, "none", "poll"},
         "early" \in Hazards \/ (t.aux.on => t.draining /\ t.aux.row # NoRow)
  PROVE  Follows(s, t)
<1>1. s.owed = FALSE /\ s.stow.on = FALSE
  BY SaneIs
<1>2. Owing(t) /\ Ending(t) /\ Stowing(t) /\ Asking(t)
  BY <1>1 DEF Owing, Ending, Stowing, Asking, SameStow
<1>3. "early" \in Hazards \/ Owned(t)
  BY DEF Owned
<1>4. Disarming(s) => Disarming(t)
  BY DEF Disarming
<1>5. Sane(t)
  BY <1>2, <1>3, <1>4 DEF Sane
<1> QED BY <1>1, <1>5 DEF Follows, Goes, Engages, Asks, Firm, Commanded, Lives, SameEngaged

LEMMA AnswerEngagementIs ==
  ASSUME NEW s, Sane(s), NEW event \in Answered, s.asking => s.asked # 0 \/ "early" \in Hazards
  PROVE  Follows(s, AnswerEngagement(s, event))
<1> DEFINE b == [s EXCEPT !.asking = FALSE]
           c == CommandRelease(b)
           Opened(to) == Enter(b, to)
           p == Enter(c, "PARKED")
<1>0. s \in Slots
  BY DEF Sane
<1>1. CASE ~s.asking
  BY <1>1, Stays DEF AnswerEngagement
<1>2. CASE s.asking
  <2>1. s.phase = "ENGAGING"
    BY <1>2 DEF Sane, Asking
  <2>2. s.owed = FALSE /\ s.stow.on = FALSE /\ s.ending = FALSE
    <3>1. ~s.ending
      BY <2>1 DEF Sane, Ending
    <3> QED BY <2>1, <3>1, SaneIs
  <2>3. /\ b \in Slots /\ b.asking = FALSE
        /\ b.phase = s.phase /\ b.owed = s.owed /\ b.ending = s.ending /\ b.asked = s.asked
        /\ SameBus(s, b) /\ SameRail(s, b) /\ SameHeld(s, b) /\ SameStow(s, b)
        /\ SameEngaged(s, b)
    BY <1>0 DEF Slots, SameBus, SameRail, SameHeld, SameStow, SameEngaged
  <2>4. AnswerEngagement(s, event) = CASE event = "EngageConfirmed" -> Opened("ACTIVE")
                                       [] event = "EngageUnconfirmed" -> p
                                       [] OTHER -> Opened("RESTING")
    BY <1>2 DEF AnswerEngagement
  <2> HIDE DEF b
  <2>5. ASSUME NEW to \in {"ACTIVE", "RESTING"} PROVE Follows(s, Opened(to))
    <3> DEFINE t == Opened(to)
    <3>1. Entered(b, to, t)
      BY <2>3, <2>5, EnterIs DEF PhaseKinds
    <3> HIDE DEF t
    <3>2. /\ t.owed = FALSE /\ t.ending = FALSE /\ t.asking = FALSE /\ t.asked = 0
          /\ SameStow(s, t) /\ SameEngaged(s, t) /\ t.seq = s.seq
          /\ t.aux = s.aux /\ t.draining = s.draining
      BY <2>1, <2>2, <2>3, <2>5, <3>1 DEF Entered, SameBus, SameStow, SameEngaged
    <3>3. "early" \in Hazards \/ (t.aux.on => t.draining /\ t.aux.row # NoRow)
      BY <1>2, <3>2 DEF Sane, Owned
    <3>4. Runs(t.seq)
      BY <3>2 DEF Sane
    <3>5. Follows(s, t)
      BY <2>1, <2>5, <3>1, <3>2, <3>3, <3>4, LeavesEngaging DEF Entered
    <3> QED BY <3>5 DEF t
  <2>6. Follows(s, p)
    <3>1. /\ c \in Slots
          /\ c.owed = TRUE /\ c.aux = NoAux /\ c.draining = FALSE /\ c.limp = {}
          /\ c.phase = b.phase /\ c.ending = b.ending /\ c.asking = b.asking
          /\ c.asked = b.asked /\ c.seq = b.seq
          /\ SameRail(b, c) /\ SameHeld(b, c) /\ SameStow(b, c) /\ SameEngaged(b, c)
      BY <2>3, CommandReleaseIs
    <3> HIDE DEF c
    <3>2. Entered(c, "PARKED", p)
      BY <3>1, EnterIs DEF PhaseKinds
    <3> HIDE DEF p
    <3>3. /\ p.owed = TRUE /\ p.ending = FALSE /\ p.asking = FALSE /\ p.asked = 0
          /\ p.aux = NoAux /\ p.draining = FALSE /\ p.limp = {} /\ p.seq = s.seq
          /\ p.stow = s.stow /\ p.engaged = s.engaged
      BY <2>1, <2>2, <2>3, <3>1, <3>2 DEF Entered, SameBus, SameStow, SameEngaged
    <3>4. Owing(p) /\ Ending(p) /\ Stowing(p) /\ Asking(p) /\ Owned(p) /\ Disarming(p)
      BY <2>2, <3>2, <3>3, Nones
         DEF Entered, Owing, Ending, Stowing, Asking, Owned, Disarming, OwesDegrade
    <3>5. Sane(p)
      BY <3>2, <3>3, <3>4 DEF Entered, Sane
    <3>6. s.phase \in PhaseKinds
      BY SaneIs
    <3> QED BY <2>1, <3>2, <3>3, <3>5, <3>6
       DEF Entered, Follows, Goes, Engages, Asks, Firm, Commanded, Lives
  <2> HIDE DEF Opened, p
  <2>7. CASE event = "EngageConfirmed"
    BY <2>4, <2>5, <2>7
  <2>8. CASE event = "EngageUnconfirmed"
    BY <2>4, <2>6, <2>8
  <2>9. CASE event = "EngageDeclined"
    BY <2>4, <2>5, <2>9
  <2> QED BY <2>7, <2>8, <2>9 DEF Answered
<1> QED BY <1>1, <1>2

LEMMA HeardIs ==
  ASSUME NEW s, Sane(s), NEW event \in Events,
         event \in Answered /\ s.asking => s.asked # 0 \/ "early" \in Hazards
  PROVE  Follows(s, Heard(s, event))
<1>1. CASE event = "TorqueOffConfirmed"
  BY <1>1, ConfirmedIs DEF Heard, Answered
<1>2. CASE event \in Answered
  <2>1. event # "TorqueOffConfirmed"
    BY <1>2 DEF Answered
  <2>2. Heard(s, event) = AnswerEngagement(s, event)
    BY <1>2, <2>1 DEF Heard
  <2> QED BY <1>2, <2>2, AnswerEngagementIs
<1>3. CASE event \in {"TorqueOffUnconfirmed", "BusFailure"}
  <2>1. Heard(s, event) = RecordFault(s, event)
    BY <1>3 DEF Heard, Answered
  <2>2. event \in FaultKinds /\ Timely(s, event)
    BY <1>3 DEF FaultKinds, Timely, Response
  <2> QED BY <2>1, <2>2, RecordFaultIs
<1> QED BY <1>1, <1>2, <1>3 DEF Events, Answered

\* What is filed of the rail alone leaves the session where it is.
LEMMA FiledKeeps ==
  ASSUME NEW s, Sane(s), NEW t \in Slots, SameLife(s, t), SameBus(s, t), SameHeld(s, t),
         SameStow(s, t), SameEngaged(s, t)
  PROVE  Follows(s, t)
<1>2. Owing(t) /\ Ending(t) /\ Stowing(t) /\ Asking(t)
  BY DEF Sane, Owing, Ending, Stowing, Asking, OwesDegrade, SameLife, SameBus, SameStow, SameHeld
<1>3. Owned(s) => Owned(t)
  BY DEF Owned, Live, SameLife, SameBus, SameHeld
<1>4. Disarming(s) => Disarming(t)
  BY DEF Disarming, SameLife, SameBus
<1>5. Sane(t)
  BY <1>2, <1>3, <1>4 DEF Sane, SameBus
<1> QED BY <1>5 DEF Follows, Goes, Engages, Asks, Firm, Commanded, Lives, SameLife, SameEngaged

\* A reading is filed, and judged once for its row.
LEMMA ReadingIs ==
  ASSUME NEW s, Sane(s), NEW row \in Rows, NEW status \in Statuses
  PROVE  Follows(s, Reading(s, row, status))
<1> DEFINE rail == [s.rail EXCEPT ![row] = status]
           a == [s EXCEPT !.rail = rail]
           b == [a EXCEPT !.faulted = a.faulted \cup {row}]
           kind == IF row \in Antennas THEN "AntennaFault" ELSE "HeadServoFault"
<1>0. s \in Slots /\ status \in Readings
  BY SessionConstants DEF Sane, SessionConstants
<1>1. rail \in [Rows -> Readings \cup {"stale"}]
  BY <1>0 DEF Slots
<1>2. Reading(s, row, status) = IF status # "flagged" \/ row \in s.faulted THEN a
                                ELSE RecordFault(b, kind)
  BY <1>0 DEF Reading, Slots
<1> HIDE DEF rail
<1>3. ASSUME NEW t \in Slots, SameLife(s, t), SameBus(s, t), SameHeld(s, t), SameStow(s, t),
             SameEngaged(s, t)
      PROVE  Follows(s, t)
  BY <1>3, FiledKeeps
<1>4. /\ a \in Slots /\ SameLife(s, a) /\ SameBus(s, a) /\ SameHeld(s, a) /\ SameStow(s, a)
      /\ SameEngaged(s, a)
  BY <1>0, <1>1 DEF Slots, SameLife, SameBus, SameHeld, SameStow, SameEngaged
<1> HIDE DEF a
<1>5. /\ b \in Slots /\ SameLife(a, b) /\ SameBus(a, b) /\ SameHeld(a, b) /\ SameStow(a, b)
      /\ SameEngaged(a, b)
  BY <1>4 DEF Slots, SameLife, SameBus, SameHeld, SameStow, SameEngaged
<1> HIDE DEF b
<1>6. Follows(s, a)
  BY <1>3, <1>4
<1>7. Follows(s, b) /\ SameLife(s, b) /\ b.engaged = s.engaged
  <2>1. /\ SameLife(s, b) /\ SameBus(s, b) /\ SameHeld(s, b) /\ SameStow(s, b)
        /\ SameEngaged(s, b)
    BY <1>4, <1>5 DEF SameLife, SameBus, SameHeld, SameStow, SameEngaged
  <2> QED BY <1>3, <1>5, <2>1 DEF SameEngaged
<1>8. Sane(b)
  BY <1>7 DEF Follows, Goes
<1>9. kind \in FaultKinds /\ Timely(b, kind)
  BY DEF FaultKinds, Timely, Response
<1> HIDE DEF kind
<1>10. Follows(b, RecordFault(b, kind))
  BY <1>8, <1>9, RecordFaultIs
<1>11. Follows(s, RecordFault(b, kind))
  BY <1>7, <1>8, <1>10, FollowsOn DEF SameLife
<1> QED BY <1>2, <1>6, <1>11

-----------------------------------------------------------------------------
(* A script decided.                                                       *)

Held == [id : 0..MaxScript, span : 0..Stepless]

LEMMA FlagsAre ==
  ASSUME NEW s \in Slots, NEW engaged \in BOOLEAN, NEW news \in BOOLEAN
  PROVE  LET t == [s EXCEPT !.engaged = engaged, !.news = news]
         IN  /\ t \in Slots /\ SameLife(s, t) /\ SameBus(s, t) /\ SameRail(s, t) /\ SameStow(s, t)
             /\ SameHeld(s, t) /\ t.engaged = engaged
BY ZenonT(40) DEF Slots, SameLife, SameBus, SameRail, SameStow, SameHeld

LEMMA StoreIs ==
  ASSUME NEW s \in Slots, NEW script \in Held, NEW engaged \in BOOLEAN, NEW bump \in BOOLEAN
  PROVE  LET t == Store(s, script, engaged, bump)
         IN  /\ t \in Slots /\ SameLife(s, t) /\ SameBus(s, t) /\ SameRail(s, t) /\ SameStow(s, t)
             /\ t.saw = s.saw /\ t.engaged = engaged /\ t.pending = NoScript
<1> DEFINE t == Store(s, script, engaged, bump)
           left == IF script.span > SpanCap THEN 0 ELSE script.span
           news == s.news \/ bump
<1>1. t = [s EXCEPT !.left = left, !.engaged = engaged, !.news = news, !.id = script.id,
                    !.pending = NoScript]
  BY DEF Store
<1>2. left \in 0..LeftCap
  <2>1. script.span \in Nat /\ SpanCap \in Nat /\ LeftCap \in Nat /\ SpanCap <= LeftCap
    BY Spare DEF Held
  <2> QED BY <2>1
<1>3. news \in BOOLEAN /\ script.id \in 0..MaxScript
  BY DEF Slots, Held
<1> HIDE DEF t, left, news
<1>4. /\ t \in Slots /\ SameLife(s, t) /\ SameBus(s, t) /\ SameRail(s, t) /\ SameStow(s, t)
      /\ t.saw = s.saw /\ t.engaged = engaged /\ t.pending = NoScript
  <2> DEFINE u == [s EXCEPT !.left = left, !.id = script.id, !.pending = NoScript]
  <2>1. /\ u \in Slots /\ SameLife(s, u) /\ SameBus(s, u) /\ SameRail(s, u) /\ SameStow(s, u)
        /\ u.saw = s.saw /\ u.pending = NoScript
    BY <1>2, <1>3, Nones DEF Slots, SameLife, SameBus, SameRail, SameStow
  <2>2. t = [u EXCEPT !.engaged = engaged, !.news = news]
    BY <1>1 DEF Slots
  <2> HIDE DEF u
  <2>3. /\ t \in Slots /\ SameLife(u, t) /\ SameBus(u, t) /\ SameRail(u, t) /\ SameStow(u, t)
        /\ SameHeld(u, t) /\ t.engaged = engaged
    BY <1>3, <2>1, <2>2, FlagsAre
  <2> QED BY <2>1, <2>3 DEF SameLife, SameBus, SameRail, SameStow, SameHeld
<1> QED BY <1>4 DEF t

LEMMA OpenEngagementIs ==
  ASSUME NEW s \in Slots
  PROVE  LET t == OpenEngagement(s)
         IN  /\ t \in Slots /\ SameBus(s, t) /\ SameStow(s, t) /\ SameHeld(s, t)
             /\ SameEngaged(s, t) /\ t.owed = s.owed /\ t.ending = s.ending
             /\ t.phase = "ENGAGING" /\ t.asking = TRUE /\ t.asked = 0
<1> DEFINE b == [s EXCEPT !.asking = TRUE, !.asked = 0, !.rows = {}]
           t == Enter(b, "ENGAGING")
<1>1. /\ b \in Slots /\ b.phase = s.phase /\ b.owed = s.owed /\ b.ending = s.ending
      /\ b.asking = TRUE /\ b.asked = 0
      /\ SameBus(s, b) /\ SameStow(s, b) /\ SameHeld(s, b) /\ SameEngaged(s, b)
  BY Spare DEF Slots, SameBus, SameStow, SameHeld, SameEngaged
<1> HIDE DEF b
<1>2. Entered(b, "ENGAGING", t)
  BY <1>1, EnterIs DEF PhaseKinds
<1>3. OpenEngagement(s) = t
  BY DEF OpenEngagement, b
<1>4. b.ending \in BOOLEAN
  BY <1>1 DEF Slots
<1> HIDE DEF t
<1>5. /\ t \in Slots /\ SameBus(s, t) /\ SameStow(s, t) /\ SameHeld(s, t)
      /\ SameEngaged(s, t) /\ t.owed = s.owed /\ t.ending = s.ending
      /\ t.phase = "ENGAGING" /\ t.asking = TRUE /\ t.asked = 0
  BY <1>1, <1>2, <1>4 DEF Entered, SameBus, SameStow, SameHeld, SameEngaged
<1> QED BY <1>3, <1>5

\* What a script decided leaves alone.
Spared(s, t) == /\ SameBus(s, t) /\ t.owed = s.owed /\ t.stow = s.stow
                /\ t.asked = s.asked \/ t.asked = 0
                /\ t.phase = s.phase \/ (s.phase = "RESTING" /\ t.phase = "ENGAGING")

\* A script never reaches what is owed, the bus or a stow.
LEMMA DecideIs ==
  ASSUME NEW s, Sane(s), NEW script \in Held, NEW bumped \in BOOLEAN
  PROVE  /\ Follows(s, Decide(s, script, bumped))
         /\ Spared(s, Decide(s, script, bumped))
<1> DEFINE t == Decide(s, script, bumped)
           k == [s EXCEPT !.pending = script]
           a == Store(s, script, TRUE, ~bumped)
           b == Store(s, script, FALSE, ~bumped)
           e == OpenEngagement(b)
<1>0. s \in Slots /\ (~bumped) \in BOOLEAN
  BY Zenon DEF Sane
<1>1. \/ t = s
      \/ t = k /\ s.phase \in {"STARTING", "ENGAGING", "STOPPING"}
      \/ t = a /\ s.phase = "ACTIVE"
      \/ t = e /\ s.phase = "RESTING" /\ ~s.ending
  <2>1. CASE Intake(s) = "hold"
    <3>1. s.phase \in {"STARTING", "ENGAGING", "STOPPING"}
      BY <2>1 DEF Intake
    <3> QED BY <2>1, <3>1 DEF Decide, Hold
  <2>2. CASE Intake(s) # "hold" /\ ~Admits(s, script)
    BY <2>2 DEF Decide
  <2>3. CASE Intake(s) # "hold" /\ Admits(s, script)
    <3>1. Intake(s) = "take"
      BY <2>3 DEF Admits
    <3>2. s.phase = "ACTIVE" \/ (s.phase = "RESTING" /\ ~s.ending)
      <4>1. CASE s.phase \in {"STARTING", "ENGAGING", "STOPPING"}
        BY <2>3, <4>1 DEF Intake
      <4>2. CASE s.phase \notin {"STARTING", "ENGAGING", "STOPPING"}
                 /\ ~(s.phase = "ACTIVE" \/ (s.phase = "RESTING" /\ ~s.ending))
        BY <3>1, <4>2 DEF Intake
      <4> QED BY <4>1, <4>2
    <3> QED BY <2>3, <3>2 DEF Decide
  <2> QED BY <2>1, <2>2, <2>3
<1>2. ASSUME NEW u \in Slots, SameLife(s, u), SameBus(s, u), SameStow(s, u), u.saw = s.saw,
             ~s.ending, u.engaged = s.engaged \/ u.engaged = TRUE
      PROVE  Follows(s, u) /\ Spared(s, u)
  <2>1. Owing(u) /\ Ending(u) /\ Stowing(u) /\ Asking(u)
    BY <1>2 DEF Sane, Owing, Ending, Stowing, Asking, OwesDegrade, SameLife, SameBus, SameStow
  <2>2. Owned(s) => Owned(u)
    BY <1>2 DEF Owned, Live, SameLife, SameBus
  <2>3. Disarming(s) => Disarming(u)
    BY <1>2 DEF Disarming, SameLife, SameBus
  <2>4. Sane(u)
    BY <1>2, <2>1, <2>2, <2>3 DEF Sane, SameBus
  <2>5. Follows(s, u)
    BY <1>2, <2>4 DEF Follows, Goes, Engages, Asks, Firm, Commanded, Lives, SameLife
  <2> QED BY <1>2, <2>5 DEF Spared, SameLife, SameStow
<1> HIDE DEF t
<1>3. CASE t = s
  <2>1. Spared(s, s)
    BY DEF Spared, SameBus
  <2> QED BY <1>3, <2>1, Stays DEF t
<1>4. CASE t = k /\ s.phase \in {"STARTING", "ENGAGING", "STOPPING"}
  <2>1. /\ k \in Slots /\ SameLife(s, k) /\ SameBus(s, k) /\ SameStow(s, k) /\ k.saw = s.saw
        /\ k.engaged = s.engaged
    BY <1>0 DEF Slots, Held, SameLife, SameBus, SameStow
  <2> HIDE DEF k
  <2>2. ~s.ending
    BY <1>4 DEF Sane, Ending
  <2>3. Follows(s, k) /\ Spared(s, k)
    BY <1>2, <2>1, <2>2
  <2> QED BY <1>4, <2>3 DEF t
<1>5. CASE t = a /\ s.phase = "ACTIVE"
  <2>1. /\ a \in Slots /\ SameLife(s, a) /\ SameBus(s, a) /\ SameStow(s, a) /\ a.saw = s.saw
        /\ a.engaged = TRUE
    BY <1>0, StoreIs
  <2> HIDE DEF a
  <2>2. ~s.ending
    BY <1>5 DEF Sane, Ending
  <2>3. Follows(s, a) /\ Spared(s, a)
    BY <1>2, <2>1, <2>2
  <2> QED BY <1>5, <2>3 DEF t
<1>6. CASE t = e /\ s.phase = "RESTING" /\ ~s.ending
  <2>1. /\ b \in Slots /\ SameLife(s, b) /\ SameBus(s, b) /\ SameStow(s, b) /\ b.saw = s.saw
    BY <1>0, StoreIs
  <2> HIDE DEF b
  <2>2. /\ e \in Slots /\ SameBus(b, e) /\ SameStow(b, e) /\ SameHeld(b, e)
        /\ SameEngaged(b, e) /\ e.owed = b.owed /\ e.ending = b.ending
        /\ e.phase = "ENGAGING" /\ e.asking = TRUE /\ e.asked = 0
    BY <2>1, OpenEngagementIs
  <2> HIDE DEF e
  <2>3. s.ending = FALSE /\ s.owed = FALSE /\ s.stow.on = FALSE
    <3>1. ~s.owed
      BY <1>6 DEF Sane, Ending
    <3> QED BY <1>6, <3>1, SaneIs
  <2>4. /\ SameBus(s, e) /\ e.owed = FALSE /\ e.ending = FALSE /\ e.stow = s.stow
    BY <2>1, <2>2, <2>3 DEF SameBus, SameLife, SameStow
  <2>5. Owing(e) /\ Ending(e) /\ Stowing(e) /\ Asking(e)
    BY <2>2, <2>3, <2>4 DEF Owing, Ending, Stowing, Asking
  <2>6. Owned(s) => Owned(e)
    BY <1>6, <2>2, <2>4 DEF Owned, Live, SameBus
  <2>7. Disarming(s) => Disarming(e)
    BY <1>6, <2>4 DEF Disarming, SameBus
  <2>8. Sane(e)
    BY <2>2, <2>4, <2>5, <2>6, <2>7 DEF Sane, SameBus
  <2>9. Follows(s, e)
    BY <1>6, <2>2, <2>3, <2>4, <2>8 DEF Follows, Goes, Engages, Asks, Firm, Commanded, Lives
  <2>10. Spared(s, e)
    BY <1>6, <2>2, <2>3, <2>4 DEF Spared
  <2> QED BY <1>6, <2>9, <2>10 DEF t
<1> QED BY <1>1, <1>3, <1>4, <1>5, <1>6

-----------------------------------------------------------------------------
(* The transaction in flight.                                              *)

Flights == [on : BOOLEAN, corr : 0..(CorrWrap - 1), age : 0..(AuxTimeout + 1),
            retries : 0..AuxRetries, row : 0..N]

\* What changes nothing but the transaction.
SameButAux(s, t) == /\ SameLife(s, t) /\ SameRail(s, t) /\ SameHeld(s, t) /\ SameStow(s, t)
                    /\ SameEngaged(s, t) /\ t.draining = s.draining /\ t.limp = s.limp
                    /\ t.seq = s.seq

LEMMA FlightIs ==
  ASSUME NEW s \in Slots, NEW aux \in Flights
  PROVE  LET t == [s EXCEPT !.aux = aux]
         IN  t \in Slots /\ t.aux = aux /\ SameButAux(s, t)
BY DEF Slots, Flights, SameButAux, SameLife, SameRail, SameHeld, SameStow, SameEngaged

LEMMA IssueIs ==
  ASSUME NEW s \in Slots, NEW row \in 0..N
  PROVE  LET t == Issue(s, row)
         IN  t \in Slots /\ t.aux.on = TRUE /\ t.aux.row = row /\ SameButAux(s, t)
<1> DEFINE aux == [on |-> TRUE, corr |-> s.corr, age |-> 0, retries |-> 0, row |-> row]
           corr == (s.corr + 1) % CorrWrap
           t == Issue(s, row)
<1>1. t = [s EXCEPT !.aux = aux, !.corr = corr]
  BY DEF Issue
<1>2. s.corr \in 0..(CorrWrap - 1)
  BY DEF Slots
<1>3. corr \in 0..(CorrWrap - 1)
  BY <1>2, Spare
<1>4. aux \in Flights /\ aux.on = TRUE /\ aux.row = row
  BY <1>2, Spare DEF Flights
<1> HIDE DEF t, aux, corr
<1>5. t \in Slots /\ t.aux = aux /\ SameButAux(s, t)
  BY <1>1, <1>3, <1>4, ZenonT(40)
     DEF Slots, Flights, SameButAux, SameLife, SameRail, SameHeld, SameStow, SameEngaged
<1> QED BY <1>4, <1>5 DEF t

\* A transaction settled is out of flight; one waited for is the one there was.
LEMMA SettleIs ==
  ASSUME NEW s \in Slots, NEW answer \in Priors
  PROVE  LET t == Settle(s, answer)
         IN  /\ t \in Slots /\ SameButAux(s, t)
             /\ Settled(s, answer) = "waiting" => /\ s.aux.on /\ t.aux.on = s.aux.on
                                                  /\ t.aux.row = s.aux.row
             /\ Settled(s, answer) # "waiting" => t.aux.on = FALSE /\ Settled(s, answer) \in Priors
<1> DEFINE t == Settle(s, answer)
           out == Settled(s, answer)
           resent == [s.aux EXCEPT !.retries = s.aux.retries + 1, !.age = 0]
<1>1. s.aux \in Flights
  BY DEF Slots, Flights
<1>2. CASE Resends(s, answer)
  <2>1. out = "waiting" /\ Overdue(s)
    BY <1>2 DEF Resends
  <2>2. s.aux.on /\ s.aux.retries < AuxRetries
    BY <2>1 DEF Settled, Priors, Results
  <2>3. s.aux.retries + 1 \in 0..AuxRetries
    <3>1. s.aux.retries \in 0..AuxRetries /\ AuxRetries \in Nat
      BY <1>1, Spare DEF Flights
    <3> QED BY <2>2, <3>1
  <2>4. resent \in Flights /\ resent.on = s.aux.on /\ resent.row = s.aux.row
    BY <1>1, <2>3, Spare DEF Flights
  <2>5. t = [s EXCEPT !.aux = resent]
    <3>1. t = [s EXCEPT !.aux.retries = @ + 1, !.aux.age = 0]
      BY <1>2 DEF Settle
    <3> QED BY <3>1 DEF Slots
  <2> HIDE DEF t, out, resent
  <2>6. t \in Slots /\ t.aux = resent /\ SameButAux(s, t)
    BY <2>4, <2>5, FlightIs
  <2> QED BY <2>1, <2>2, <2>4, <2>6 DEF t, out
<1>3. CASE ~Resends(s, answer) /\ out = "waiting"
  <2>1. t = s
    BY <1>3 DEF Settle
  <2>2. s.aux.on
    BY <1>3 DEF Settled
  <2>3. SameButAux(s, s)
    BY DEF SameButAux, SameLife, SameRail, SameHeld, SameStow, SameEngaged
  <2> QED BY <1>3, <2>1, <2>2, <2>3
<1>4. CASE ~Resends(s, answer) /\ out # "waiting"
  <2>1. t = [s EXCEPT !.aux = NoAux]
    BY <1>4 DEF Settle
  <2>2. NoAux \in Flights /\ NoAux.on = FALSE
    BY Nones DEF Flights
  <2>3. out \in Priors
    BY <1>4 DEF Settled, Priors, Results
  <2> HIDE DEF t, out
  <2>4. t \in Slots /\ t.aux = NoAux /\ SameButAux(s, t)
    BY <2>1, <2>2, FlightIs
  <2> QED BY <1>4, <2>2, <2>3, <2>4 DEF t, out
<1> QED BY <1>2, <1>3, <1>4

\* What a step of a sequence makes of the slot it is paced into.
PacedAs(s, snap, t) ==
  /\ t \in Slots
  /\ SameLife(s, t) /\ SameRail(s, t) /\ SameHeld(s, t) /\ SameStow(s, t)
  /\ SameEngaged(s, t) /\ t.draining = s.draining /\ t.limp = s.limp
  /\ Runs(t.seq) /\ t.seq.kind \in {snap.kind, "none"}
  /\ t.aux.on => t.aux.row = NoRow /\ t.seq.held
  /\ t.aux.on => ~Done(snap) /\ ~Failed(snap)
  /\ Done(snap) \/ Failed(snap) => t.seq.kind = "none"

LEMMA PacedIs ==
  ASSUME NEW s \in Slots, s.aux.on = FALSE, NEW snap, NEW kind, Stands(snap, kind)
  PROVE  PacedAs(s, snap, Paced(s, snap))
<1> DEFINE t == Paced(s, snap)
<1>0. snap \in Snaps /\ snap.held \in BOOLEAN
  BY DEF Stands, Snaps
<1>1. CASE Transacts(snap)
  <2> DEFINE b == [s EXCEPT !.seq = snap]
  <2>1. /\ b \in Slots /\ b.seq = snap
        /\ SameLife(s, b) /\ SameRail(s, b) /\ SameHeld(s, b) /\ SameStow(s, b)
        /\ SameEngaged(s, b) /\ b.draining = s.draining /\ b.limp = s.limp
        /\ b.aux = s.aux
    BY <1>0 DEF Slots, SameLife, SameRail, SameHeld, SameStow, SameEngaged
  <2>2. t = Issue(b, NoRow)
    BY <1>1 DEF Paced, Transacts, Waits
  <2> HIDE DEF b, t
  <2>3. t \in Slots /\ t.aux.on = TRUE /\ t.aux.row = NoRow /\ SameButAux(b, t)
    BY <2>1, <2>2, IssueIs, Spare
  <2>4. Runs(snap) /\ snap.held
    BY <1>1 DEF Stands, Transacts
  <2>5. ~Done(snap) /\ ~Failed(snap)
    BY <2>4 DEF Runs
  <2> QED BY <2>1, <2>3, <2>4, <2>5
          DEF PacedAs, SameButAux, SameLife, SameRail, SameHeld, SameStow, SameEngaged, t
<1>2. CASE ~Transacts(snap) /\ Waits(snap)
  <2> DEFINE wait == WaitOf(snap)
  <2>1. t = [s EXCEPT !.seq = snap, !.wait = wait]
    BY <1>2 DEF Paced
  <2>2. wait \in 0..(VoltageWait + Dwell)
    BY Spare DEF WaitOf
  <2> HIDE DEF t, wait
  <2>3. /\ t \in Slots /\ t.seq = snap
        /\ SameLife(s, t) /\ SameRail(s, t) /\ SameHeld(s, t) /\ SameStow(s, t)
        /\ SameEngaged(s, t) /\ t.draining = s.draining /\ t.limp = s.limp
        /\ t.aux = s.aux
    BY <1>0, <2>1, <2>2, ZenonT(40) DEF Slots, SameLife, SameRail, SameHeld, SameStow, SameEngaged
  <2>4. Runs(snap) /\ ~Done(snap) /\ ~Failed(snap)
    BY <1>2 DEF Stands, Waits
  <2> QED BY <2>3, <2>4 DEF PacedAs, t
<1>3. CASE ~Transacts(snap) /\ ~Waits(snap)
  <2>1. t = [s EXCEPT !.seq = Blank, !.wait = 0]
    BY <1>3 DEF Paced
  <2> DEFINE seq == Blank
             wait == 0
  <2>2. seq \in Snaps /\ wait \in 0..(VoltageWait + Dwell)
    BY BlankIs, Spare
  <2> HIDE DEF t, seq, wait
  <2>3. t = [s EXCEPT !.seq = seq, !.wait = wait]
    BY <2>1 DEF seq, wait
  <2>4. /\ t \in Slots /\ t.seq = seq
        /\ SameLife(s, t) /\ SameRail(s, t) /\ SameHeld(s, t) /\ SameStow(s, t)
        /\ SameEngaged(s, t) /\ t.draining = s.draining /\ t.limp = s.limp
        /\ t.aux = s.aux
    BY <2>2, <2>3, ZenonT(40) DEF Slots, SameLife, SameRail, SameHeld, SameStow, SameEngaged
  <2> QED BY <2>4, BlankRuns, BlankIs DEF PacedAs, t, seq
<1> QED BY <1>1, <1>2, <1>3

-----------------------------------------------------------------------------
(* The phase's own sequence.                                               *)

\* What a turn of the bus makes of a slot, and says: a release is said when it
\* is owed and not otherwise, and no stow is begun or commanded.
Lasts(s, t) == t.stow.on /\ StowsFor(t.stow.ending) => t.stow = s.stow
Ran(s, turn) == /\ Goes(s, turn.slot) /\ Lasts(s, turn.slot)
                /\ turn.cmd \in Cmds /\ (turn.cmd = "release" <=> turn.slot.owed)

\* A slot a sequence may take its step in: nothing is in flight, nor owed.
Ready(s) == Sane(s) /\ s.aux.on = FALSE /\ s.draining = FALSE /\ s.owed = FALSE

LEMMA SettleKeeps ==
  ASSUME NEW s, Sane(s), NEW answer \in Priors
  PROVE  Follows(s, Settle(s, answer))
<1> DEFINE t == Settle(s, answer)
<1>0. s \in Slots
  BY DEF Sane
<1>1. /\ t \in Slots /\ SameButAux(s, t)
      /\ Settled(s, answer) = "waiting" => /\ s.aux.on /\ t.aux.on = s.aux.on
                                           /\ t.aux.row = s.aux.row
      /\ Settled(s, answer) # "waiting" => t.aux.on = FALSE /\ Settled(s, answer) \in Priors
  BY <1>0, SettleIs
<1> HIDE DEF t
<1>2. t.aux.on => s.aux.on /\ t.aux.row = s.aux.row
  BY <1>1
<1>3. Owing(t) /\ Ending(t) /\ Stowing(t) /\ Asking(t)
  BY <1>1, <1>2 DEF Sane, SameButAux, Owing, Ending, Stowing, Asking, OwesDegrade, SameLife,
                    SameStow, SameHeld
<1>4. Owned(s) => Owned(t)
  BY <1>1, <1>2 DEF SameButAux, Owned, Live, SameLife, SameHeld
<1>5. Disarming(s) => Disarming(t)
  BY <1>1 DEF SameButAux, Disarming, SameLife
<1>6. Sane(t)
  BY <1>1, <1>3, <1>4, <1>5 DEF Sane, SameButAux
<1> QED BY <1>1, <1>6 DEF SameButAux, Follows, Goes, Engages, Asks, Firm, Commanded, Lives,
                          SameLife, SameEngaged, t

\* A step paced into the phase that took it.
LEMMA PacedKeeps ==
  ASSUME NEW s, Ready(s), Live(s), NEW snap, NEW t, PacedAs(s, snap, t),
         "early" \in Hazards \/ s.asked = 0,
         snap.kind = "disarm" => s.phase = "STOPPING"
  PROVE  Follows(s, t) /\ SameLife(s, t) /\ t.engaged = s.engaged /\ t.stow = s.stow
<1>1. Owing(t) /\ Ending(t) /\ Stowing(t) /\ Asking(t)
  BY DEF Ready, PacedAs, Sane, Owing, Ending, Stowing, Asking, SameLife, SameStow, SameHeld
<1>2. "early" \in Hazards \/ Owned(t)
  BY DEF Ready, PacedAs, Owned, Live, SameLife, SameHeld
<1>3. Disarming(t)
  BY DEF PacedAs, Disarming, SameLife
<1>4. Sane(t)
  BY <1>1, <1>2, <1>3 DEF PacedAs, Sane
<1> QED BY <1>4 DEF PacedAs, Follows, Goes, Engages, Asks, Firm, Commanded, Lives, SameLife,
                    SameEngaged, SameStow

\* A phase left with nothing commanded and nothing in flight.
LEMMA LeavesPhase ==
  ASSUME NEW s, Sane(s), s.owed = FALSE, NEW t \in Slots,
         \/ s.phase \in {"STARTING", "STOPPING"} /\ t.phase = "RESTING"
         \/ s.phase = "STARTING" /\ t.phase = "PARKED",
         t.owed = FALSE, t.ending = FALSE, t.asking = FALSE, t.asked = 0,
         t.stow = s.stow, t.engaged = s.engaged, Runs(t.seq), t.seq.kind # "disarm",
         t.aux.on = FALSE
  PROVE  Goes(s, t)
<1>1. s.stow.on = FALSE
  BY SaneIs
<1>2. Owing(t) /\ Ending(t) /\ Stowing(t) /\ Asking(t) /\ Owned(t) /\ Disarming(t)
  BY <1>1 DEF Owing, Ending, Stowing, Asking, Owned, Disarming
<1>3. Sane(t)
  BY <1>2 DEF Sane
<1> QED BY <1>3 DEF Goes, Engages, Asks, Lives

LEMMA MergeRailIs ==
  ASSUME NEW s \in Slots, NEW rail \in [Rows -> Readings], NEW rows
  PROVE  LET t == MergeRail(s, rail, rows)
         IN  /\ t \in Slots /\ SameLife(s, t) /\ SameBus(s, t) /\ SameHeld(s, t) /\ SameStow(s, t)
             /\ SameEngaged(s, t) /\ t.rows = s.rows
<1> DEFINE merged == [r \in Rows |-> IF r \in rows THEN rail[r] ELSE s.rail[r]]
           t == MergeRail(s, rail, rows)
<1>1. merged \in [Rows -> Readings \cup {"stale"}]
  BY DEF Slots
<1>2. t = [s EXCEPT !.rail = merged]
  BY DEF MergeRail
<1> HIDE DEF t, merged
<1>3. /\ t \in Slots /\ SameLife(s, t) /\ SameBus(s, t) /\ SameHeld(s, t) /\ SameStow(s, t)
      /\ SameEngaged(s, t) /\ t.rows = s.rows
  BY <1>1, <1>2 DEF Slots, SameLife, SameBus, SameHeld, SameStow, SameEngaged
<1> QED BY <1>3 DEF t

LEMMA StartsAre ==
  /\ CommissionStart.kind = "commission" /\ DisarmStart.kind = "disarm"
  /\ Stands(Step(CommissionStart, "nothing"), CommissionStart.kind)
  /\ Stands(Step(DisarmStart, "nothing"), DisarmStart.kind)
<1>1. CommissionStart.kind = "commission" /\ DisarmStart.kind = "disarm"
  BY BlankIs DEF CommissionStart, DisarmStart, Snaps
<1> QED BY <1>1, OpensStand

LEMMA SteppedIs ==
  ASSUME NEW s, Sane(s), NEW start \in {CommissionStart, DisarmStart}, NEW prior \in Priors
  PROVE  /\ Stands(Stepped(s, start, prior), start.kind)
         /\ s.seq.kind # start.kind => Stepped(s, start, prior) = Step(start, "nothing")
<1>1. CASE s.seq.kind = start.kind
  <2>1. s.seq # Blank
    BY <1>1, StartsAre, BlankIs
  <2>2. Stands(Step(s.seq, prior), s.seq.kind)
    BY <2>1, StepStands DEF Sane
  <2> QED BY <1>1, <2>2 DEF Stepped
<1>2. CASE s.seq.kind # start.kind
  BY <1>2, StartsAre DEF Stepped
<1> QED BY <1>1, <1>2

\* What a step leaves in the slot it was paced into, said as a turn.
LEMMA PacedTurn ==
  ASSUME NEW s, Ready(s), Live(s), NEW snap, NEW t, PacedAs(s, snap, t),
         "early" \in Hazards \/ s.asked = 0,
         snap.kind = "disarm" => s.phase = "STOPPING"
  PROVE  Ran(s, Turn(t, PacedSays(snap)))
<1>1. Follows(s, t) /\ SameLife(s, t) /\ t.stow = s.stow
  BY PacedKeeps
<1>2. PacedSays(snap) \in {"aux", "none"}
  BY DEF PacedSays
<1> QED BY <1>1, <1>2 DEF Ran, Turn, Follows, Lasts, Cmds, SameLife, Ready

LEMMA CommissionIs ==
  ASSUME NEW s, Ready(s), Live(s), s.phase = "STARTING", NEW prior \in Priors
  PROVE  Ran(s, Commission(s, prior))
<1> DEFINE snap == Stepped(s, CommissionStart, prior)
           t == Paced(s, snap)
           m == MergeRail(t, snap.rail, Rows)
           rest == Enter(m, "RESTING")
           park == Enter(t, "PARKED")
<1>0. /\ Sane(s) /\ s \in Slots /\ s.owed = FALSE /\ s.asked = 0 /\ s.asking = FALSE
      /\ s.ending = FALSE
  <2>1. Sane(s) /\ s \in Slots /\ s.owed = FALSE /\ ~s.ending
    BY DEF Ready, Sane, Ending
  <2> QED BY <2>1, SaneIs
<1>1. Stands(snap, "commission")
  BY <1>0, SteppedIs, StartsAre
<1> HIDE DEF snap
<1>2. PacedAs(s, snap, t) /\ snap \in Snaps /\ snap.kind = "commission"
  BY <1>0, <1>1, PacedIs DEF Ready, Stands
<1> HIDE DEF t
<1>3. Commission(s, prior) =
        CASE Done(snap) -> Turn(rest, "none")
          [] Failed(snap) -> Turn(park, "none")
          [] OTHER -> Turn(t, PacedSays(snap))
  BY DEF Commission, t, snap
<1>4. Done(snap) => ~Failed(snap)
  BY DEF Done, Failed
<1>5. CASE Done(snap)
  <2>1. /\ m \in Slots /\ SameLife(t, m) /\ SameBus(t, m) /\ SameHeld(t, m) /\ SameStow(t, m)
        /\ SameEngaged(t, m) /\ m.rows = t.rows
    BY <1>2, MergeRailIs DEF PacedAs, Snaps
  <2> HIDE DEF m
  <2>2. Entered(m, "RESTING", rest)
    BY <2>1, EnterIs DEF PhaseKinds
  <2> HIDE DEF rest
  <2>3. /\ rest.owed = FALSE /\ rest.ending = FALSE /\ rest.asking = FALSE /\ rest.asked = 0
        /\ rest.stow = s.stow /\ rest.engaged = s.engaged /\ rest.seq = t.seq
        /\ rest.aux.on = t.aux.on
    BY <1>0, <1>2, <2>1, <2>2 DEF Entered, PacedAs, SameLife, SameBus, SameStow, SameEngaged
  <2>4. t.aux.on = FALSE /\ Runs(t.seq) /\ t.seq.kind # "disarm"
    <3>1. t.aux.on \in BOOLEAN
      BY <1>2 DEF PacedAs, Slots
    <3> QED BY <1>2, <1>5, <3>1 DEF PacedAs
  <2>5. Goes(s, rest)
    BY <1>0, <2>2, <2>3, <2>4, LeavesPhase DEF Entered
  <2>6. Commission(s, prior) = Turn(rest, "none")
    BY <1>3, <1>4, <1>5
  <2> QED BY <2>3, <2>5, <2>6 DEF Ran, Turn, Lasts, Cmds
<1>6. CASE Failed(snap)
  <2>2. Entered(t, "PARKED", park)
    BY <1>2, EnterIs DEF PhaseKinds, PacedAs
  <2> HIDE DEF park
  <2>3. /\ park.owed = FALSE /\ park.ending = FALSE /\ park.asking = FALSE /\ park.asked = 0
        /\ park.stow = s.stow /\ park.engaged = s.engaged /\ park.seq = t.seq
        /\ park.aux.on = t.aux.on
    BY <1>0, <1>2, <2>2 DEF Entered, PacedAs, SameLife, SameBus, SameStow, SameEngaged
  <2>4. t.aux.on = FALSE /\ Runs(t.seq) /\ t.seq.kind # "disarm"
    <3>1. t.aux.on \in BOOLEAN
      BY <1>2 DEF PacedAs, Slots
    <3> QED BY <1>2, <1>6, <3>1 DEF PacedAs
  <2>5. Goes(s, park)
    BY <1>0, <2>2, <2>3, <2>4, LeavesPhase DEF Entered
  <2>6. Commission(s, prior) = Turn(park, "none")
    BY <1>3, <1>4, <1>6
  <2> QED BY <2>3, <2>5, <2>6 DEF Ran, Turn, Lasts, Cmds
<1>7. CASE ~Done(snap) /\ ~Failed(snap)
  <2>1. Commission(s, prior) = Turn(t, PacedSays(snap))
    BY <1>3, <1>7
  <2> QED BY <1>0, <1>2, <2>1, PacedTurn
<1> QED BY <1>5, <1>6, <1>7

\* A turn of an engagement leaves it under way, or at rest with nothing owed.
Tried(turn) == turn.slot.phase \in {"ENGAGING", "RESTING"} /\ turn.slot.owed = FALSE

\* An engagement that came to nothing.
LEMMA RestedIs ==
  ASSUME NEW s, Ready(s), s.phase = "ENGAGING"
  PROVE  Ran(s, Rested(s)) /\ Tried(Rested(s))
<1> DEFINE b == [s EXCEPT !.asking = FALSE]
           t == Enter(b, "RESTING")
<1>0. s \in Slots /\ Sane(s) /\ s.owed = FALSE /\ s.ending = FALSE
  <2>1. s \in Slots /\ Sane(s) /\ s.owed = FALSE /\ ~s.ending
    BY DEF Ready, Sane, Ending
  <2> QED BY <2>1, SaneIs
<1>1. /\ b \in Slots /\ b.asking = FALSE
      /\ b.phase = s.phase /\ b.owed = s.owed /\ b.ending = s.ending /\ b.asked = s.asked
      /\ SameBus(s, b) /\ SameStow(s, b) /\ SameEngaged(s, b)
  BY <1>0 DEF Slots, SameBus, SameStow, SameEngaged
<1> HIDE DEF b
<1>2. Entered(b, "RESTING", t)
  BY <1>1, EnterIs DEF PhaseKinds
<1> HIDE DEF t
<1>3. /\ t \in Slots /\ t.phase = "RESTING"
      /\ t.owed = FALSE /\ t.ending = FALSE /\ t.asking = FALSE /\ t.asked = 0
      /\ SameStow(s, t) /\ SameEngaged(s, t) /\ t.seq = s.seq /\ t.aux = s.aux
  BY <1>0, <1>1, <1>2 DEF Entered, SameBus, SameStow, SameEngaged
<1>4. Runs(t.seq) /\ ~t.aux.on
  BY <1>3 DEF Ready, Sane
<1>5. Follows(s, t)
  BY <1>0, <1>3, <1>4, LeavesEngaging
<1>6. Rested(s) = Turn(t, "none")
  BY DEF Rested, t, b
<1> QED BY <1>3, <1>5, <1>6 DEF Ran, Turn, Tried, Follows, Lasts, SameStow, Cmds

\* The ask itself: torque is asked for of the rows the rail shows fit.
LEMMA AsksOfFit ==
  ASSUME NEW s, Ready(s), s.phase = "ENGAGING", s.seq.kind # "poll",
         Stale(s) = {}, ~GatesRefuse(s)
  PROVE  LET turn == Turn([s EXCEPT !.rows = Rows \ Flagged(s), !.asked = 1], "engage")
         IN  Ran(s, turn) /\ Tried(turn)
<1> DEFINE rows == Rows \ Flagged(s)
           t == [s EXCEPT !.rows = rows, !.asked = 1]
<1>0. s \in Slots /\ Sane(s) /\ s.owed = FALSE
  BY DEF Ready, Sane
<1>1. rows \in SUBSET Rows /\ 1 \in 0..(EngageBudget + 1)
  BY Spare
<1> HIDE DEF rows
<1>2. /\ t \in Slots /\ t.asked = 1 /\ t.rows = rows /\ t.rail = s.rail
      /\ t.phase = s.phase /\ t.owed = s.owed /\ t.ending = s.ending /\ t.asking = s.asking
      /\ SameBus(s, t) /\ SameHeld(s, t) /\ SameStow(s, t) /\ SameEngaged(s, t)
  BY <1>0, <1>1 DEF Slots, SameBus, SameHeld, SameStow, SameEngaged
<1> HIDE DEF t
<1>3. Fit(t)
  <2> SUFFICES ASSUME NEW r \in Rows
               PROVE  \/ t.rail[r] = "good" /\ r \in t.rows
                      \/ t.rail[r] = "flagged" /\ r \in Antennas \ t.rows
    BY DEF Fit
  <2>1. s.rail[r] \in Readings \cup {"stale"}
    BY <1>0 DEF Slots
  <2>2. s.rail[r] # "stale" /\ s.rail[r] # "low"
    BY DEF Stale, GatesRefuse
  <2>3. s.rail[r] = "flagged" => r \notin Heads
    BY DEF Flagged, GatesRefuse
  <2>4. r \in rows <=> s.rail[r] # "flagged"
    BY DEF rows, Flagged
  <2> QED BY <1>2, <2>1, <2>2, <2>3, <2>4 DEF Readings, Heads
<1>4. Owing(t) /\ Ending(t) /\ Stowing(t) /\ Asking(t)
  BY <1>0, <1>2 DEF Sane, Owing, Ending, Stowing, Asking, SameStow, SameHeld
<1>5. Owned(t)
  BY <1>2 DEF Ready, Owned, SameBus
<1>6. Disarming(s) => Disarming(t)
  BY <1>2 DEF Disarming, SameBus
<1>7. Sane(t)
  BY <1>0, <1>2, <1>4, <1>5, <1>6 DEF Sane, SameBus
<1>8. Goes(s, t)
  BY <1>2, <1>3, <1>7 DEF Goes, Engages, Asks, Lives, SameEngaged
<1>9. Ran(s, Turn(t, "engage")) /\ Tried(Turn(t, "engage"))
  BY <1>0, <1>2, <1>8 DEF Ran, Turn, Tried, Lasts, Cmds, SameStow
<1> QED BY <1>9 DEF t, rows

\* An engagement that has not asked polls what is stale, or asks, or gives up.
LEMMA AskIs ==
  ASSUME NEW s, Ready(s), s.phase = "ENGAGING", s.seq.kind # "poll"
  PROVE  Ran(s, Ask(s)) /\ Tried(Ask(s))
<1> DEFINE poll == Step(PollStart(Stale(s)), "nothing")
           t == Paced(s, poll)
<1>0. s \in Slots /\ Sane(s) /\ s.owed = FALSE
  BY DEF Ready, Sane
<1>1. CASE s.asked # 0
  <2>1. Ask(s) = Turn(s, "engage")
    BY <1>1 DEF Ask
  <2>2. Goes(s, s)
    BY <1>0, Stays DEF Follows
  <2> QED BY <1>0, <2>1, <2>2 DEF Ran, Turn, Tried, Lasts, Cmds
<1>2. CASE s.asked = 0 /\ Stale(s) # {}
  <2>1. Ask(s) = Turn(t, PacedSays(poll))
    BY <1>2 DEF Ask
  <2>2. Stale(s) \in SUBSET Rows
    BY DEF Stale
  <2>3. Stands(poll, "poll")
    BY <2>2, OpensStand
  <2> HIDE DEF poll
  <2>4. PacedAs(s, poll, t) /\ poll.kind = "poll"
    BY <1>0, <2>3, PacedIs DEF Ready, Stands
  <2> HIDE DEF t
  <2>5. Live(s)
    BY DEF Live
  <2>6. Tried(Ask(s))
    BY <1>0, <2>1, <2>4 DEF Tried, Turn, PacedAs, SameLife
  <2> QED BY <1>2, <2>1, <2>4, <2>5, <2>6, PacedTurn
<1>3. CASE s.asked = 0 /\ Stale(s) = {} /\ GatesRefuse(s)
  BY <1>3, RestedIs DEF Ask
<1>4. CASE s.asked = 0 /\ Stale(s) = {} /\ ~GatesRefuse(s)
  BY <1>4, AsksOfFit DEF Ask
<1> QED BY <1>1, <1>2, <1>3, <1>4

\* One turn after what changed neither the life nor the stow.
LEMMA RanOn ==
  ASSUME NEW s, NEW t, Follows(s, t), SameLife(s, t), t.engaged = s.engaged, t.stow = s.stow,
         NEW turn, Ran(t, turn)
  PROVE  Ran(s, turn)
BY DEF Follows, Goes, Ran, Lasts, Engages, Asks, Lives, SameLife

LEMMA EngageIs ==
  ASSUME NEW s, Ready(s), s.phase = "ENGAGING", NEW prior \in Priors
  PROVE  Ran(s, Engage(s, prior)) /\ Tried(Engage(s, prior))
<1> DEFINE snap == Step(s.seq, prior)
           t == Paced(s, snap)
           m == MergeRail(t, snap.rail, snap.rows)
<1>0. s \in Slots /\ Sane(s) /\ s.owed = FALSE
  BY DEF Ready, Sane
<1>1. Engage(s, prior) =
        IF SilentTooLong(s) THEN Rested(s)
        ELSE IF s.seq.kind # "poll" THEN Ask(s)
        ELSE IF Done(snap) THEN Ask(m)
        ELSE IF Failed(snap) THEN Rested(t) ELSE Turn(t, PacedSays(snap))
  BY DEF Engage
<1>2. CASE SilentTooLong(s)
  BY <1>1, <1>2, RestedIs
<1>3. CASE ~SilentTooLong(s) /\ s.seq.kind # "poll"
  BY <1>1, <1>3, AskIs
<1>4. CASE ~SilentTooLong(s) /\ s.seq.kind = "poll"
  <2>1. s.seq # Blank
    BY <1>4, BlankIs
  <2>2. Stands(snap, "poll")
    BY <1>0, <1>4, <2>1, StepStands DEF Sane
  <2> HIDE DEF snap
  <2>3. PacedAs(s, snap, t) /\ snap \in Snaps /\ snap.kind = "poll"
    BY <1>0, <2>2, PacedIs DEF Ready, Stands
  <2> HIDE DEF t
  <2>4. Live(s) /\ ("early" \in Hazards \/ s.asked = 0)
    BY <1>0, <1>4 DEF Live, Sane, Owned
  <2>5. Follows(s, t) /\ SameLife(s, t) /\ t.engaged = s.engaged /\ t.stow = s.stow
    BY <2>3, <2>4, PacedKeeps
  <2>6. Done(snap) \/ Failed(snap) => Ready(t) /\ t.seq.kind = "none" /\ t.phase = "ENGAGING"
    <3>1. t.aux.on \in BOOLEAN
      BY <2>3 DEF PacedAs, Slots
    <3> QED BY <2>3, <2>5, <3>1 DEF PacedAs, Ready, Follows, Goes, SameLife
  <2>7. CASE Done(snap)
    <3>1. /\ m \in Slots /\ SameLife(t, m) /\ SameBus(t, m) /\ SameHeld(t, m) /\ SameStow(t, m)
          /\ SameEngaged(t, m)
      BY <2>3, MergeRailIs DEF PacedAs, Snaps
    <3> HIDE DEF m
    <3>2. Follows(t, m)
      <4>1. Sane(t)
        BY <2>5 DEF Follows, Goes
      <4> QED BY <3>1, <4>1, FiledKeeps
    <3>3. /\ SameLife(s, m) /\ m.engaged = s.engaged /\ m.stow = s.stow
          /\ m.seq = t.seq /\ m.aux = t.aux /\ m.draining = t.draining
      BY <2>5, <3>1 DEF SameLife, SameBus, SameStow, SameEngaged
    <3>4. Follows(s, m)
      <4>1. s.asked = 0 => t.asked = 0
        BY <2>5 DEF SameLife
      <4> QED BY <1>0, <2>5, <3>2, <4>1, FollowsOn
    <3>5. Ready(m) /\ m.seq.kind # "poll" /\ m.phase = "ENGAGING"
      BY <2>6, <2>7, <3>2, <3>3, <3>1 DEF Ready, Follows, Goes, SameLife
    <3>6. Ran(m, Ask(m)) /\ Tried(Ask(m))
      BY <3>5, AskIs
    <3> QED BY <1>1, <1>4, <2>7, <3>3, <3>4, <3>6, RanOn
  <2>8. CASE ~Done(snap) /\ Failed(snap)
    <3>1. Ran(t, Rested(t)) /\ Tried(Rested(t))
      BY <2>6, <2>8, RestedIs
    <3> QED BY <1>1, <1>4, <2>5, <2>8, <3>1, RanOn
  <2>9. CASE ~Done(snap) /\ ~Failed(snap)
    <3>1. Ran(s, Turn(t, PacedSays(snap)))
      BY <2>3, <2>4, PacedTurn
    <3>2. Tried(Turn(t, PacedSays(snap)))
      BY <1>0, <2>5 DEF Tried, Turn, SameLife
    <3> QED BY <1>1, <1>4, <2>9, <3>1, <3>2
  <2> QED BY <2>7, <2>8, <2>9
<1> QED BY <1>2, <1>3, <1>4

\* A release or a degrade that did not take is a torque-off unconfirmed.
LEMMA UnconfirmedIs ==
  ASSUME NEW s, Sane(s)
  PROVE  Ran(s, Unconfirmed(s))
<1> DEFINE t == RecordFault(s, "TorqueOffUnconfirmed")
<1>1. "TorqueOffUnconfirmed" \in FaultKinds /\ Timely(s, "TorqueOffUnconfirmed")
      /\ Response("TorqueOffUnconfirmed") = "offPark"
  BY DEF FaultKinds, Timely, Response
<1>2. Follows(s, t) /\ ~(t.stow.on /\ StowsFor(t.stow.ending))
  BY <1>1, RecordFaultIs
<1>3. Unconfirmed(s) = Turn(t, IF t.owed THEN "release" ELSE "none")
  BY DEF Unconfirmed
<1> HIDE DEF t
<1> QED BY <1>2, <1>3 DEF Ran, Turn, Follows, Lasts, Cmds

\* A let-down whose disarm has only now begun is not over in the same turn.
LEMMA LettingGoIs ==
  ASSUME NEW s, Ready(s), s.phase = "STOPPING", NEW prior \in Priors
  PROVE  /\ Ran(s, LettingGo(s, prior))
         /\ s.seq.kind # "disarm" =>
              LettingGo(s, prior).slot.phase = "STOPPING" /\ LettingGo(s, prior).slot.owed = FALSE
<1> DEFINE snap == Stepped(s, DisarmStart, prior)
           t == Paced(s, snap)
           rest == Enter(t, "RESTING")
<1>0. /\ Sane(s) /\ s \in Slots /\ s.owed = FALSE /\ s.asked = 0 /\ s.asking = FALSE
      /\ s.ending = FALSE /\ Live(s)
  <2>1. Sane(s) /\ s \in Slots /\ s.owed = FALSE /\ ~s.ending /\ Live(s)
    BY DEF Ready, Sane, Ending, Live
  <2> QED BY <2>1, SaneIs
<1>1. Stands(snap, "disarm") /\ (s.seq.kind # "disarm" => ~Done(snap))
  BY <1>0, SteppedIs, StartsAre, DisarmGoesOn
<1> HIDE DEF snap
<1>2. PacedAs(s, snap, t) /\ snap \in Snaps /\ snap.kind = "disarm"
  BY <1>0, <1>1, PacedIs DEF Ready, Stands
<1> HIDE DEF t
<1>3. Follows(s, t) /\ SameLife(s, t) /\ t.engaged = s.engaged /\ t.stow = s.stow
  BY <1>0, <1>2, PacedKeeps
<1>4. LettingGo(s, prior) =
        CASE Done(snap) /\ Unreleased(snap) # {} -> Unconfirmed(t)
          [] Done(snap) /\ Unreleased(snap) = {} -> Turn(rest, "none")
          [] OTHER -> Turn(t, PacedSays(snap))
  BY DEF LettingGo, t, snap
<1>5. CASE Done(snap) /\ Unreleased(snap) # {}
  <2>1. Ran(t, Unconfirmed(t))
    BY <1>3, UnconfirmedIs DEF Follows, Goes
  <2>2. Ran(s, Unconfirmed(t))
    BY <1>3, <2>1, RanOn
  <2> QED BY <1>1, <1>4, <1>5, <2>2
<1>6. CASE Done(snap) /\ Unreleased(snap) = {}
  <2>1. Entered(t, "RESTING", rest)
    BY <1>2, EnterIs DEF PhaseKinds, PacedAs
  <2> HIDE DEF rest
  <2>2. /\ rest.owed = FALSE /\ rest.ending = FALSE /\ rest.asking = FALSE /\ rest.asked = 0
        /\ rest.stow = s.stow /\ rest.engaged = s.engaged /\ rest.seq = t.seq
        /\ rest.aux.on = t.aux.on
    BY <1>0, <1>2, <2>1 DEF Entered, PacedAs, SameLife, SameBus, SameStow, SameEngaged
  <2>3. t.aux.on = FALSE /\ Runs(t.seq) /\ t.seq.kind # "disarm"
    <3>1. t.aux.on \in BOOLEAN
      BY <1>2 DEF PacedAs, Slots
    <3> QED BY <1>2, <1>6, <3>1 DEF PacedAs
  <2>4. rest \in Slots /\ rest.phase = "RESTING"
    BY <2>1 DEF Entered
  <2>5. Goes(s, rest)
    BY <1>0, <2>2, <2>3, <2>4, LeavesPhase
  <2>6. LettingGo(s, prior) = Turn(rest, "none")
    BY <1>4, <1>6
  <2>7. Ran(s, Turn(rest, "none"))
    BY <2>2, <2>5 DEF Ran, Turn, Lasts, Cmds
  <2> QED BY <1>1, <1>6, <2>6, <2>7
<1>7. CASE ~Done(snap)
  <2>1. LettingGo(s, prior) = Turn(t, PacedSays(snap))
    BY <1>4, <1>7
  <2>2. Ran(s, Turn(t, PacedSays(snap)))
    BY <1>0, <1>2, PacedTurn
  <2>3. t.phase = "STOPPING" /\ t.owed = FALSE
    BY <1>0, <1>3 DEF SameLife
  <2> QED BY <2>1, <2>2, <2>3 DEF Turn
<1> QED BY <1>5, <1>6, <1>7

\* A turn that says nothing or says a transaction over again.
LEMMA Quietly ==
  ASSUME NEW s, Sane(s), s.owed = FALSE, NEW t, Follows(s, t), SameLife(s, t), t.stow = s.stow,
         NEW says \in {"none", "aux"}
  PROVE  Ran(s, Turn(t, says))
BY DEF Ran, Turn, Follows, Lasts, Cmds, SameLife

\* One turn of the phase's sequence, the answer it waited for in hand or not.
LEMMA RunIs ==
  ASSUME NEW s, Sane(s), s.owed = FALSE, s.draining = FALSE, NEW answer \in Priors
  PROVE  /\ Ran(s, Run(s, answer))
         /\ s.phase = "STOPPING" /\ s.seq.kind # "disarm" =>
              Run(s, answer).slot.phase = "STOPPING" /\ Run(s, answer).slot.owed = FALSE
<1> DEFINE out == Settled(s, answer)
           t == Settle(s, answer)
           Over(turn) == /\ Ran(s, turn)
                         /\ s.phase = "STOPPING" /\ s.seq.kind # "disarm" =>
                              turn.slot.phase = "STOPPING" /\ turn.slot.owed = FALSE
<1>0. s \in Slots
  BY DEF Sane
<1>1. /\ t \in Slots /\ SameButAux(s, t)
      /\ out # "waiting" => t.aux.on = FALSE /\ out \in Priors
  BY <1>0, SettleIs
<1>2. Follows(s, t)
  BY SettleKeeps
<1> HIDE DEF t, out
<1>3. /\ SameLife(s, t) /\ t.engaged = s.engaged /\ t.stow = s.stow /\ t.seq = s.seq
      /\ t.draining = FALSE /\ t.saw = s.saw /\ t.owed = FALSE /\ t.phase = s.phase
  BY <1>1 DEF SameButAux, SameEngaged, SameStow, SameHeld, SameLife
<1>4. ASSUME NEW says \in {"none", "aux"} PROVE Over(Turn(t, says))
  <2>1. Ran(s, Turn(t, says))
    BY <1>2, <1>3, Quietly
  <2> QED BY <1>3, <2>1 DEF Turn
<1>5. CASE ~Live(s)
  <2>1. Run(s, answer) = Turn(s, "none")
    BY <1>5 DEF Run
  <2>2. Follows(s, s) /\ SameLife(s, s)
    BY Stays DEF SameLife
  <2>3. Ran(s, Turn(s, "none"))
    BY <2>2, Quietly
  <2>4. s.phase # "STOPPING"
    BY <1>5 DEF Live
  <2> QED BY <2>1, <2>3, <2>4
<1>6. CASE Live(s) /\ out = "waiting"
  <2>1. Run(s, answer) = Turn(t, IF Resends(s, answer) THEN "aux" ELSE "none")
    BY <1>6 DEF Run, RunPhase, t, out
  <2> QED BY <1>4, <2>1
<1>7. CASE Live(s) /\ out = "nothing" /\ t.wait > 0
  <2>1. Run(s, answer) = Turn(t, "none")
    BY <1>7 DEF Run, RunPhase, t, out
  <2> QED BY <1>4, <2>1
<1>8. CASE Live(s) /\ out # "waiting" /\ ~(out = "nothing" /\ t.wait > 0)
  <2>1. Ready(t) /\ Live(t) /\ out \in Priors
    BY <1>1, <1>2, <1>3, <1>8 DEF Ready, Follows, Goes, Live
  <2>2. Run(s, answer) = CASE s.phase = "STARTING" -> Commission(t, out)
                           [] s.phase = "ENGAGING" -> Engage(t, out)
                           [] OTHER -> LettingGo(t, out)
    BY <1>8 DEF Run, RunPhase, t, out
  <2>3. CASE s.phase = "STARTING"
    <3>1. Ran(t, Commission(t, out))
      BY <1>3, <2>1, <2>3, CommissionIs
    <3>2. Ran(s, Commission(t, out))
      BY <1>2, <1>3, <3>1, RanOn
    <3> QED BY <2>2, <2>3, <3>2
  <2>4. CASE s.phase = "ENGAGING"
    <3>1. Ran(t, Engage(t, out))
      BY <1>3, <2>1, <2>4, EngageIs
    <3>2. Ran(s, Engage(t, out))
      BY <1>2, <1>3, <3>1, RanOn
    <3> QED BY <2>2, <2>4, <3>2
  <2>5. CASE s.phase = "STOPPING"
    <3>1. /\ Ran(t, LettingGo(t, out))
          /\ s.seq.kind # "disarm" =>
               LettingGo(t, out).slot.phase = "STOPPING" /\ LettingGo(t, out).slot.owed = FALSE
      BY <1>3, <2>1, <2>5, LettingGoIs
    <3>2. Ran(s, LettingGo(t, out))
      BY <1>2, <1>3, <3>1, RanOn
    <3>3. Run(s, answer) = LettingGo(t, out)
      BY <2>2, <2>5
    <3> QED BY <3>1, <3>2, <3>3
  <2> QED BY <1>8, <2>3, <2>4, <2>5 DEF Live
<1> QED BY <1>5, <1>6, <1>7, <1>8

-----------------------------------------------------------------------------
(* A degrade, and the turn of the bus.                                     *)

LEMMA LowestIs ==
  ASSUME NEW rows \in SUBSET Rows, rows # {}
  PROVE  Lowest(rows) \in rows /\ Lowest(rows) \in 0..N /\ Lowest(rows) # NoRow
<1>1. rows \in SUBSET Nat
  BY SequencerConstants DEF SequencerConstants, Rows
<1>2. Least(rows) \in rows
  BY <1>1, LeastIs
<1>3. Lowest(rows) = Least(rows)
  BY DEF Lowest, Least
<1>4. N \in Nat /\ Lowest(rows) \in 0..(N - 1)
  BY <1>2, <1>3, Spare DEF Rows
<1> QED BY <1>2, <1>3, <1>4 DEF NoRow

\* The degrade's next row, once the one before it is done with.
LEMMA NextLimpIs ==
  ASSUME NEW s, Ready(s)
  PROVE  /\ Ran(s, NextLimp(s))
         /\ NextLimp(s).slot.phase = s.phase /\ NextLimp(s).slot.owed = FALSE
         /\ NextLimp(s).cmd \in {"none", "aux"}
<1> DEFINE row == Lowest(s.limp)
           u == Issue(s, row)
           t == [u EXCEPT !.draining = TRUE]
<1>0. s \in Slots /\ Sane(s) /\ s.owed = FALSE
  BY DEF Ready, Sane
<1>1. CASE s.limp = {}
  <2>1. NextLimp(s) = Turn(s, "none")
    BY <1>1 DEF NextLimp
  <2>2. Follows(s, s)
    BY <1>0, Stays
  <2> QED BY <1>0, <2>1, <2>2 DEF Ran, Turn, Follows, Lasts, Cmds
<1>2. CASE s.limp # {}
  <2>0. s.limp \in SUBSET Rows
    BY <1>0 DEF Slots
  <2>1. row \in 0..N /\ row # NoRow
    BY <1>2, <2>0, LowestIs
  <2>2. NextLimp(s) = Turn(t, "aux")
    BY <1>2 DEF NextLimp
  <2> HIDE DEF row
  <2>3. u \in Slots /\ u.aux.on = TRUE /\ u.aux.row = row /\ SameButAux(s, u)
    BY <1>0, <2>1, IssueIs
  <2> HIDE DEF u
  <2>4. /\ t \in Slots /\ t.draining = TRUE /\ t.aux = u.aux /\ SameLife(u, t) /\ SameRail(u, t)
        /\ SameHeld(u, t) /\ SameStow(u, t) /\ SameEngaged(u, t) /\ t.seq = u.seq
    BY <2>3 DEF Slots, SameLife, SameRail, SameHeld, SameStow, SameEngaged
  <2> HIDE DEF t
  <2>5. /\ SameLife(s, t) /\ SameHeld(s, t) /\ t.stow = s.stow /\ t.engaged = s.engaged
        /\ t.seq = s.seq /\ t.aux.on = TRUE /\ t.aux.row = row
    BY <2>3, <2>4 DEF SameButAux, SameLife, SameHeld, SameStow, SameEngaged
  <2>6. Owing(t) /\ Ending(t) /\ Stowing(t) /\ Asking(t)
    BY <1>0, <2>5 DEF Sane, Owing, Ending, Stowing, Asking, SameLife, SameHeld
  <2>7. Owned(s) => Owned(t)
    BY <2>1, <2>4, <2>5 DEF Owned, SameLife
  <2>8. Disarming(s) => Disarming(t)
    BY <2>5 DEF Disarming, SameLife
  <2>9. Sane(t)
    BY <1>0, <2>4, <2>5, <2>6, <2>7, <2>8 DEF Sane
  <2>10. Goes(s, t)
    BY <2>5, <2>9 DEF Goes, Engages, Asks, Lives, SameLife
  <2> QED BY <1>0, <2>2, <2>5, <2>10 DEF Ran, Turn, Lasts, Cmds, SameLife
<1> QED BY <1>1, <1>2

\* A degrade stopped asking about the row in flight, which may be done with.
LEMMA StoppedIs ==
  ASSUME NEW s, Sane(s), s.owed = FALSE, s.aux.on = FALSE, NEW limp \in SUBSET Rows
  PROVE  LET t == [s EXCEPT !.draining = FALSE, !.limp = limp]
         IN  /\ Ready(t) /\ Follows(s, t) /\ SameLife(s, t) /\ t.stow = s.stow
             /\ t.engaged = s.engaged /\ t.seq = s.seq
<1> DEFINE t == [s EXCEPT !.draining = FALSE, !.limp = limp]
<1>0. s \in Slots
  BY DEF Sane
<1>1. /\ t \in Slots /\ t.draining = FALSE /\ SameLife(s, t) /\ SameHeld(s, t)
      /\ SameStow(s, t) /\ SameEngaged(s, t) /\ t.seq = s.seq /\ t.aux = s.aux
  BY <1>0 DEF Slots, SameLife, SameHeld, SameStow, SameEngaged
<1> HIDE DEF t
<1>2. Owing(t) /\ Ending(t) /\ Stowing(t) /\ Asking(t)
  BY <1>1 DEF Sane, Owing, Ending, Stowing, Asking, SameLife, SameHeld, SameStow
<1>3. Owned(s) => Owned(t)
  BY <1>1 DEF Owned, SameLife
<1>4. Disarming(s) => Disarming(t)
  BY <1>1 DEF Disarming, SameLife
<1>5. Sane(t)
  BY <1>1, <1>2, <1>3, <1>4 DEF Sane
<1>6. Follows(s, t)
  BY <1>1, <1>5 DEF Follows, Goes, Engages, Asks, Firm, Commanded, Lives, SameLife, SameEngaged
<1>7. Ready(t)
  BY <1>1, <1>5 DEF Ready, SameLife
<1> QED BY <1>1, <1>6, <1>7 DEF t, SameStow, SameEngaged


\* With no stow under way to be judged, that is a park.
LEMMA UnconfirmedParks ==
  ASSUME NEW s, Sane(s), s.owed = FALSE, s.stow.on = FALSE
  PROVE  Unconfirmed(s).slot.phase = "PARKED" /\ Unconfirmed(s).slot.owed = TRUE
<1> DEFINE t == ReleasedInto(s, "PARKED")
<1>1. /\ s \in Slots
      /\ s.phase # "ENGAGING" => ~s.asking /\ s.asked = 0
      /\ s.phase = "PARKED" => s.ending = FALSE
  BY SaneIs
<1>2. t.phase = "PARKED" /\ t.owed = TRUE
  BY <1>1, ReleasedIntoIs DEF PhaseKinds
<1>3. Response("TorqueOffUnconfirmed") = "offPark"
  BY DEF Response
<1>4. RecordFault(s, "TorqueOffUnconfirmed") = t
  BY <1>3 DEF RecordFault, AnswerFault
<1> HIDE DEF t
<1> QED BY <1>2, <1>4 DEF Unconfirmed, Turn

\* One turn of the degrade, in whatever phase: a transaction that did not come
\* back good is a torque-off unconfirmed.
LEMMA DegradeIs ==
  ASSUME NEW s, Sane(s), s.owed = FALSE, s.draining \/ ~s.aux.on, NEW answer \in Priors
  PROVE  /\ Ran(s, Degrade(s, answer))
         /\ \/ Degrade(s, answer).slot.phase = s.phase /\ Degrade(s, answer).slot.owed = FALSE
            \/ Degrade(s, answer).slot.phase = "PARKED" /\ Degrade(s, answer).slot.owed = TRUE
            \/ s.stow.on = TRUE
<1> DEFINE out == IF s.draining THEN Settled(s, answer) ELSE "nothing"
           t == IF s.draining THEN Settle(s, answer) ELSE s
           done == [t EXCEPT !.draining = FALSE]
           less == [done EXCEPT !.limp = done.limp \ {s.aux.row}]
<1>0. s \in Slots /\ s.draining \in BOOLEAN /\ s.aux.on \in BOOLEAN
  BY SaneIs
<1>1. /\ t \in Slots /\ SameButAux(s, t) /\ Follows(s, t)
      /\ out # "waiting" => t.aux.on = FALSE /\ out \in Priors
      /\ ~s.draining => out = "nothing"
  <2>1. SameButAux(s, s)
    BY DEF SameButAux, SameLife, SameRail, SameHeld, SameStow, SameEngaged
  <2> QED BY <1>0, <2>1, SettleIs, SettleKeeps, Stays DEF Priors
<1>2. t.limp \in SUBSET Rows
  BY <1>1 DEF Slots
<1>3. Degrade(s, answer) =
        CASE out = "waiting" -> Turn(t, IF Resends(s, answer) THEN "aux" ELSE "none")
          [] out = "nothing" -> NextLimp(done)
          [] out = "ok" -> NextLimp(less)
          [] OTHER -> Unconfirmed(done)
  BY DEF Degrade
<1>4. done = [t EXCEPT !.draining = FALSE, !.limp = t.limp]
  BY <1>1 DEF Slots
<1>5. less = [t EXCEPT !.draining = FALSE, !.limp = t.limp \ {s.aux.row}]
  BY <1>1 DEF Slots
<1>6. /\ SameLife(s, t) /\ t.engaged = s.engaged /\ t.stow = s.stow /\ t.owed = FALSE
      /\ t.phase = s.phase /\ Sane(t)
  BY <1>1 DEF SameButAux, SameEngaged, SameStow, SameLife, Follows, Goes
<1> HIDE DEF out, t, done, less
<1>8. CASE out = "waiting"
  <2> DEFINE says == IF Resends(s, answer) THEN "aux" ELSE "none"
  <2>1. Degrade(s, answer) = Turn(t, says) /\ says \in {"none", "aux"}
    BY <1>3, <1>8
  <2> HIDE DEF says
  <2>2. Ran(s, Turn(t, says))
    BY <1>1, <1>6, <2>1, Quietly
  <2> QED BY <1>6, <2>1, <2>2 DEF Turn
<1>9. CASE out = "nothing"
  <2>1. /\ Ready(done) /\ Follows(t, done) /\ SameLife(t, done) /\ done.stow = t.stow
        /\ done.engaged = t.engaged
    BY <1>1, <1>2, <1>4, <1>6, <1>9, StoppedIs
  <2>2. Degrade(s, answer) = NextLimp(done)
    BY <1>3, <1>9
  <2>3. /\ Ran(done, NextLimp(done))
        /\ NextLimp(done).slot.phase = done.phase /\ NextLimp(done).slot.owed = FALSE
    BY <2>1, NextLimpIs
  <2>4. Ran(t, NextLimp(done))
    BY <2>1, <2>3, RanOn
  <2>5. Ran(s, NextLimp(done))
    BY <1>1, <1>6, <2>4, RanOn
  <2> QED BY <1>6, <2>1, <2>2, <2>3, <2>5 DEF SameLife
<1>10. CASE out = "ok"
  <2>1. /\ Ready(less) /\ Follows(t, less) /\ SameLife(t, less) /\ less.stow = t.stow
        /\ less.engaged = t.engaged
    <3>1. t.limp \ {s.aux.row} \in SUBSET Rows
      BY <1>2
    <3> QED BY <1>1, <1>5, <1>6, <1>10, <3>1, StoppedIs
  <2>2. Degrade(s, answer) = NextLimp(less)
    BY <1>3, <1>10
  <2>3. /\ Ran(less, NextLimp(less))
        /\ NextLimp(less).slot.phase = less.phase /\ NextLimp(less).slot.owed = FALSE
    BY <2>1, NextLimpIs
  <2>4. Ran(t, NextLimp(less))
    BY <2>1, <2>3, RanOn
  <2>5. Ran(s, NextLimp(less))
    BY <1>1, <1>6, <2>4, RanOn
  <2> QED BY <1>6, <2>1, <2>2, <2>3, <2>5 DEF SameLife
<1>11. CASE out \notin {"waiting", "nothing", "ok"}
  <2>1. /\ Ready(done) /\ Follows(t, done) /\ SameLife(t, done) /\ done.stow = t.stow
        /\ done.engaged = t.engaged
    BY <1>1, <1>2, <1>4, <1>6, <1>11, StoppedIs
  <2>2. Degrade(s, answer) = Unconfirmed(done)
    BY <1>3, <1>11
  <2>3. Ran(done, Unconfirmed(done))
    BY <2>1, UnconfirmedIs DEF Ready
  <2>4. Ran(t, Unconfirmed(done))
    BY <2>1, <2>3, RanOn
  <2>5. Ran(s, Unconfirmed(done))
    BY <1>1, <1>6, <2>4, RanOn
  <2>6. s.stow.on \in BOOLEAN
    BY SaneIs
  <2>7. s.stow.on = FALSE =>
          Unconfirmed(done).slot.phase = "PARKED" /\ Unconfirmed(done).slot.owed = TRUE
    BY <1>6, <2>1, UnconfirmedParks DEF Ready
  <2> QED BY <2>2, <2>5, <2>6, <2>7
<1> QED BY <1>8, <1>9, <1>10, <1>11

\* A turn that says nothing may hold the machine against its dead-man instead.
LEMMA KeptIs ==
  ASSUME NEW s, NEW turn, Ran(s, turn)
  PROVE  Ran(s, Kept(turn)) /\ Kept(turn).slot = turn.slot
BY DEF Ran, Kept, Turn, Cmds


\* A schedule run out ends the session where it stands.
LEMMA EndsIs ==
  ASSUME NEW s, Sane(s), s.phase = "ACTIVE"
  PROVE  LET t == Enter(s, "STOPPING")
         IN  /\ Goes(s, t) /\ t.phase = "STOPPING" /\ t.owed = FALSE /\ s.owed = FALSE
             /\ t.stow = s.stow /\ t.stow.on = FALSE /\ t.engaged = s.engaged
             /\ t.asked = 0 /\ SameBus(s, t)
<1> DEFINE t == Enter(s, "STOPPING")
<1>0. /\ s \in Slots /\ s.owed = FALSE /\ s.ending = FALSE /\ s.asking = FALSE /\ s.asked = 0
      /\ s.stow.on = FALSE
  <2>1. ~s.ending
    BY DEF Sane, Ending
  <2> QED BY <2>1, SaneIs
<1>1. Entered(s, "STOPPING", t)
  BY <1>0, EnterIs DEF PhaseKinds
<1> HIDE DEF t
<1>2. /\ t \in Slots /\ t.phase = "STOPPING" /\ t.owed = FALSE /\ t.ending = FALSE
      /\ t.asking = FALSE /\ t.asked = 0 /\ t.stow = s.stow /\ t.engaged = s.engaged
      /\ SameBus(s, t)
  BY <1>0, <1>1 DEF Entered, SameStow, SameEngaged
<1>3. Owing(t) /\ Ending(t) /\ Stowing(t) /\ Asking(t)
  BY <1>0, <1>2 DEF Owing, Ending, Stowing, Asking
<1>4. Owned(s) => Owned(t)
  BY <1>2 DEF Owned, Live, SameBus
<1>5. Disarming(t)
  BY <1>2 DEF Disarming
<1>6. Sane(t)
  BY <1>2, <1>3, <1>4, <1>5 DEF Sane, SameBus
<1>7. Goes(s, t)
  BY <1>0, <1>2, <1>6 DEF Goes, Engages, Asks, Lives
<1> QED BY <1>0, <1>2, <1>7 DEF t

\* One turn of the bus, whatever is owed and whatever answers.
LEMMA BusTurnIs ==
  ASSUME NEW s, Sane(s), NEW answer \in Priors
  PROVE  /\ Ran(s, BusTurn(s, answer))
         /\ s.owed => BusTurn(s, answer).slot = s
<1> DEFINE t == EndedNow(s)
           degrade == OwesDegrade(t) /\ (t.draining \/ ~t.aux.on)
<1>0. s \in Slots /\ s.owed \in BOOLEAN
  BY SaneIs
<1>1. BusTurn(s, answer) = IF s.owed THEN Turn(s, "release")
                           ELSE IF degrade THEN Kept(Degrade(t, answer))
                           ELSE Kept(Run(t, answer))
  BY DEF BusTurn
<1>2. CASE s.owed
  <2>1. Follows(s, s)
    BY Stays
  <2> QED BY <1>1, <1>2, <2>1 DEF Ran, Turn, Follows, Lasts, Cmds
<1>3. CASE ~s.owed /\ ~(s.phase = "ACTIVE" /\ s.left = 0)
  <2>1. t = s
    BY <1>3 DEF EndedNow
  <2>2. s.owed = FALSE
    BY <1>0, <1>3
  <2>3. CASE degrade
    <3>1. Ran(s, Degrade(s, answer))
      BY <2>1, <2>2, <2>3, DegradeIs
    <3> QED BY <1>1, <1>3, <2>1, <2>3, <3>1, KeptIs
  <2>4. CASE ~degrade
    <3>1. s.draining = FALSE
      <4>1. s.draining \in BOOLEAN
        BY SaneIs
      <4> QED BY <2>1, <2>4, <4>1 DEF OwesDegrade
    <3>2. Ran(s, Run(s, answer))
      BY <2>2, <3>1, RunIs
    <3> QED BY <1>1, <1>3, <2>1, <2>4, <3>2, KeptIs
  <2> QED BY <2>3, <2>4
<1>4. CASE ~s.owed /\ s.phase = "ACTIVE" /\ s.left = 0
  <2>1. t = Enter(s, "STOPPING")
    BY <1>4 DEF EndedNow
  <2>2. /\ Goes(s, t) /\ t.phase = "STOPPING" /\ t.owed = FALSE /\ s.owed = FALSE
        /\ t.stow = s.stow /\ t.stow.on = FALSE /\ t.engaged = s.engaged
        /\ t.asked = 0 /\ SameBus(s, t)
    BY <1>4, <2>1, EndsIs
  <2>3. s.asked = 0 /\ s.stow.on = FALSE
    BY <1>4, SaneIs
  <2> HIDE DEF t
  <2>4. ASSUME NEW turn, Ran(t, turn),
               "late" \notin Hazards =>
                 \/ turn.slot.phase = "STOPPING" /\ turn.slot.owed = FALSE
                 \/ turn.slot.phase = "PARKED" /\ turn.slot.owed = TRUE
        PROVE  Ran(s, turn)
    <3>1. "late" \notin Hazards => Lives(s, turn.slot)
      BY <1>4, <2>2, <2>4 DEF Lives, PhaseKinds
    <3>2. Engages(s, turn.slot) /\ Asks(s, turn.slot)
      BY <2>2, <2>3, <2>4 DEF Ran, Goes, Engages, Asks
    <3> QED BY <2>2, <2>4, <3>1, <3>2 DEF Ran, Goes, Lasts
  <2>5. Sane(t) /\ t.aux.on \in BOOLEAN /\ t.draining \in BOOLEAN
    <3>1. Sane(t)
      BY <2>2 DEF Goes
    <3> QED BY <3>1, SaneIs
  <2>6. CASE degrade
    <3>1. /\ Ran(t, Degrade(t, answer))
          /\ \/ Degrade(t, answer).slot.phase = t.phase /\ Degrade(t, answer).slot.owed = FALSE
             \/ Degrade(t, answer).slot.phase = "PARKED" /\ Degrade(t, answer).slot.owed = TRUE
      BY <2>2, <2>5, <2>6, DegradeIs
    <3>2. Ran(s, Degrade(t, answer))
      BY <2>2, <2>4, <3>1
    <3> QED BY <1>1, <1>4, <2>6, <3>2, KeptIs
  <2>7. CASE ~degrade
    <3>1. t.draining = FALSE
      BY <2>5, <2>7 DEF OwesDegrade
    <3>2. "late" \notin Hazards => t.seq.kind # "disarm"
      <4>1. t.seq = s.seq
        BY <2>2 DEF SameBus
      <4> QED BY <1>4, <4>1 DEF Sane, Disarming
    <3>3. /\ Ran(t, Run(t, answer))
          /\ "late" \notin Hazards =>
               Run(t, answer).slot.phase = "STOPPING" /\ Run(t, answer).slot.owed = FALSE
      BY <2>2, <2>5, <3>1, <3>2, RunIs
    <3>4. Ran(s, Run(t, answer))
      BY <2>4, <3>3
    <3> QED BY <1>1, <1>4, <2>7, <3>4, KeptIs
  <2> QED BY <2>6, <2>7
<1> QED BY <1>2, <1>3, <1>4


-----------------------------------------------------------------------------
(* A stow's step, the script held, and time.                               *)

\* A stow sent to its pose, of whatever budget is left.
LEMMA CommandStowIs ==
  ASSUME NEW s \in Slots
  PROVE  LET t == CommandStow(s)
         IN  /\ t \in Slots /\ SameLife(s, t) /\ SameBus(s, t) /\ SameRail(s, t) /\ SameHeld(s, t)
             /\ t.stow.on = s.stow.on /\ t.stow.ending = s.stow.ending
             /\ t.stow.due = FALSE /\ t.engaged = TRUE
<1> DEFINE t == CommandStow(s)
           stow == [s.stow EXCEPT !.due = FALSE]
           left == s.stow.left
<1>1. /\ stow \in [on : BOOLEAN, defeated : BOOLEAN, ending : Endings,
                   left : 0..StowBudget, due : BOOLEAN]
      /\ stow.on = s.stow.on /\ stow.ending = s.stow.ending /\ stow.due = FALSE
      /\ left \in 0..StowBudget
  BY DEF Slots
<1>2. left \in 0..LeftCap
  BY <1>1, Spare
<1>3. t = [s EXCEPT !.stow = stow, !.left = left, !.engaged = TRUE, !.news = FALSE]
  BY DEF CommandStow, Slots
<1> HIDE DEF t, stow, left
<1>4. /\ t \in Slots /\ SameLife(s, t) /\ SameBus(s, t) /\ SameRail(s, t) /\ SameHeld(s, t)
      /\ t.stow = stow /\ t.engaged = TRUE
  BY <1>1, <1>2, <1>3, ZenonT(40) DEF Slots, SameLife, SameBus, SameRail, SameHeld
<1> QED BY <1>1, <1>4 DEF t

\* A stow over ends under a release; one that goes on is commanded by now.
LEMMA WindDownStepIs ==
  ASSUME NEW s, Sane(s), s.stow.on = TRUE, NEW stowed \in BOOLEAN
  PROVE  LET t == WindDownStep(s, stowed)
         IN  /\ Goes(s, t)
             /\ t.stow.on => StowsFor(t.stow.ending) /\ t.stow.due = FALSE
             /\ s.stow.due /\ t.stow.on => t.engaged = TRUE
             /\ t.phase = "WINDING_DOWN" \/ t.owed = TRUE
<1> DEFINE t == WindDownStep(s, stowed)
           to == Disposition(s.stow.ending)
           b == [s EXCEPT !.stow = NoStow]
           c == CommandRelease(b)
           e == Enter(c, to)
           over == \/ s.stow.defeated \/ stowed
                   \/ ~StowsFor(s.stow.ending) \/ s.stow.left = 0
<1>0. /\ s \in Slots /\ s.phase = "WINDING_DOWN" /\ s.owed = FALSE /\ s.asking = FALSE
      /\ s.asked = 0 /\ s.stow.ending \in Endings /\ s.ending \in BOOLEAN
      /\ s.stow.due \in BOOLEAN
  <2>1. s.stow.due \in BOOLEAN
    BY DEF Sane, Slots
  <2> QED BY <2>1, SaneIs
<1>1. t = IF over THEN e ELSE IF s.stow.due THEN CommandStow(s) ELSE s
  BY DEF WindDownStep
<1>2. s.ending => s.pending = NoScript
  BY DEF Sane, Ending
<1>3. s.stow.ending = "slowRest" => s.ending
  BY <1>0 DEF Sane, Stowing
<1>4. CASE over
  <2>1. /\ b \in Slots /\ b.stow = NoStow /\ SameLife(s, b) /\ SameBus(s, b) /\ SameHeld(s, b)
        /\ SameEngaged(s, b)
    BY <1>0, Nones DEF Slots, SameLife, SameBus, SameHeld, SameEngaged
  <2> HIDE DEF b
  <2>2. /\ c \in Slots
        /\ c.owed = TRUE /\ c.aux = NoAux /\ c.draining = FALSE /\ c.limp = {}
        /\ c.phase = b.phase /\ c.ending = b.ending /\ c.asking = b.asking
        /\ c.asked = b.asked /\ c.seq = b.seq
        /\ SameRail(b, c) /\ SameHeld(b, c) /\ SameStow(b, c) /\ SameEngaged(b, c)
    BY <2>1, CommandReleaseIs
  <2> HIDE DEF c
  <2>3. to \in {"RESTING", "PARKED"} /\ (to = "RESTING" <=> s.stow.ending = "slowRest")
    BY DEF Disposition
  <2> HIDE DEF to, over
  <2>4. Entered(c, to, e)
    BY <2>2, <2>3, EnterIs DEF PhaseKinds
  <2> HIDE DEF e
  <2>5. /\ e \in Slots /\ e.phase = to /\ e.owed = TRUE /\ e.ending = (s.ending /\ to # "PARKED")
        /\ e.asking = FALSE /\ e.asked = 0 /\ e.aux = NoAux /\ e.draining = FALSE /\ e.limp = {}
        /\ e.seq = s.seq /\ e.pending = s.pending /\ e.stow = NoStow /\ e.engaged = s.engaged
    BY <1>0, <2>1, <2>2, <2>4
       DEF Entered, SameLife, SameBus, SameHeld, SameStow, SameEngaged
  <2>6. Owing(e) /\ Stowing(e) /\ Asking(e)
    BY <2>3, <2>5, Nones DEF Owing, Stowing, Asking, OwesDegrade
  <2>7. Ending(e)
    BY <1>2, <1>3, <2>3, <2>5 DEF Ending
  <2>8. Owned(e)
    BY <2>5, Nones DEF Owned
  <2>9. Disarming(s) => Disarming(e)
    BY <1>0, <2>5 DEF Disarming
  <2>10. Sane(e)
    BY <2>5, <2>6, <2>7, <2>8, <2>9 DEF Sane
  <2>11. Goes(s, e)
    BY <1>0, <2>3, <2>5, <2>10 DEF Goes, Engages, Asks, Lives, PhaseKinds
  <2> QED BY <1>1, <1>4, <2>5, <2>11, Nones
<1>5. CASE ~over /\ s.stow.due
  <2> DEFINE u == CommandStow(s)
  <2>1. /\ u \in Slots /\ SameLife(s, u) /\ SameBus(s, u) /\ SameRail(s, u) /\ SameHeld(s, u)
        /\ u.stow.on = s.stow.on /\ u.stow.ending = s.stow.ending
        /\ u.stow.due = FALSE /\ u.engaged = TRUE
    BY <1>0, CommandStowIs
  <2> HIDE DEF u
  <2>2. Owing(u) /\ Ending(u) /\ Stowing(u) /\ Asking(u)
    BY <1>0, <2>1 DEF Sane, Owing, Ending, Stowing, Asking, SameLife, SameHeld
  <2>3. Owned(s) => Owned(u)
    BY <2>1 DEF Owned, Live, SameLife, SameBus, SameHeld
  <2>4. Disarming(s) => Disarming(u)
    BY <2>1 DEF Disarming, SameLife, SameBus
  <2>5. Sane(u)
    BY <2>1, <2>2, <2>3, <2>4 DEF Sane, SameBus
  <2>6. Goes(s, u)
    BY <2>1, <2>5 DEF Goes, Engages, Asks, Lives, SameLife
  <2>7. t = u /\ StowsFor(u.stow.ending)
    BY <1>1, <1>5, <2>1 DEF u
  <2> HIDE DEF t
  <2> QED BY <1>0, <2>1, <2>6, <2>7 DEF t, SameLife
<1>6. CASE ~over /\ ~s.stow.due
  <2>1. t = s /\ StowsFor(s.stow.ending) /\ s.stow.due = FALSE
    BY <1>0, <1>1, <1>6
  <2>2. Goes(s, s)
    BY Stays DEF Follows
  <2> HIDE DEF t
  <2> QED BY <1>0, <2>1, <2>2 DEF t
<1> QED BY <1>4, <1>5, <1>6

\* A script let go of by a machine that holds it.
LEMMA UnheldIs ==
  ASSUME NEW s, Sane(s)
  PROVE  LET t == [s EXCEPT !.pending = NoScript]
         IN  Follows(s, t) /\ SameLife(s, t) /\ SameBus(s, t) /\ t.stow = s.stow
             /\ t.engaged = s.engaged
<1> DEFINE t == [s EXCEPT !.pending = NoScript]
<1>0. s \in Slots
  BY DEF Sane
<1>1. /\ t \in Slots /\ SameLife(s, t) /\ SameBus(s, t) /\ t.stow = s.stow
      /\ t.engaged = s.engaged /\ t.saw = s.saw /\ t.pending = NoScript
  BY <1>0, Nones DEF Slots, SameLife, SameBus
<1> HIDE DEF t
<1>2. Owing(t) /\ Ending(t) /\ Stowing(t) /\ Asking(t)
  BY <1>1 DEF Sane, Owing, Ending, Stowing, Asking, OwesDegrade, SameLife, SameBus
<1>3. Owned(s) => Owned(t)
  BY <1>1 DEF Owned, Live, SameLife, SameBus
<1>4. Disarming(s) => Disarming(t)
  BY <1>1 DEF Disarming, SameLife, SameBus
<1>5. Sane(t)
  BY <1>1, <1>2, <1>3, <1>4 DEF Sane, SameBus
<1>6. Follows(s, t)
  BY <1>1, <1>5 DEF Follows, Goes, Engages, Asks, Firm, Commanded, Lives, SameLife
<1> QED BY <1>1, <1>6 DEF t

\* The held script drained: what is owed stays owed, and an engagement it opens
\* takes its first step at once.
LEMMA DrainedIs ==
  ASSUME NEW s, Sane(s), DrainsAt(s), NEW bumped \in BOOLEAN
  PROVE  LET turn == Drained(s, bumped)
         IN  /\ Goes(s, turn.slot) /\ Lasts(s, turn.slot) /\ turn.cmd \in Cmds \ {"release"}
             /\ turn.slot.owed = s.owed /\ (s.owed => turn.cmd = "none")
             /\ s.phase # "RESTING" => turn.slot.phase = s.phase
<1> DEFINE p == [s EXCEPT !.pending = NoScript]
           t == Decide(p, s.pending, bumped)
           turn == Drained(s, bumped)
           Over(v) == /\ Goes(s, v.slot) /\ Lasts(s, v.slot) /\ v.cmd \in Cmds \ {"release"}
                      /\ v.slot.owed = s.owed /\ (s.owed => v.cmd = "none")
                      /\ s.phase # "RESTING" => v.slot.phase = s.phase
<1>1. Follows(s, p) /\ SameLife(s, p) /\ SameBus(s, p) /\ p.stow = s.stow /\ p.engaged = s.engaged
  BY UnheldIs
<1>2. s.pending \in Held
  BY DEF Sane, Slots, Held
<1>3. turn = IF s.phase = "PARKED" THEN Turn(p, "none")
             ELSE IF t.phase = "ENGAGING" THEN Engage(t, "nothing") ELSE Turn(t, "none")
  BY DEF Drained
<1> HIDE DEF p
<1>4. Follows(p, t) /\ Spared(p, t)
  <2>1. Sane(p)
    BY <1>1 DEF Follows, Goes
  <2> QED BY <1>2, <2>1, DecideIs
<1> HIDE DEF t, turn
<1>5. Follows(s, t) /\ Spared(s, t)
  <2>1. Follows(s, t)
    BY <1>1, <1>4, FollowsOn DEF SameLife
  <2> QED BY <1>1, <1>4, <2>1 DEF Spared, SameLife, SameBus
<1>6. CASE s.phase = "PARKED"
  <2>1. Over(Turn(p, "none"))
    BY <1>1 DEF Turn, Follows, Lasts, Cmds, SameLife
  <2> QED BY <1>3, <1>6, <2>1 DEF turn
<1>7. CASE s.phase # "PARKED" /\ t.phase # "ENGAGING"
  <2>1. Over(Turn(t, "none"))
    BY <1>5, <1>7 DEF Turn, Follows, Lasts, Cmds, Spared
  <2> QED BY <1>3, <1>7, <2>1 DEF turn
<1>8. CASE s.phase # "PARKED" /\ t.phase = "ENGAGING"
  <2>1. /\ s.phase = "RESTING" /\ s.owed = FALSE /\ s.aux.on = FALSE /\ s.draining = FALSE
        /\ s.asked = 0
    <3>1. s.phase = "RESTING"
      BY <1>5, <1>8 DEF Spared, DrainsAt
    <3> QED BY <3>1, SaneIs DEF DrainsAt
  <2>2. Ready(t) /\ t.asked = 0 /\ t.stow = s.stow
    BY <1>5, <2>1 DEF Ready, Follows, Goes, Spared, SameBus
  <2>3. Ran(t, Engage(t, "nothing")) /\ Tried(Engage(t, "nothing"))
    BY <1>8, <2>2, EngageIs DEF Priors
  <2>4. turn = Engage(t, "nothing")
    BY <1>3, <1>8
  <2>5. Lives(s, turn.slot)
    BY <2>1, <2>3, <2>4 DEF Lives, Tried
  <2>6. Goes(s, turn.slot)
    BY <2>1, <2>2, <2>3, <2>4, <2>5 DEF Ran, Goes, Engages, Asks
  <2>7. Over(turn)
    BY <2>1, <2>2, <2>3, <2>4, <2>6 DEF Ran, Tried, Lasts
  <2> QED BY <2>7 DEF turn
<1> QED BY <1>6, <1>7, <1>8

\* Time passed leaves the session where it is, and what it was told of its stow.
LEMMA AgedIs ==
  ASSUME NEW s, Sane(s)
  PROVE  LET t == Aged(s)
         IN  /\ Follows(s, t) /\ t.phase = s.phase /\ t.owed = s.owed /\ t.engaged = s.engaged
             /\ t.stow.on = s.stow.on /\ t.stow.ending = s.stow.ending /\ t.stow.due = s.stow.due
             /\ t.asked = 0 <=> s.asked = 0
<1> DEFINE t == Aged(s)
           asked == IF s.asked = 0 THEN 0 ELSE AtMost(s.asked + 1, EngageBudget + 1)
           span == IF s.pending.span \in 1..SpanCap THEN s.pending.span - 1 ELSE s.pending.span
           pending == [s.pending EXCEPT !.span = span]
           left == Less(s.left)
           age == IF s.aux.on THEN AtMost(s.aux.age + 1, AuxTimeout + 1) ELSE 0
           aux == [s.aux EXCEPT !.age = age]
           seq == Older(s.seq)
           wait == Less(s.wait)
           stow == [s.stow EXCEPT !.left = Less(s.stow.left)]
           silence == IF s.started THEN AtMost(s.silence + 1, SilenceCap) ELSE 0
<1>0. s \in Slots /\ Runs(s.seq)
  BY DEF Sane
<1>1. t = [s EXCEPT !.asked = asked, !.pending = pending, !.left = left, !.aux = aux,
                    !.seq = seq, !.wait = wait, !.stow = stow, !.silence = silence]
  BY <1>0 DEF Aged, Slots
<1>2. asked \in 0..(EngageBudget + 1) /\ (asked = 0 <=> s.asked = 0)
  <2>1. s.asked \in 0..(EngageBudget + 1) /\ EngageBudget \in Nat
    BY <1>0, Spare DEF Slots
  <2> QED BY <2>1 DEF AtMost
<1>3. pending \in Held /\ (s.pending = NoScript => pending = NoScript)
  <2>1. s.pending \in Held
    BY <1>0 DEF Slots, Held
  <2>2. span \in 0..Stepless
    <3>1. s.pending.span \in 0..Stepless
      BY <2>1 DEF Held
    <3> QED BY <3>1, Spare DEF Stepless
  <2>3. s.pending = NoScript => span = 0
    BY Spare DEF NoScript
  <2> HIDE DEF span
  <2>4. pending \in Held
    BY <2>1, <2>2 DEF Held
  <2>5. s.pending = NoScript => pending = NoScript
    BY <2>3 DEF NoScript
  <2> QED BY <2>4, <2>5
<1>4. left \in 0..LeftCap /\ wait \in 0..(VoltageWait + Dwell)
  <2>1. s.left \in 0..LeftCap /\ s.wait \in 0..(VoltageWait + Dwell)
    BY <1>0 DEF Slots
  <2> QED BY <2>1, Spare DEF Less
<1>5. aux \in Flights /\ aux.on = s.aux.on /\ aux.row = s.aux.row
  <2>1. s.aux \in Flights
    BY <1>0 DEF Slots, Flights
  <2>2. s.aux.age \in 0..(AuxTimeout + 1) /\ AuxTimeout \in Nat
    BY <2>1, Spare DEF Flights
  <2>3. AtMost(s.aux.age + 1, AuxTimeout + 1) \in 0..(AuxTimeout + 1) /\ 0 \in 0..(AuxTimeout + 1)
    BY <2>2 DEF AtMost
  <2> QED BY <2>1, <2>3 DEF Flights
<1>6. seq \in Snaps /\ Runs(seq) /\ seq.kind = s.seq.kind /\ seq.held = s.seq.held
  BY <1>0, OlderRuns DEF Runs
<1>7. /\ stow \in [on : BOOLEAN, defeated : BOOLEAN, ending : Endings,
                   left : 0..StowBudget, due : BOOLEAN]
      /\ stow.on = s.stow.on /\ stow.ending = s.stow.ending /\ stow.due = s.stow.due
  <2>1. s.stow.left \in 0..StowBudget
    BY <1>0 DEF Slots
  <2>2. Less(s.stow.left) \in 0..StowBudget
    BY <2>1, Spare DEF Less
  <2> QED BY <1>0, <2>2 DEF Slots
<1>8. silence \in 0..SilenceCap
  <2>1. s.silence \in 0..SilenceCap /\ SilenceCap \in Nat
    BY <1>0, Spare DEF Slots
  <2> QED BY <2>1 DEF AtMost
<1> HIDE DEF t, asked, pending, left, aux, seq, wait, stow, silence
<1>9. /\ t \in Slots /\ t.phase = s.phase /\ t.owed = s.owed /\ t.ending = s.ending
      /\ t.asking = s.asking /\ t.asked = asked /\ t.pending = pending /\ t.engaged = s.engaged
      /\ t.aux = aux /\ t.draining = s.draining /\ t.limp = s.limp /\ t.seq = seq
      /\ t.stow = stow /\ t.saw = s.saw
  BY <1>0, <1>1, <1>2, <1>3, <1>4, <1>5, <1>6, <1>7, <1>8, ZenonT(40) DEF Slots, Held, Flights
<1>10. Owing(t) /\ Ending(t) /\ Stowing(t) /\ Asking(t)
  BY <1>2, <1>3, <1>5, <1>7, <1>9 DEF Sane, Owing, Ending, Stowing, Asking, OwesDegrade
<1>11. Owned(s) => Owned(t)
  BY <1>2, <1>5, <1>6, <1>9 DEF Owned, Live
<1>12. Disarming(s) => Disarming(t)
  BY <1>6, <1>9 DEF Disarming
<1>13. Sane(t)
  BY <1>6, <1>9, <1>10, <1>11, <1>12 DEF Sane
<1>14. Follows(s, t)
  BY <1>2, <1>9, <1>13 DEF Follows, Goes, Engages, Asks, Firm, Commanded, Lives
<1> QED BY <1>2, <1>7, <1>9, <1>14 DEF t

\* A row gone stale is a row filed.
LEMMA StaleIs ==
  ASSUME NEW s, Sane(s), NEW row \in Rows
  PROVE  LET t == [s EXCEPT !.rail[row] = "stale"]
         IN  Follows(s, t) /\ SameLife(s, t) /\ t.stow = s.stow /\ t.engaged = s.engaged
<1> DEFINE rail == [s.rail EXCEPT ![row] = "stale"]
           t == [s EXCEPT !.rail[row] = "stale"]
<1>0. s \in Slots
  BY DEF Sane
<1>1. rail \in [Rows -> Readings \cup {"stale"}]
  BY <1>0 DEF Slots
<1>2. t = [s EXCEPT !.rail = rail]
  BY <1>0 DEF Slots
<1> HIDE DEF t, rail
<1>3. /\ t \in Slots /\ SameLife(s, t) /\ SameBus(s, t) /\ SameHeld(s, t) /\ SameStow(s, t)
      /\ SameEngaged(s, t)
  BY <1>0, <1>1, <1>2 DEF Slots, SameLife, SameBus, SameHeld, SameStow, SameEngaged
<1>4. Follows(s, t)
  BY <1>3, FiledKeeps
<1> QED BY <1>3, <1>4 DEF t, SameStow, SameEngaged

\* A schedule published changes what the schedule says and no more.
LEMMA PublishedIs ==
  ASSUME NEW s, Sane(s), NEW engaged \in BOOLEAN
  PROVE  LET t == [s EXCEPT !.engaged = engaged, !.news = FALSE]
         IN  Sane(t) /\ SameLife(s, t) /\ t.stow = s.stow /\ t.engaged = engaged
<1> DEFINE t == [s EXCEPT !.engaged = engaged, !.news = FALSE]
<1>0. s \in Slots
  BY DEF Sane
<1>1. /\ t \in Slots /\ SameLife(s, t) /\ SameBus(s, t) /\ SameHeld(s, t) /\ SameStow(s, t)
      /\ t.engaged = engaged
  BY <1>0, FlagsAre
<1> HIDE DEF t
<1>2. Owing(t) /\ Ending(t) /\ Stowing(t) /\ Asking(t)
  BY <1>1
     DEF Sane, Owing, Ending, Stowing, Asking, OwesDegrade, SameLife, SameBus, SameHeld,
         SameStow
<1>3. Owned(s) => Owned(t)
  BY <1>1 DEF Owned, Live, SameLife, SameBus, SameHeld
<1>4. Disarming(s) => Disarming(t)
  BY <1>1 DEF Disarming, SameLife, SameBus
<1>5. Sane(t)
  BY <1>1, <1>2, <1>3, <1>4 DEF Sane, SameBus
<1> QED BY <1>1, <1>5 DEF t, SameStow


-----------------------------------------------------------------------------
(* The session's invariant.                                                *)

Scalars == /\ stage \in Stages /\ cmd \in Cmds
           /\ replaced \in BOOLEAN /\ sent \in BOOLEAN /\ told \in BOOLEAN

\* A stow that still stows has been commanded once the execution has walked it.
Governed == stage \in {"wound", "driven", "drained", "asleep"} =>
              (slot.stow.on /\ StowsFor(slot.stow.ending) => slot.stow.due = FALSE)

\* The datagram written says the release when it is owed and not otherwise.
Says == stage \in {"driven", "drained", "asleep"} => (slot.owed <=> cmd = "release")

\* A schedule that engages was published by a machine under command, and what has
\* become of that machine since the cog woke.
SentUnderCommand == "late" \notin Hazards /\ sent =>
           /\ slot.engaged = TRUE
           /\ \/ Commanded(slot)
              \/ stage = "raises" /\ slot.phase = "PARKED" /\ slot.owed
              \/ stage \in {"events", "readings", "scripts"} /\ slot.phase = "PARKED"
              \/ stage = "wound" /\ (slot.phase = "PARKED" \/ slot.owed)
              \/ /\ stage \in {"driven", "drained"}
                 /\ slot.phase \in {"PARKED", "STOPPING"} \/ slot.owed

SessionInv == Sane(slot) /\ Scalars /\ Governed /\ Says /\ SentUnderCommand

\* What a step of the session may do to its slot.
Moved == /\ Asks(slot, slot')
         /\ "late" \notin Hazards => Lives(slot, slot')

LEMMA InitKeeps == Init => SessionInv
<1> SUFFICES ASSUME Init PROVE SessionInv
  OBVIOUS
<1>1. slot \in Slots
  BY Spare, Nones, BlankIs DEF Init, Slots, PhaseKinds
<1>2. Owing(slot) /\ Ending(slot) /\ Stowing(slot) /\ Asking(slot) /\ Owned(slot)
  BY Nones DEF Init, Owing, Ending, Stowing, Asking, Owned
<1>3. Disarming(slot)
  BY BlankIs DEF Init, Disarming
<1>4. Runs(slot.seq)
  BY BlankRuns DEF Init
<1>5. Sane(slot)
  BY <1>1, <1>2, <1>3, <1>4 DEF Sane
<1> QED BY <1>5, Nones DEF Init, SessionInv, Scalars, Stages, Cmds, Governed, Says, SentUnderCommand

\* A message moves the slot as any message may, and leaves what was said alone.
LEMMA MessageKeeps ==
  ASSUME SessionInv, Follows(slot, slot'), replaced' \in BOOLEAN, UNCHANGED <<cmd, sent, told>>,
         \/ stage = "raises" /\ stage' = "raises" /\ (slot.owed => slot' = slot)
         \/ /\ stage \in {"raises", "events", "readings", "scripts"}
            /\ stage' \in {"events", "readings", "scripts"}
  PROVE  SessionInv' /\ Moved
<1>1. Sane(slot') /\ Scalars'
  BY DEF SessionInv, Scalars, Follows, Goes, Stages
<1>2. Governed' /\ Says'
  BY DEF Governed, Says
<1>3. SentUnderCommand'
  <2> SUFFICES ASSUME "late" \notin Hazards, sent PROVE SentUnderCommand'
    BY DEF SentUnderCommand
  <2>1. Lives(slot, slot') /\ Firm(slot, slot') /\ Engages(slot, slot')
    BY DEF Follows, Goes
  <2>2. slot.engaged = TRUE /\ (Commanded(slot) \/ slot.phase = "PARKED")
    BY DEF SessionInv, SentUnderCommand
  <2>3. slot'.engaged = TRUE
    BY <2>1, <2>2 DEF Engages, Commanded
  <2>4. CASE Commanded(slot)
    BY <2>1, <2>3, <2>4 DEF Firm, SentUnderCommand, Commanded
  <2>5. CASE slot.phase = "PARKED" /\ stage' # "raises"
    <3>1. slot'.phase = "PARKED"
      BY <2>1, <2>5 DEF Lives
    <3> QED BY <2>3, <2>5, <3>1 DEF SentUnderCommand
  <2>6. CASE ~Commanded(slot) /\ stage' = "raises"
    BY <2>6 DEF SessionInv, SentUnderCommand
  <2> QED BY <2>2, <2>4, <2>5, <2>6
<1>4. Moved
  BY DEF Moved, Follows, Goes
<1> QED BY <1>1, <1>2, <1>3, <1>4 DEF SessionInv

LEMMA WakeKeeps == SessionInv /\ Wake => SessionInv' /\ Moved
<1> SUFFICES ASSUME SessionInv, Wake PROVE SessionInv' /\ Moved
  OBVIOUS
<1>1. Sane(slot) /\ slot \in Slots
  BY DEF SessionInv, Sane
<1>2. Follows(slot, slot')
  <2>1. Clocks(slot, NoteStart(slot)) /\ NoteStart(slot) \in Slots
    BY <1>1, NoteStartIs DEF Clocks
  <2>2. ASSUME NEW age \in Ages PROVE Clocks(slot, NoteSample(NoteStart(slot), age))
    BY <2>1, NoteSampleIs, ClocksOn
  <2> QED BY <1>1, <2>1, <2>2, WatchedIs DEF Wake
<1>3. Sane(slot') /\ Scalars' /\ Governed' /\ Says'
  BY <1>1, <1>2
     DEF SessionInv, Scalars, Governed, Says, Wake, Follows, Goes, Stages, Cmds, Sane, Slots
<1>4. SentUnderCommand'
  <2> SUFFICES ASSUME "late" \notin Hazards, sent PROVE SentUnderCommand'
    BY DEF SentUnderCommand, Wake
  <2>1. slot.engaged = TRUE /\ Commanded(slot)
    BY DEF SessionInv, SentUnderCommand, Wake
  <2>2. slot'.engaged = TRUE /\ (Commanded(slot') \/ (slot'.phase = "PARKED" /\ slot'.owed))
    BY <1>2, <2>1 DEF Follows, Goes, Engages, Firm, Commanded
  <2> QED BY <2>2 DEF SentUnderCommand, Wake
<1>5. Moved
  BY <1>2 DEF Moved, Follows, Goes
<1> QED BY <1>3, <1>4, <1>5 DEF SessionInv


LEMMA TakeRaiseKeeps ==
  ASSUME SessionInv, NEW kind \in Raises, TakeRaise(kind)
  PROVE  SessionInv' /\ Moved
<1>1. Sane(slot) /\ kind \in FaultKinds
  BY SessionConstants DEF SessionInv, SessionConstants
<1>2. Timely(slot, kind)
  BY DEF SessionInv, SentUnderCommand, TakeRaise, Taking, Timely
<1>3. Follows(slot, slot')
  BY <1>1, <1>2, RecordFaultIs DEF TakeRaise
<1>4. slot.owed => slot' = slot
  BY DEF TakeRaise, RecordFault, AnswerFault, Responds
<1>5. stage = "raises" /\ stage' = "raises" /\ replaced' \in BOOLEAN
      /\ UNCHANGED <<cmd, sent, told>>
  BY DEF TakeRaise, Taking, SessionInv, Scalars
<1> QED BY <1>3, <1>4, <1>5, MessageKeeps

LEMMA TakeEventKeeps ==
  ASSUME SessionInv, NEW event \in Events, TakeEvent(event)
  PROVE  SessionInv' /\ Moved
<1>1. event \in Answered /\ slot.asking => slot.asked # 0 \/ "early" \in Hazards
  BY DEF TakeEvent
<1>2. Follows(slot, slot')
  BY <1>1, HeardIs DEF TakeEvent, SessionInv
<1>3. /\ stage \in {"raises", "events", "readings", "scripts"}
      /\ stage' \in {"events", "readings", "scripts"} /\ replaced' \in BOOLEAN
      /\ UNCHANGED <<cmd, sent, told>>
  BY DEF TakeEvent, Taking, SessionInv, Scalars
<1> QED BY <1>2, <1>3, MessageKeeps

LEMMA TakeReadingKeeps ==
  ASSUME SessionInv, NEW row \in Rows, NEW status \in Statuses, TakeReading(row, status)
  PROVE  SessionInv' /\ Moved
<1>1. Follows(slot, slot')
  BY ReadingIs DEF TakeReading, SessionInv
<1>2. /\ stage \in {"raises", "events", "readings", "scripts"}
      /\ stage' \in {"events", "readings", "scripts"} /\ replaced' \in BOOLEAN
      /\ UNCHANGED <<cmd, sent, told>>
  BY DEF TakeReading, Taking, SessionInv, Scalars
<1> QED BY <1>1, <1>2, MessageKeeps

LEMMA TakeScriptKeeps ==
  ASSUME SessionInv, NEW script \in Scripts, TakeScript(script)
  PROVE  SessionInv' /\ Moved
<1>1. script \in Held
  <2>1. Spans \subseteq 0..Stepless /\ MaxScript \in Nat
    BY SessionConstants DEF SessionConstants
  <2>2. script \in [id : 0..MaxScript, span : 0..Stepless]
    <3>1. script.id \in 0..MaxScript /\ script.span \in 0..Stepless
      <4>1. script.id \in 1..MaxScript /\ script.span \in Spans
        BY DEF Scripts
      <4>2. script.id \in 0..MaxScript
        BY <2>1, <4>1
      <4>3. script.span \in 0..Stepless
        BY <2>1, <4>1
      <4> QED BY <4>2, <4>3
    <3>2. script = [id |-> script.id, span |-> script.span]
      BY DEF Scripts
    <3> QED BY <3>1, <3>2
  <2> QED BY <2>2 DEF Held
<1>2. replaced \in BOOLEAN
  BY DEF SessionInv, Scalars
<1>3. Follows(slot, slot')
  BY <1>1, <1>2, DecideIs DEF TakeScript, SessionInv
<1>4. /\ stage \in {"raises", "events", "readings", "scripts"}
      /\ stage' \in {"events", "readings", "scripts"} /\ UNCHANGED <<cmd, sent, told>>
  BY DEF TakeScript, Taking
<1>5. replaced' \in BOOLEAN
  BY <1>2 DEF TakeScript
<1> QED BY <1>3, <1>4, <1>5, MessageKeeps

LEMMA RunWindDownKeeps == SessionInv /\ RunWindDown => SessionInv' /\ Moved
<1> SUFFICES ASSUME SessionInv, RunWindDown PROVE SessionInv' /\ Moved
  OBVIOUS
<1>1. /\ stage \in {"raises", "events", "readings", "scripts"} /\ stage' = "wound"
      /\ UNCHANGED <<replaced, cmd, told>>
      /\ sent' = (sent \/ (slot.stow.due /\ slot'.stow.on))
  BY DEF RunWindDown, Taking
<1>2. Sane(slot) /\ Scalars
  BY DEF SessionInv
<1>3. slot.stow.on \in BOOLEAN /\ slot.stow.due \in BOOLEAN
  <2>1. slot.stow.due \in BOOLEAN
    BY <1>2 DEF Sane, Slots
  <2> QED BY <1>2, <2>1, SaneIs
<1>4. CASE slot.stow.on = FALSE
  <2>1. slot' = slot
    BY <1>4 DEF RunWindDown
  <2>2. sent' = sent
    BY <1>1, <1>2, <1>4, <2>1 DEF Scalars
  <2>3. Scalars' /\ Governed' /\ Says'
    BY <1>1, <1>2, <1>4, <2>1, <2>2 DEF Scalars, Stages, Governed, Says
  <2>4. SentUnderCommand'
    BY <1>1, <2>1, <2>2 DEF SessionInv, SentUnderCommand
  <2>5. Moved
    BY <1>2, <2>1, Stays DEF Moved, Follows, Goes
  <2> QED BY <1>2, <2>1, <2>3, <2>4, <2>5 DEF SessionInv
<1>5. CASE slot.stow.on = TRUE
  <2>1. PICK stowed \in BOOLEAN : slot' = WindDownStep(slot, stowed)
    BY <1>5 DEF RunWindDown
  <2>2. /\ Goes(slot, slot')
        /\ slot'.stow.on => StowsFor(slot'.stow.ending) /\ slot'.stow.due = FALSE
        /\ slot.stow.due /\ slot'.stow.on => slot'.engaged = TRUE
        /\ slot'.phase = "WINDING_DOWN" \/ slot'.owed = TRUE
    BY <1>2, <1>5, <2>1, WindDownStepIs
  <2>3. sent' \in BOOLEAN
    BY <1>1, <1>2, <1>3, <2>2 DEF Scalars
  <2>4. Scalars' /\ Governed' /\ Says'
    BY <1>1, <1>2, <2>2, <2>3 DEF Scalars, Stages, Governed, Says
  <2>5. SentUnderCommand'
    <3>1. slot.phase = "WINDING_DOWN"
      BY <1>2, <1>5, SaneIs
    <3>2. "late" \notin Hazards /\ sent => slot'.engaged = TRUE
      BY <2>2, <3>1 DEF SessionInv, SentUnderCommand, Goes, Engages
    <3>3. "late" \notin Hazards /\ sent' => slot'.engaged = TRUE
      BY <1>1, <2>2, <3>2
    <3> QED BY <1>1, <2>2, <3>3 DEF SentUnderCommand, Commanded
  <2>6. Moved
    BY <2>2 DEF Moved, Goes
  <2> QED BY <2>2, <2>4, <2>5, <2>6 DEF SessionInv, Goes
<1> QED BY <1>3, <1>4, <1>5

LEMMA RunBusKeeps == SessionInv /\ RunBus => SessionInv' /\ Moved
<1> SUFFICES ASSUME SessionInv, RunBus PROVE SessionInv' /\ Moved
  OBVIOUS
<1>1. PICK answer \in AnswersNow : RunBusWith(answer)
  BY DEF RunBus
<1>2. answer \in Priors
  BY DEF AnswersNow, Priors
<1> DEFINE turn == BusTurn(slot, answer)
<1>3. /\ stage = "wound" /\ stage' = "driven" /\ UNCHANGED <<replaced, sent, told>>
      /\ slot' = turn.slot /\ cmd' = turn.cmd
  BY <1>1 DEF RunBusWith, Taking
<1>4. Sane(slot) /\ Scalars
  BY DEF SessionInv
<1>5. Ran(slot, turn) /\ (slot.owed => turn.slot = slot)
  BY <1>2, <1>4, BusTurnIs
<1> HIDE DEF turn
<1>6. Goes(slot, slot') /\ Lasts(slot, slot') /\ (cmd' = "release" <=> slot'.owed)
  BY <1>3, <1>5 DEF Ran
<1>7. Scalars' /\ Says'
  BY <1>3, <1>4, <1>5, <1>6 DEF Scalars, Stages, Says, Ran
<1>8. Governed'
  BY <1>3, <1>6 DEF SessionInv, Governed, Lasts
<1>9. SentUnderCommand'
  <2> SUFFICES ASSUME "late" \notin Hazards, sent PROVE SentUnderCommand'
    BY <1>3 DEF SentUnderCommand
  <2>1. slot.engaged = TRUE /\ (Commanded(slot) \/ slot.phase = "PARKED" \/ slot.owed)
    BY <1>3 DEF SessionInv, SentUnderCommand
  <2>2. CASE slot.owed
    BY <1>3, <1>5, <2>1, <2>2 DEF SentUnderCommand
  <2>3. CASE ~slot.owed /\ (Commanded(slot) \/ slot.phase = "PARKED")
    <3>1. slot'.engaged = TRUE
      BY <1>6, <2>1, <2>3 DEF Goes, Engages, Commanded
    <3>2. Commanded(slot') \/ slot'.phase \in {"PARKED", "STOPPING"} \/ slot'.owed
      BY <1>6, <2>3 DEF Goes, Lives, Commanded
    <3> QED BY <1>3, <3>1, <3>2 DEF SentUnderCommand
  <2> QED BY <2>1, <2>2, <2>3
<1>10. Moved
  BY <1>6 DEF Moved, Goes
<1> QED BY <1>6, <1>7, <1>8, <1>9, <1>10 DEF SessionInv, Goes

LEMMA DrainPendingKeeps == SessionInv /\ DrainPending => SessionInv' /\ Moved
<1> SUFFICES ASSUME SessionInv, DrainPending PROVE SessionInv' /\ Moved
  OBVIOUS
<1>1. stage = "driven" /\ stage' = "drained" /\ UNCHANGED <<sent, told>>
  BY DEF DrainPending, Taking
<1>2. Sane(slot) /\ Scalars
  BY DEF SessionInv
<1>3. CASE ~(slot.pending # NoScript /\ DrainsAt(slot))
  <2>1. UNCHANGED <<slot, cmd, replaced>>
    BY <1>3 DEF DrainPending
  <2>2. Scalars' /\ Governed' /\ Says' /\ SentUnderCommand'
    BY <1>1, <1>2, <2>1 DEF SessionInv, Scalars, Stages, Governed, Says, SentUnderCommand
  <2>3. Moved
    BY <1>2, <2>1, Stays DEF Moved, Follows, Goes
  <2> QED BY <1>2, <2>1, <2>2, <2>3 DEF SessionInv
<1>4. CASE slot.pending # NoScript /\ DrainsAt(slot)
  <2> DEFINE turn == Drained(slot, replaced)
  <2>1. /\ slot' = turn.slot /\ cmd' = IF turn.cmd = "none" THEN cmd ELSE turn.cmd
        /\ replaced' = (replaced \/ Replaces(slot, slot.pending))
    BY <1>4 DEF DrainPending
  <2>2. replaced \in BOOLEAN
    BY <1>2 DEF Scalars
  <2>3. /\ Goes(slot, turn.slot) /\ Lasts(slot, turn.slot) /\ turn.cmd \in Cmds \ {"release"}
        /\ turn.slot.owed = slot.owed /\ (slot.owed => turn.cmd = "none")
        /\ slot.phase # "RESTING" => turn.slot.phase = slot.phase
    BY <1>2, <1>4, <2>2, DrainedIs
  <2> HIDE DEF turn
  <2>4. cmd' \in Cmds /\ replaced' \in BOOLEAN
    BY <1>2, <2>1, <2>2, <2>3 DEF Scalars
  <2>5. Scalars' /\ Governed'
    BY <1>1, <1>2, <2>1, <2>3, <2>4 DEF SessionInv, Scalars, Stages, Governed, Lasts
  <2>6. slot.owed <=> cmd = "release"
    BY <1>1 DEF SessionInv, Says
  <2>7. Says'
    BY <1>1, <2>1, <2>3, <2>6 DEF Says
  <2>8. SentUnderCommand'
    <3> SUFFICES ASSUME "late" \notin Hazards, sent PROVE SentUnderCommand'
      BY <1>1 DEF SentUnderCommand
    <3>1. /\ slot.engaged = TRUE
          /\ Commanded(slot) \/ slot.phase \in {"PARKED", "STOPPING"} \/ slot.owed
      BY <1>1 DEF SessionInv, SentUnderCommand
    <3>2. slot.phase # "RESTING"
      BY <1>4, <3>1 DEF DrainsAt, Commanded
    <3>3. slot'.phase = slot.phase /\ slot'.owed = slot.owed /\ slot'.engaged = TRUE
      BY <2>1, <2>3, <3>1, <3>2 DEF Goes, Engages
    <3> QED BY <1>1, <3>1, <3>3 DEF SentUnderCommand, Commanded
  <2>9. Moved
    BY <2>1, <2>3 DEF Moved, Goes
  <2> QED BY <2>1, <2>3, <2>5, <2>7, <2>8, <2>9 DEF SessionInv, Goes
<1> QED BY <1>3, <1>4


LEMMA PublishScheduleKeeps == SessionInv /\ PublishSchedule => SessionInv' /\ Moved
<1> SUFFICES ASSUME SessionInv, PublishSchedule PROVE SessionInv' /\ Moved
  OBVIOUS
<1>1. stage = "drained" /\ stage' = "asleep" /\ UNCHANGED <<replaced, cmd, told>>
  BY DEF PublishSchedule, Taking
<1>2. Sane(slot) /\ Scalars
  BY DEF SessionInv
<1>3. Commanded(slot) \in BOOLEAN
  BY DEF Commanded
<1>4. CASE replaced \/ slot.engaged # Commanded(slot)
  <2> DEFINE engaged == Commanded(slot)
             t == [slot EXCEPT !.engaged = engaged, !.news = FALSE]
  <2>1. slot' = t /\ sent' = engaged /\ engaged \in BOOLEAN
    BY <1>3, <1>4 DEF PublishSchedule
  <2> HIDE DEF engaged
  <2>2. Sane(t) /\ SameLife(slot, t) /\ t.stow = slot.stow /\ t.engaged = engaged
    BY <1>2, <2>1, PublishedIs
  <2> HIDE DEF t
  <2>3. Scalars' /\ Governed' /\ Says'
    BY <1>1, <1>2, <2>1, <2>2 DEF SessionInv, Scalars, Stages, Governed, Says, SameLife
  <2>4. Commanded(slot') = engaged
    BY <2>1, <2>2 DEF engaged, Commanded, SameLife
  <2>5. SentUnderCommand'
    BY <1>1, <2>1, <2>2, <2>4 DEF SentUnderCommand
  <2>6. Moved
    BY <2>1, <2>2 DEF Moved, Asks, Lives, SameLife
  <2> QED BY <2>1, <2>2, <2>3, <2>5, <2>6 DEF SessionInv
<1>5. CASE ~(replaced \/ slot.engaged # Commanded(slot))
  <2>1. UNCHANGED <<slot, sent>>
    BY <1>5 DEF PublishSchedule
  <2>2. Scalars' /\ Governed' /\ Says'
    BY <1>1, <1>2, <2>1 DEF SessionInv, Scalars, Stages, Governed, Says
  <2>3. SentUnderCommand'
    BY <1>1, <1>5, <2>1 DEF SessionInv, SentUnderCommand
  <2>4. Moved
    BY <1>2, <2>1, Stays DEF Moved, Follows, Goes
  <2> QED BY <1>2, <2>1, <2>2, <2>3, <2>4 DEF SessionInv
<1> QED BY <1>4, <1>5

\* What the world does to the slot of a sleeping cog.
LEMMA AsleepKeeps ==
  ASSUME SessionInv, stage = "asleep", UNCHANGED <<stage, replaced, cmd, sent, told>>,
         Follows(slot, slot'), slot'.phase = slot.phase, slot'.owed = slot.owed,
         slot'.engaged = slot.engaged, slot'.stow.on = slot.stow.on,
         slot'.stow.ending = slot.stow.ending, slot'.stow.due = slot.stow.due
  PROVE  SessionInv' /\ Moved
<1>1. Sane(slot') /\ Moved
  BY DEF Moved, Follows, Goes
<1>2. Scalars' /\ Governed' /\ Says'
  BY DEF SessionInv, Scalars, Governed, Says
<1>3. SentUnderCommand'
  BY DEF SessionInv, SentUnderCommand, Commanded
<1> QED BY <1>1, <1>2, <1>3 DEF SessionInv

LEMMA TickKeeps == SessionInv /\ Tick => SessionInv' /\ Moved
<1> SUFFICES ASSUME SessionInv, Tick PROVE SessionInv' /\ Moved
  OBVIOUS
<1> DEFINE t == Aged(slot)
<1>1. /\ Follows(slot, t) /\ t.phase = slot.phase /\ t.owed = slot.owed
      /\ t.engaged = slot.engaged /\ t.stow.on = slot.stow.on
      /\ t.stow.ending = slot.stow.ending /\ t.stow.due = slot.stow.due
  BY AgedIs DEF SessionInv
<1>2. stage = "asleep" /\ slot' = t /\ UNCHANGED <<stage, replaced, cmd, sent, told>>
  BY DEF Tick
<1> HIDE DEF t
<1> QED BY <1>1, <1>2, AsleepKeeps

LEMMA GoStaleKeeps ==
  ASSUME SessionInv, NEW row \in Rows, GoStale(row)
  PROVE  SessionInv' /\ Moved
<1> DEFINE t == [slot EXCEPT !.rail[row] = "stale"]
<1>1. Follows(slot, t) /\ SameLife(slot, t) /\ t.stow = slot.stow /\ t.engaged = slot.engaged
  BY StaleIs DEF SessionInv
<1>2. stage = "asleep" /\ slot' = t /\ UNCHANGED <<stage, replaced, cmd, sent, told>>
  BY DEF GoStale
<1> HIDE DEF t
<1> QED BY <1>1, <1>2, AsleepKeeps DEF SameLife

LEMMA StutterKeeps == SessionInv /\ UNCHANGED vars => SessionInv' /\ Moved
<1> SUFFICES ASSUME SessionInv, UNCHANGED vars PROVE SessionInv' /\ Moved
  OBVIOUS
<1>1. slot' = slot /\ UNCHANGED <<stage, replaced, cmd, sent, told>>
  BY DEF vars
<1>2. SessionInv'
  BY <1>1 DEF SessionInv, Scalars, Governed, Says, SentUnderCommand
<1>3. Moved
  BY <1>1, Stays DEF SessionInv, Moved, Follows, Goes
<1> QED BY <1>2, <1>3

\* Every step keeps the invariant, and moves the slot as a step may.
LEMMA NextKeeps == SessionInv /\ [Next]_vars => SessionInv' /\ Moved
<1> SUFFICES ASSUME SessionInv, [Next]_vars PROVE SessionInv' /\ Moved
  OBVIOUS
<1>1. CASE Wake
  BY <1>1, WakeKeeps
<1>2. CASE Messages
  BY <1>2, TakeRaiseKeeps, TakeEventKeeps, TakeReadingKeeps, TakeScriptKeeps DEF Messages
<1>3. CASE Turns
  BY <1>3, RunWindDownKeeps, RunBusKeeps, DrainPendingKeeps, PublishScheduleKeeps DEF Turns
<1>4. CASE World
  BY <1>4, TickKeeps, GoStaleKeeps DEF World
<1>5. CASE UNCHANGED vars
  BY <1>5, StutterKeeps
<1> QED BY <1>1, <1>2, <1>3, <1>4, <1>5 DEF Next

LEMMA SessionInvariant == Spec => []SessionInv
<1>1. SessionInv /\ [Next]_vars => SessionInv'
  BY NextKeeps
<1> QED BY <1>1, InitKeeps, PTL DEF Spec

-----------------------------------------------------------------------------
(* What the session promises.                                              *)

\* The slot stays what the code's types say it is: no budget, correlation number
\* or script number runs past its bound over any run of wakes (session_cog.rs).
THEOREM SessionTypes == Spec => []TypeOK
<1>1. SessionInv => TypeOK
  BY DEF SessionInv, Sane, Scalars, TypeOK
<1> QED BY <1>1, SessionInvariant, PTL

\* A release owed is all the session is doing and all it says, whatever faults,
\* answers and scripts arrive in whatever order (session_ladder.rs,
\* command_release; session_cog.rs, phase_intake; session_bus.rs, run_bus).
THEOREM NothingIsBesideARelease == Spec => []NothingBesideARelease
<1>1. SessionInv => NothingBesideARelease
  BY DEF SessionInv, Sane, Owing, Ending, Says, Asleep, NothingBesideARelease
<1> QED BY <1>1, SessionInvariant, PTL

\* A stow runs in its phase and no other, and what it was re-ranked to has been
\* commanded by the time the cog sleeps (session_stow.rs; winddown.rs).
THEOREM StowsAreGoverned == Spec => []StowIsGoverned
<1>1. SessionInv => StowIsGoverned
  BY DEF SessionInv, Sane, Stowing, Governed, Asleep, StowIsGoverned
<1> QED BY <1>1, SessionInvariant, PTL

\* Where no engagement is answered before it was asked for, the transaction in
\* flight is the degrade's or the live phase's own (session_bus.rs, settle_aux).
\* The premise is needed: an answer to an engagement given up takes the machine
\* out of the one it is in while the rail is still being read for it.
THEOREM TransactionsHaveOneOwner ==
  ASSUME "early" \notin Hazards
  PROVE  Spec => []TransactionHasOneOwner
<1>1. SessionInv => TransactionHasOneOwner
  BY DEF SessionInv, Sane, Owned, TransactionHasOneOwner
<1> QED BY <1>1, SessionInvariant, PTL

\* Torque is first asked for on a rail no reading of which is stale or low, of
\* every servo without an error, and of none with one but an antenna left out
\* (session_bus.rs, engage; session_cog.rs, merge_rail, record_readings).
THEOREM AsksOnlyOfTheFit == Spec => AsksOfTheFit
<1>1. SessionInv /\ [Next]_vars =>
        [slot.asked = 0 /\ slot'.asked # 0 =>
           \A r \in Rows : \/ slot'.rail[r] = "good" /\ r \in slot'.rows
                           \/ slot'.rail[r] = "flagged" /\ r \in Antennas \ slot'.rows]_vars
  BY NextKeeps DEF Moved, Asks, Fit
<1> QED BY <1>1, SessionInvariant, PTL DEF Spec, AsksOfTheFit

\* Where no cog raises a fault of a machine no longer commanded, the session
\* implements the life it promises (SessionLife): engaged only from rest with
\* nothing owed, under command only by way of an engagement, and parked for good.
\* With "late" the code leaves PARKED for RESTING, which is a finding of its own.
THEOREM LivesThePromisedLife ==
  ASSUME "late" \notin Hazards
  PROVE  Spec => LivesAsPromised
<1>1. Init => Life!Init
  BY DEF Init, Life!Init
<1>2. Lives(slot, slot') => [Life!Next]_(Life!vars)
  BY DEF Lives, PhaseKinds, Life!Next, Life!LetGo, Life!Confirmed, Life!Move, Life!Go, Life!vars
<1>3. SessionInv /\ [Next]_vars => [Life!Next]_(Life!vars)
  BY <1>2, NextKeeps DEF Moved
<1> QED BY <1>1, <1>3, SessionInvariant, PTL DEF Spec, LivesAsPromised, Life!Spec
=============================================================================
