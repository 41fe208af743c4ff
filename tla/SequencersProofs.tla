-------------------------- MODULE SequencersProofs --------------------------
(***************************************************************************)
(* Lemmas about the three conversations, for any number of servos, cells   *)
(* and profile registers and whatever the bus answers: what each move does *)
(* to a snapshot, and that a snapshot which claims no more than was said   *)
(* and heard still claims no more after its next step.  The proofs of the  *)
(* conversations and of the session both rest on them.                     *)
(***************************************************************************)
EXTENDS Sequencers, WellFoundedInduction, TLAPS

(* What the cursor's moves do to a snapshot, field by field.               *)

\* The fields no move of the cursor changes.
Alike(s, t) == t.kind = s.kind /\ t.rail = s.rail

LEMMA IntoIs ==
  ASSUME NEW s \in Snaps, NEW phase \in Phases
  PROVE  /\ Into(s, phase) \in Snaps /\ Alike(s, Into(s, phase))
         /\ Into(s, phase).phase = phase /\ Into(s, phase).at = 0
         /\ Into(s, phase).held = s.held /\ Into(s, phase).rows = s.rows
         /\ Into(s, phase).flag = FALSE
<1>1. 0 \in Nat /\ 0 \in 0..VoltageBudget
  BY SequencerConstants DEF SequencerConstants
<1> QED BY <1>1 DEF Into, Snaps, Alike

LEMMA LetIs ==
  ASSUME NEW s \in Snaps
  PROVE  /\ Let(s) \in Snaps /\ Alike(s, Let(s))
         /\ Let(s).phase = s.phase /\ Let(s).at = s.at
         /\ Let(s).held = FALSE /\ Let(s).rows = s.rows /\ Let(s).flag = s.flag
BY DEF Let, Snaps, Alike

LEMMA FailIs ==
  ASSUME NEW s \in Snaps
  PROVE  /\ Fail(s) \in Snaps /\ Fail(s).kind = s.kind
         /\ Fail(s).phase = "failed" /\ Fail(s).held = FALSE
         /\ Fail(s).rows = s.rows
<1> DEFINE t == Into(s, "failed")
<1>1. t \in Snaps /\ Alike(s, t) /\ t.phase = "failed" /\ t.rows = s.rows
  BY IntoIs DEF Phases
<1>2. Fail(s) = [t EXCEPT !.held = FALSE]
  BY DEF Fail
<1> HIDE DEF t
<1> QED BY <1>1, <1>2 DEF Snaps, Alike

LEMMA OnwardIs ==
  ASSUME NEW s \in Snaps, NEW count \in Nat, NEW then \in Phases
  PROVE  /\ Onward(s, count, then) \in Snaps /\ Alike(s, Onward(s, count, then))
         /\ Onward(s, count, then).held = s.held /\ Onward(s, count, then).rows = s.rows
         /\ s.at + 1 < count => /\ Onward(s, count, then).phase = s.phase
                                /\ Onward(s, count, then).at = s.at + 1
         /\ ~(s.at + 1 < count) => /\ Onward(s, count, then).phase = then
                                   /\ Onward(s, count, then).at = 0
<1>1. CASE s.at + 1 < count
  <2> DEFINE t == Onward(s, count, then)
  <2>1. t = [s EXCEPT !.at = s.at + 1] /\ s.at + 1 \in Nat
    BY <1>1 DEF Onward, Snaps
  <2> HIDE DEF t
  <2>2. /\ t \in Snaps /\ Alike(s, t) /\ t.held = s.held /\ t.rows = s.rows
        /\ t.phase = s.phase /\ t.at = s.at + 1
    BY <2>1 DEF Snaps, Alike
  <2> QED BY <1>1, <2>2 DEF t
<1>2. CASE ~(s.at + 1 < count)
  BY <1>2, IntoIs DEF Onward
<1> QED BY <1>1, <1>2

\* Whatever a new phase waits for, it has not begun to.
LEMMA OnwardStarts ==
  ASSUME NEW s \in Snaps, NEW count \in Nat, NEW then \in Phases, ~(s.at + 1 < count)
  PROVE  Onward(s, count, then).flag = FALSE
BY IntoIs DEF Onward

LEMMA ReadIs ==
  ASSUME NEW s \in Snaps, s.at \in Rows, NEW reading \in Readings
  PROVE  /\ Read(s, reading) \in Snaps /\ Read(s, reading).kind = s.kind
         /\ Read(s, reading).phase = s.phase /\ Read(s, reading).at = s.at
         /\ Read(s, reading).held = s.held /\ Read(s, reading).rows = s.rows
         /\ Read(s, reading).flag = s.flag
         /\ Read(s, reading).age = s.age
         /\ Read(s, reading).rail[s.at] = reading
         /\ \A r \in Rows : r # s.at => Read(s, reading).rail[r] = s.rail[r]
<1> DEFINE t == Read(s, reading)
           rail == [s.rail EXCEPT ![s.at] = reading]
<1>1. rail \in [Rows -> Readings] /\ rail[s.at] = reading
      /\ \A r \in Rows : r # s.at => rail[r] = s.rail[r]
  BY DEF Snaps
<1>2. t = [s EXCEPT !.rail = rail]
  BY DEF Read
<1> HIDE DEF t, rail
<1>3. /\ t \in Snaps /\ t.kind = s.kind /\ t.phase = s.phase /\ t.at = s.at /\ t.held = s.held
      /\ t.rows = s.rows /\ t.flag = s.flag /\ t.age = s.age /\ t.rail = rail
  BY <1>1, <1>2 DEF Snaps
<1> QED BY <1>1, <1>3 DEF t

\* A snapshot that has its transaction made out.
Issued(s) == [s EXCEPT !.held = TRUE]

LEMMA IssuedIs ==
  ASSUME NEW s \in Snaps
  PROVE  /\ Issued(s) \in Snaps /\ Alike(s, Issued(s))
         /\ Issued(s).phase = s.phase /\ Issued(s).at = s.at
         /\ Issued(s).held = TRUE /\ Issued(s).rows = s.rows /\ Issued(s).flag = s.flag
BY DEF Issued, Snaps, Alike

-----------------------------------------------------------------------------
(* What a step leaves on the record: a of what was asked, h of what was     *)
(* heard, g of what was good.                                               *)

Noted(e, result, a, h, g, a2, h2, g2) ==
  /\ a2 = a \cup {e}
  /\ \A x : x # e => (x \in h2 <=> x \in h) /\ (x \in g2 <=> x \in g)
  /\ result \in {"ok", "odd"} => e \in h2
  /\ e \in g2 <=> result = "ok"
  /\ g2 \subseteq h2 /\ h2 \subseteq a2

\* A sweep that is complete is not undone by what is asked in another phase.
LEMMA StepsKept ==
  ASSUME NEW q, NEW count \in Nat, NEW h, Steps(q, count) \subseteq h, NEW p, NEW n, p # q, NEW h2,
         \A x : x # <<p, n>> => (x \in h2 <=> x \in h)
  PROVE  Steps(q, count) \subseteq h2
<1> SUFFICES ASSUME NEW i \in 0..(count - 1) PROVE <<q, i>> \in h2
  BY DEF Steps
<1>1. <<q, i>> \in h
  BY DEF Steps
<1>2. <<q, i>> # <<p, n>>
  OBVIOUS
<1> QED BY <1>1, <1>2

LEMMA StepsMade ==
  ASSUME NEW q, NEW count \in Nat, NEW h, \A i \in 0..(count - 1) : <<q, i>> \in h
  PROVE  Steps(q, count) \subseteq h
BY DEF Steps

\* One more of a sweep is behind the cursor.
LEMMA OneMore ==
  ASSUME NEW n \in Nat, NEW i \in 0..n
  PROVE  i = n \/ i \in 0..(n - 1)
OBVIOUS

-----------------------------------------------------------------------------
(* The disarm.                                                             *)

DisarmFits(s, a, g) ==
  /\ s.rows = {r \in Rows : <<"release", r>> \in g}
  /\ \/ /\ s.phase = "dwell" /\ s.held = FALSE
        /\ \A r \in Rows : <<"release", r>> \notin g
     \/ /\ s.phase = "verify" /\ s.held = TRUE /\ s.at < N
        /\ \A i \in 0..(s.at - 1) : <<"verify", i>> \in a
        /\ \A r \in Rows : <<"release", r>> \notin g
     \/ /\ s.phase = "release" /\ s.held = TRUE /\ s.at < N
        /\ Steps("verify", N) \subseteq a
        /\ \A i \in 0..(s.at - 1) : <<"release", i>> \in a
        /\ \A r \in Rows : r >= s.at => <<"release", r>> \notin g
     \/ /\ s.phase = "complete" /\ s.held = FALSE
        /\ Steps("verify", N) \cup Steps("release", N) \subseteq a

\* A disarm that has ended its dwell puts its first question.
LEMMA DisarmWaits ==
  ASSUME NEW s \in Snaps, s.kind = "disarm", s.phase = "dwell", s.held = FALSE, NEW prior,
         NEW a, NEW g, DisarmFits(s, a, g)
  PROVE  /\ Step(s, prior) \in Snaps /\ Step(s, prior).kind = "disarm"
         /\ DisarmFits(Step(s, prior), a, g)
<1> DEFINE t == Step(s, prior)
           u == Into(s, "verify")
<1>1. t = DisarmEmit(s)
  BY DEF Step, DisarmNext, DisarmAbsorb
<1>2. \/ t = [s EXCEPT !.flag = FALSE]
      \/ t = Issued(u)
  BY <1>1 DEF DisarmEmit, Done, Issued
<1>3. /\ u \in Snaps /\ Alike(s, u) /\ u.phase = "verify" /\ u.at = 0 /\ u.rows = s.rows
  BY IntoIs DEF Phases
<1> HIDE DEF t, u
<1>4. /\ s.rows = {r \in Rows : <<"release", r>> \in g}
      /\ \A r \in Rows : <<"release", r>> \notin g
  BY DEF DisarmFits
<1>5. CASE t = [s EXCEPT !.flag = FALSE]
  <2>1. /\ t \in Snaps /\ t.kind = "disarm" /\ t.phase = "dwell" /\ t.held = FALSE
        /\ t.rows = s.rows
    BY <1>5 DEF Snaps
  <2> QED BY <1>4, <2>1 DEF t, DisarmFits
<1>6. CASE t = Issued(u)
  <2>1. /\ t \in Snaps /\ t.kind = "disarm" /\ t.phase = "verify" /\ t.held = TRUE
        /\ t.rows = s.rows /\ t.at = 0
    BY <1>3, <1>6, IssuedIs DEF Alike
  <2>2. 0 < N /\ \A i \in 0..(0 - 1) : <<"verify", i>> \in a
    BY SequencerConstants DEF SequencerConstants
  <2> QED BY <1>4, <2>1, <2>2 DEF t, DisarmFits
<1> QED BY <1>2, <1>5, <1>6

\* An answer, whatever it is, takes it on to the next servo or the next sweep.
LEMMA DisarmAnswered ==
  ASSUME NEW s \in Snaps, s.kind = "disarm", s.held = TRUE, NEW prior,
         NEW a, NEW h, NEW g, NEW a2, NEW h2, NEW g2, DisarmFits(s, a, g),
         Noted(<<s.phase, s.at>>, prior, a, h, g, a2, h2, g2)
  PROVE  /\ Step(s, prior) \in Snaps /\ Step(s, prior).kind = "disarm"
         /\ DisarmFits(Step(s, prior), a2, g2)
<1> DEFINE t == Step(s, prior)
           l == Let(s)
<1>0. N \in Nat /\ N > 0 /\ s.at \in Nat
  BY SequencerConstants DEF SequencerConstants, Snaps
<1>1. /\ l \in Snaps /\ Alike(s, l) /\ l.phase = s.phase /\ l.at = s.at /\ l.held = FALSE
      /\ l.rows = s.rows
  BY LetIs
<1>2. t = DisarmEmit(DisarmAbsorb(s, prior))
  BY DEF Step, DisarmNext
<1>3. \A x \in a : x \in a2
  BY DEF Noted
<1>4. <<s.phase, s.at>> \in a2
  BY DEF Noted
<1>5. CASE s.phase = "verify"
  <2> DEFINE u == Onward(l, N, "release")
  <2>1. DisarmAbsorb(s, prior) = u
    BY <1>5 DEF DisarmAbsorb
  <2>2. /\ s.at < N /\ s.rows = {r \in Rows : <<"release", r>> \in g}
        /\ \A i \in 0..(s.at - 1) : <<"verify", i>> \in a
        /\ \A r \in Rows : <<"release", r>> \notin g
    BY <1>5 DEF DisarmFits
  <2>3. \A r \in Rows : <<"release", r>> \in g2 <=> <<"release", r>> \in g
    <3>1. \A r : <<"release", r>> # <<s.phase, s.at>>
      BY <1>5
    <3> QED BY <3>1 DEF Noted
  <2>4. /\ u \in Snaps /\ Alike(l, u) /\ u.held = FALSE /\ u.rows = s.rows
        /\ s.at + 1 < N => u.phase = "verify" /\ u.at = s.at + 1
        /\ ~(s.at + 1 < N) => u.phase = "release" /\ u.at = 0
    <3>1. "release" \in Phases
      BY DEF Phases
    <3> HIDE DEF l
    <3>2. l \in Snaps /\ N \in Nat
      BY <1>0, <1>1
    <3>3. /\ Onward(l, N, "release") \in Snaps /\ Alike(l, Onward(l, N, "release"))
          /\ Onward(l, N, "release").held = l.held
          /\ Onward(l, N, "release").rows = l.rows
          /\ l.at + 1 < N => /\ Onward(l, N, "release").phase = l.phase
                            /\ Onward(l, N, "release").at = l.at + 1
          /\ ~(l.at + 1 < N) => /\ Onward(l, N, "release").phase = "release"
                               /\ Onward(l, N, "release").at = 0
      BY <3>1, <3>2, OnwardIs
    <3> QED BY <1>1, <1>5, <3>3
  <2> HIDE DEF u
  <2>5. t = Issued(u)
    BY <1>2, <2>1, <2>4 DEF DisarmEmit, Done, Issued
  <2> HIDE DEF t, l
  <2>6. /\ t \in Snaps /\ t.kind = "disarm" /\ t.phase = u.phase /\ t.at = u.at
        /\ t.held = TRUE /\ t.rows = s.rows
    <3>1. u \in Snaps /\ u.kind = "disarm" /\ u.rows = s.rows
      BY <1>1, <2>4 DEF Alike
    <3>2. /\ Issued(u) \in Snaps /\ Alike(u, Issued(u)) /\ Issued(u).phase = u.phase
          /\ Issued(u).at = u.at /\ Issued(u).held = TRUE /\ Issued(u).rows = u.rows
      BY <3>1, IssuedIs
    <3> QED BY <2>5, <3>1, <3>2 DEF Alike
  <2>7. t.rows = {r \in Rows : <<"release", r>> \in g2}
    BY <2>2, <2>3, <2>6
  <2>8. \A i \in 0..s.at : <<"verify", i>> \in a2
    BY <1>0, <1>3, <1>4, <1>5, <2>2, OneMore
  <2>9. CASE s.at + 1 < N
    <3>1. t.at - 1 = s.at
      BY <1>0, <2>4, <2>6, <2>9
    <3> QED BY <2>2, <2>3, <2>4, <2>6, <2>7, <2>8, <2>9, <3>1 DEF t, DisarmFits
  <2>10. CASE ~(s.at + 1 < N)
    <3>1. N - 1 = s.at
      BY <1>0, <2>2, <2>10
    <3>2. Steps("verify", N) \subseteq a2
      BY <1>0, <2>8, <3>1, StepsMade
    <3>3. t.at = 0 /\ t.at < N /\ \A i \in 0..(0 - 1) : <<"release", i>> \in a2
      BY <1>0, <2>4, <2>6, <2>10
    <3> QED BY <2>2, <2>3, <2>4, <2>6, <2>7, <2>10, <3>2, <3>3 DEF t, DisarmFits
  <2> QED BY <2>9, <2>10
<1>6. CASE s.phase = "release"
  <2> DEFINE filed == ReleaseFiled(l, prior)
             u == Onward(filed, N, "complete")
  <2>1. DisarmAbsorb(s, prior) = u
    BY <1>6 DEF DisarmAbsorb
  <2>2. /\ s.at < N /\ s.rows = {r \in Rows : <<"release", r>> \in g}
        /\ Steps("verify", N) \subseteq a
        /\ \A i \in 0..(s.at - 1) : <<"release", i>> \in a
        /\ \A r \in Rows : r >= s.at => <<"release", r>> \notin g
    BY <1>6 DEF DisarmFits
  <2> DEFINE rows == IF prior = "ok" THEN s.rows \cup {s.at} ELSE s.rows
  <2>3. s.at \in Rows /\ rows \in SUBSET Rows
    BY <1>0, <2>2 DEF Rows, Snaps
  <2>4. /\ filed \in Snaps /\ Alike(l, filed) /\ filed.phase = "release" /\ filed.at = s.at
        /\ filed.held = FALSE /\ filed.rows = rows
    <3>1. filed = [l EXCEPT !.rows = rows]
      BY <1>1 DEF ReleaseFiled
    <3> HIDE DEF filed, rows, l
    <3> QED BY <1>1, <1>6, <2>3, <3>1 DEF Snaps, Alike
  <2> HIDE DEF filed
  <2>5. /\ u \in Snaps /\ Alike(filed, u) /\ u.held = FALSE /\ u.rows = rows
        /\ s.at + 1 < N => u.phase = "release" /\ u.at = s.at + 1
        /\ ~(s.at + 1 < N) => u.phase = "complete" /\ u.at = 0
    <3>1. "complete" \in Phases
      BY DEF Phases
    <3> HIDE DEF rows
    <3>2. filed \in Snaps /\ N \in Nat
      BY <1>0, <2>4
    <3>3. /\ Onward(filed, N, "complete") \in Snaps /\ Alike(filed, Onward(filed, N, "complete"))
          /\ Onward(filed, N, "complete").held = filed.held
          /\ Onward(filed, N, "complete").rows = filed.rows
          /\ filed.at + 1 < N => /\ Onward(filed, N, "complete").phase = filed.phase
                            /\ Onward(filed, N, "complete").at = filed.at + 1
          /\ ~(filed.at + 1 < N) => /\ Onward(filed, N, "complete").phase = "complete"
                               /\ Onward(filed, N, "complete").at = 0
      BY <3>1, <3>2, OnwardIs
    <3> QED BY <2>4, <3>3
  <2>11. u.kind = "disarm"
    BY <1>1, <2>4, <2>5 DEF Alike
  <2>6. rows = {r \in Rows : <<"release", r>> \in g2}
    <3>1. \A r \in Rows : r # s.at => (<<"release", r>> \in g2 <=> <<"release", r>> \in g)
      <4>1. \A r \in Rows : r # s.at => <<"release", r>> # <<s.phase, s.at>>
        OBVIOUS
      <4> QED BY <4>1 DEF Noted
    <3>2. <<"release", s.at>> \in g2 <=> prior = "ok"
      BY <1>6 DEF Noted
    <3>3. <<"release", s.at>> \notin g
      BY <1>0, <2>2, <2>3
    <3> QED BY <2>2, <2>3, <3>1, <3>2, <3>3
  <2>7. \A i \in 0..s.at : <<"release", i>> \in a2
    BY <1>0, <1>3, <1>4, <1>6, <2>2, OneMore
  <2>8. Steps("verify", N) \subseteq a2
    BY <1>3, <2>2
  <2> HIDE DEF u, rows
  <2>9. CASE s.at + 1 < N
    <3>1. t = Issued(u)
      BY <1>2, <2>1, <2>5, <2>9 DEF DisarmEmit, Done, Issued
    <3> HIDE DEF t, l
    <3>2. /\ t \in Snaps /\ t.kind = "disarm" /\ t.phase = "release" /\ t.at = s.at + 1
          /\ t.held = TRUE /\ t.rows = rows
      BY <2>5, <2>9, <2>11, <3>1, IssuedIs DEF Alike
    <3>3. t.at - 1 = s.at /\ t.at < N
      BY <1>0, <2>9, <3>2
    <3>4. \A r \in Rows : r >= t.at => <<"release", r>> \notin g2
      <4>1. \A r \in Rows : r >= t.at => r >= s.at /\ r # s.at
        BY <1>0, <3>2 DEF Rows
      <4>2. \A r \in Rows : r # s.at => <<"release", r>> # <<s.phase, s.at>>
        OBVIOUS
      <4> QED BY <2>2, <4>1, <4>2 DEF Noted
    <3> QED BY <2>6, <2>7, <2>8, <3>2, <3>3, <3>4 DEF t, DisarmFits
  <2>10. CASE ~(s.at + 1 < N)
    <3>1. t = u
      BY <1>2, <2>1, <2>5, <2>10 DEF DisarmEmit, Done
    <3>2. N - 1 = s.at
      BY <1>0, <2>2, <2>10
    <3>3. Steps("release", N) \subseteq a2
      BY <1>0, <2>7, <3>2, StepsMade
    <3> HIDE DEF t, l
    <3> QED BY <2>5, <2>6, <2>8, <2>10, <2>11, <3>1, <3>3 DEF t, DisarmFits
  <2> QED BY <2>9, <2>10
<1> QED BY <1>5, <1>6 DEF DisarmFits

-----------------------------------------------------------------------------
(* Commissioning.                                                          *)

\* What the phases before each phase have established.
Known(h, g) == Steps("presence", N) \subseteq h /\ Steps("identity", N) \subseteq g
Checked(g) == {<<"provision", c>> : c \in CheckedCells} \subseteq g
Configurable(h, g) == /\ Known(h, g) /\ Checked(g)
                      /\ Steps("voltage", N) \subseteq g /\ Steps("health", N) \subseteq h

InPresence(s, h) == /\ s.phase = "presence" /\ s.held = TRUE /\ s.at < N
                    /\ \A i \in 0..(s.at - 1) : <<"presence", i>> \in h \/ i \in s.rows
InIdentity(s, h, g) == /\ s.phase = "identity" /\ s.held = TRUE /\ s.at < N
                       /\ Steps("presence", N) \subseteq h
                       /\ \A i \in 0..(s.at - 1) : <<"identity", i>> \in g \/ i \in s.rows
InProvision(s, h, g) == /\ s.phase = "provision" /\ s.held = TRUE /\ s.at < ProvisionCells
                        /\ Known(h, g)
                        /\ \A i \in 0..(s.at - 1) : i \in CheckedCells => <<"provision", i>> \in g
InVoltage(s, h, g) == /\ s.phase = "voltage" /\ s.at < N
                      /\ Known(h, g) /\ Checked(g)
                      /\ \A i \in 0..(s.at - 1) : s.rail[i] # "low" => <<"voltage", i>> \in g
InHealth(s, h, g) == /\ s.phase = "health" /\ s.held = TRUE /\ s.at < N
                     /\ Known(h, g) /\ Checked(g) /\ Steps("voltage", N) \subseteq g
                     /\ \A i \in 0..(s.at - 1) : <<"health", i>> \in h
InGains(s, h, g) == /\ s.phase = "gains" /\ s.held = TRUE /\ s.at < Writes
                    /\ Configurable(h, g)
                    /\ \A i \in 0..(s.at - 1) : <<"gains", i>> \in g
IsCommissioned(s, h, g) == /\ s.phase = "complete" /\ s.held = FALSE
                           /\ Configurable(h, g) /\ Steps("gains", Writes) \subseteq g

CommissionFits(s, h, g) ==
  \/ s.phase = "failed" /\ s.held = FALSE
  \/ InPresence(s, h) \/ InIdentity(s, h, g) \/ InProvision(s, h, g) \/ InVoltage(s, h, g)
  \/ InHealth(s, h, g) \/ InGains(s, h, g) \/ IsCommissioned(s, h, g)

LEMMA Counts == /\ N \in Nat /\ N > 0 /\ ProvisionCells \in Nat /\ Writes \in Nat /\ Writes > 0
                /\ CheckedCells \subseteq 0..(ProvisionCells - 1)
<1>1. /\ N \in Nat /\ N > 0 /\ ProvisionCells \in Nat /\ ProfileRegs \in Nat
      /\ CheckedCells \subseteq 0..(ProvisionCells - 1)
  BY SequencerConstants DEF SequencerConstants
<1>2. N * ProfileRegs \in Nat
  BY <1>1
<1> QED BY <1>1, <1>2 DEF Writes

\* A commissioning that gives up says nothing more.
LEMMA GivesUp ==
  ASSUME NEW x \in Snaps, x.kind = "commission", NEW h, NEW g
  PROVE  /\ CommissionEmit(Fail(x)) \in Snaps /\ CommissionEmit(Fail(x)).kind = "commission"
         /\ CommissionFits(CommissionEmit(Fail(x)), h, g)
<1> DEFINE t == Fail(x)
<1>1. t \in Snaps /\ t.kind = "commission" /\ t.phase = "failed" /\ t.held = FALSE
  BY FailIs
<1>2. CommissionEmit(t) = t
  BY <1>1 DEF CommissionEmit, Failed, Done
<1> HIDE DEF t
<1>3. CommissionEmit(t) \in Snaps /\ CommissionEmit(t).kind = "commission"
      /\ CommissionFits(CommissionEmit(t), h, g)
  BY <1>1, <1>2 DEF CommissionFits
<1> QED BY <1>3 DEF t

\* A commissioning one servo further, in its next phase, and at its end.
WentOn(x, t) == /\ t \in Snaps /\ t.kind = "commission" /\ t.rows = x.rows /\ t.rail = x.rail
                /\ t.phase = x.phase /\ t.at = x.at + 1 /\ t.held = TRUE
MovedOn(then, t) == /\ t \in Snaps /\ t.kind = "commission" /\ t.phase = then
                    /\ t.at = 0 /\ t.held = TRUE
EndedAs(phase, t) == /\ t \in Snaps /\ t.kind = "commission" /\ t.phase = phase
                     /\ t.held = FALSE

\* What is not over is put to the bus.
LEMMA Emits ==
  ASSUME NEW u \in Snaps, u.kind = "commission", u.phase \notin {"complete", "failed"},
         u.phase = "voltage" => u.flag = FALSE
  PROVE  CommissionEmit(u) = Issued(u)
BY DEF CommissionEmit, Done, Failed, Issued

\* A sweep goes on to the next.
LEMMA GoesOn ==
  ASSUME NEW x \in Snaps, x.kind = "commission",
         x.phase \notin {"voltage", "complete", "failed"},
         NEW count \in Nat, NEW then \in Phases, x.at + 1 < count
  PROVE  WentOn(x, CommissionEmit(Onward(x, count, then)))
<1> DEFINE u == Onward(x, count, then)
<1>1. /\ u \in Snaps /\ Alike(x, u) /\ u.rows = x.rows
      /\ u.phase = x.phase /\ u.at = x.at + 1
  BY OnwardIs
<1> HIDE DEF u
<1>2. u.kind = "commission" /\ u.rail = x.rail
  BY <1>1 DEF Alike
<1>3. CommissionEmit(u) = Issued(u)
  BY <1>1, <1>2, Emits
<1>4. /\ Issued(u) \in Snaps /\ Alike(u, Issued(u)) /\ Issued(u).phase = u.phase
      /\ Issued(u).at = u.at /\ Issued(u).held = TRUE /\ Issued(u).rows = u.rows
  BY <1>1, IssuedIs
<1>5. Issued(u).kind = "commission" /\ Issued(u).rail = x.rail
  BY <1>2, <1>4 DEF Alike
<1> QED BY <1>1, <1>3, <1>4, <1>5 DEF u, WentOn

\* Or on to the phase after it.
LEMMA MovesOn ==
  ASSUME NEW x \in Snaps, x.kind = "commission", NEW count \in Nat, NEW then \in Phases,
         then \notin {"complete", "failed"}, ~(x.at + 1 < count)
  PROVE  MovedOn(then, CommissionEmit(Onward(x, count, then)))
<1> DEFINE u == Onward(x, count, then)
<1>1. u \in Snaps /\ Alike(x, u) /\ u.phase = then /\ u.at = 0
  BY OnwardIs
<1>2. u.flag = FALSE
  BY OnwardStarts
<1> HIDE DEF u
<1>3. u.kind = "commission"
  BY <1>1 DEF Alike
<1>4. CommissionEmit(u) = Issued(u)
  BY <1>1, <1>2, <1>3, Emits
<1>5. /\ Issued(u) \in Snaps /\ Alike(u, Issued(u)) /\ Issued(u).phase = u.phase
      /\ Issued(u).at = u.at /\ Issued(u).held = TRUE
  BY <1>1, IssuedIs
<1>6. Issued(u).kind = "commission"
  BY <1>3, <1>5 DEF Alike
<1> QED BY <1>1, <1>4, <1>5, <1>6 DEF u, MovedOn

\* Or it is the last, and nothing more is said.
LEMMA SweepEnds ==
  ASSUME NEW x \in Snaps, x.kind = "commission", x.held = FALSE, NEW count \in Nat,
         ~(x.at + 1 < count)
  PROVE  EndedAs("complete", CommissionEmit(Onward(x, count, "complete")))
<1> DEFINE u == Onward(x, count, "complete")
<1>1. u \in Snaps /\ Alike(x, u) /\ u.phase = "complete" /\ u.held = FALSE
  <2>1. "complete" \in Phases
    BY DEF Phases
  <2>2. u \in Snaps /\ Alike(x, u) /\ u.held = x.held /\ u.phase = "complete"
    BY <2>1, OnwardIs
  <2> QED BY <2>2
<1> HIDE DEF u
<1>2. CommissionEmit(u) = u
  BY <1>1 DEF CommissionEmit, Done
<1> QED BY <1>1, <1>2 DEF u, Alike, EndedAs

\* The servo at the cursor is heard, and then everything up to it is.
LEMMA HeardUpTo ==
  ASSUME NEW q, NEW n \in Nat, NEW h, NEW h2, NEW rows,
         \A i \in 0..(n - 1) : <<q, i>> \in h \/ i \in rows,
         <<q, n>> \in h2 \/ n \in rows,
         \A x : x # <<q, n>> => (x \in h2 <=> x \in h)
  PROVE  \A i \in 0..n : <<q, i>> \in h2 \/ i \in rows
<1> SUFFICES ASSUME NEW i \in 0..n, i # n PROVE <<q, i>> \in h2 \/ i \in rows
  OBVIOUS
<1>1. i \in 0..(n - 1) /\ <<q, i>> # <<q, n>>
  BY OneMore
<1> QED BY <1>1

LEMMA AllUpTo ==
  ASSUME NEW q, NEW n \in Nat, NEW h, NEW h2, \A i \in 0..(n - 1) : <<q, i>> \in h, <<q, n>> \in h2,
         \A x : x # <<q, n>> => (x \in h2 <=> x \in h)
  PROVE  \A i \in 0..n : <<q, i>> \in h2
<1> SUFFICES ASSUME NEW i \in 0..n, i # n PROVE <<q, i>> \in h2
  OBVIOUS
<1>1. i \in 0..(n - 1) /\ <<q, i>> # <<q, n>>
  BY OneMore
<1> QED BY <1>1

LEMMA KnownKept ==
  ASSUME NEW h, NEW g, NEW h2, NEW g2, Known(h, g), NEW p, p \notin {"presence", "identity"},
         NEW n, \A x : x # <<p, n>> => (x \in h2 <=> x \in h) /\ (x \in g2 <=> x \in g)
  PROVE  Known(h2, g2)
<1>0. /\ N \in Nat
      /\ \A x : x # <<p, n>> => (x \in h2 <=> x \in h)
      /\ \A x : x # <<p, n>> => (x \in g2 <=> x \in g)
  BY Counts
<1>1. Steps("presence", N) \subseteq h2
  <2>1. Steps("presence", N) \subseteq h
    BY DEF Known
  <2> QED BY <1>0, <2>1, StepsKept
<1>2. Steps("identity", N) \subseteq g2
  <2>1. Steps("identity", N) \subseteq g
    BY DEF Known
  <2> QED BY <1>0, <2>1, StepsKept
<1> QED BY <1>1, <1>2 DEF Known

LEMMA CheckedKept ==
  ASSUME NEW g, NEW g2, Checked(g), NEW p, p # "provision", NEW n,
         \A x : x # <<p, n>> => (x \in g2 <=> x \in g)
  PROVE  Checked(g2)
<1> SUFFICES ASSUME NEW c \in CheckedCells PROVE <<"provision", c>> \in g2
  BY DEF Checked
<1>1. <<"provision", c>> \in g /\ <<"provision", c>> # <<p, n>>
  BY DEF Checked
<1> QED BY <1>1

\* Each phase takes the answer that is its own.
LEMMA PresenceAnswered ==
  ASSUME NEW s \in Snaps, s.kind = "commission", NEW prior \in Results,
         NEW a, NEW h, NEW g, NEW a2, NEW h2, NEW g2, InPresence(s, h),
         Noted(<<s.phase, s.at>>, prior, a, h, g, a2, h2, g2)
  PROVE  /\ Step(s, prior) \in Snaps /\ Step(s, prior).kind = "commission"
         /\ CommissionFits(Step(s, prior), h2, g2)
<1> DEFINE t == Step(s, prior)
           l == Let(s)
           rows == IF prior = "none" THEN s.rows \cup {s.at} ELSE s.rows
           x == [l EXCEPT !.rows = rows]
<1>1. /\ s.phase = "presence" /\ s.held = TRUE /\ s.at < N
      /\ \A i \in 0..(s.at - 1) : <<"presence", i>> \in h \/ i \in s.rows
  BY DEF InPresence
<1>2. /\ l \in Snaps /\ l.kind = "commission" /\ l.phase = "presence" /\ l.at = s.at
      /\ l.held = FALSE /\ l.rows = s.rows
  BY <1>1, LetIs DEF Alike
<1>3. prior # "nothing" /\ prior \in {"ok", "odd", "none", "error"}
  BY DEF Results
<1>4. t = CommissionEmit(AbsorbPresence(l, prior))
  BY <1>1, <1>3 DEF Step, CommissionNext, CommissionAbsorb
<1>5. s.at \in Nat /\ s.at \in Rows /\ N \in Nat /\ N > 0
  BY <1>1, Counts DEF Rows, Snaps
<1>6. rows \in SUBSET Rows /\ s.rows \subseteq rows
  BY <1>5 DEF Snaps
<1> HIDE DEF l
<1>7. CASE prior = "error"
  <2>1. t = CommissionEmit(Fail(l))
    BY <1>4, <1>7 DEF AbsorbPresence
  <2> HIDE DEF t
  <2> QED BY <1>2, <2>1, GivesUp DEF t
<1>8. CASE prior # "error"
  <2> HIDE DEF rows
  <2>1. /\ x \in Snaps /\ x.kind = "commission" /\ x.phase = "presence" /\ x.at = s.at
        /\ x.held = FALSE /\ x.rows = rows
    BY <1>2, <1>6 DEF Snaps
  <2>2. t = CommissionEmit(AfterPresence(x))
    <3>1. CASE prior = "none"
      BY <1>2, <1>4, <3>1 DEF AbsorbPresence, rows
    <3>2. CASE prior # "none"
      <4>1. l = x
        BY <1>2, <3>2 DEF rows, Snaps
      <4>2. AbsorbPresence(l, prior) = AfterPresence(l)
        BY <1>8, <3>2 DEF AbsorbPresence
      <4> QED BY <1>4, <4>1, <4>2
    <3> QED BY <3>1, <3>2
  <2>3. \A i \in 0..s.at : <<"presence", i>> \in h2 \/ i \in rows
    <3>1. \A i \in 0..(s.at - 1) : <<"presence", i>> \in h \/ i \in rows
      BY <1>1, <1>6
    <3>2. <<"presence", s.at>> \in h2 \/ s.at \in rows
      BY <1>1, <1>3, <1>8 DEF Noted, rows
    <3>3. \A e : e # <<"presence", s.at>> => (e \in h2 <=> e \in h)
      BY <1>1 DEF Noted
    <3> QED BY <1>5, <3>1, <3>2, <3>3, HeardUpTo
  <2> HIDE DEF x, t
  <2>4. CASE ~(s.at + 1 < N) /\ rows # {}
    <3>1. t = CommissionEmit(Fail(x))
      BY <2>1, <2>2, <2>4 DEF AfterPresence
    <3> QED BY <2>1, <3>1, GivesUp DEF t
  <2>5. CASE s.at + 1 < N \/ rows = {}
    <3>1. AfterPresence(x) = Onward(x, N, "identity")
      BY <2>1, <2>5 DEF AfterPresence, Onward
    <3>2. "identity" \in Phases
      BY DEF Phases
    <3>3. t = CommissionEmit(Onward(x, N, "identity"))
      BY <2>2, <3>1
    <3>6. x.phase \notin {"voltage", "complete", "failed"}
      BY <2>1
    <3>4. CASE s.at + 1 < N
      <4>0. WentOn(x, t)
        <5>1. x.at + 1 < N
          BY <2>1, <3>4
        <5>2. WentOn(x, CommissionEmit(Onward(x, N, "identity")))
          BY <1>5, <2>1, <3>2, <3>6, <5>1, GoesOn
        <5> QED BY <3>3, <5>2
      <4>1. /\ t \in Snaps /\ t.kind = "commission" /\ t.rows = x.rows
            /\ t.phase = x.phase /\ t.at = x.at + 1 /\ t.held = TRUE
        BY <4>0 DEF WentOn
      <4>2. t.at - 1 = s.at /\ t.at < N /\ t.phase = "presence" /\ t.rows = rows
        BY <1>5, <2>1, <3>4, <4>1
      <4>3. InPresence(t, h2)
        BY <2>3, <4>1, <4>2 DEF InPresence
      <4> QED BY <4>1, <4>3 DEF t, CommissionFits
    <3>5. CASE ~(s.at + 1 < N)
      <4>1. /\ t \in Snaps /\ t.kind = "commission" /\ t.phase = "identity" /\ t.at = 0
            /\ t.held = TRUE /\ t.at < N
        <5>1. ~(x.at + 1 < N)
          BY <2>1, <3>5
        <5>2. MovedOn("identity", CommissionEmit(Onward(x, N, "identity")))
          BY <1>5, <2>1, <3>2, <5>1, MovesOn
        <5>3. MovedOn("identity", t)
          BY <3>3, <5>2
        <5> QED BY <1>5, <5>3 DEF MovedOn
      <4>2. N - 1 = s.at /\ rows = {}
        BY <1>1, <1>5, <2>5, <3>5
      <4>3. Steps("presence", N) \subseteq h2
        BY <1>5, <2>3, <4>2, StepsMade
      <4>4. \A i \in 0..(0 - 1) : <<"identity", i>> \in g2 \/ i \in t.rows
        OBVIOUS
      <4>5. InIdentity(t, h2, g2)
        BY <4>1, <4>3, <4>4 DEF InIdentity
      <4> QED BY <4>1, <4>5 DEF t, CommissionFits
    <3> QED BY <3>4, <3>5
  <2> QED BY <2>4, <2>5
<1> QED BY <1>7, <1>8

LEMMA IdentityAnswered ==
  ASSUME NEW s \in Snaps, s.kind = "commission", NEW prior \in Results,
         NEW a, NEW h, NEW g, NEW a2, NEW h2, NEW g2, InIdentity(s, h, g),
         Noted(<<s.phase, s.at>>, prior, a, h, g, a2, h2, g2)
  PROVE  /\ Step(s, prior) \in Snaps /\ Step(s, prior).kind = "commission"
         /\ CommissionFits(Step(s, prior), h2, g2)
<1> DEFINE t == Step(s, prior)
           l == Let(s)
           rows == IF prior = "odd" THEN s.rows \cup {s.at} ELSE s.rows
           x == [l EXCEPT !.rows = rows]
           then == IF ProvisionCells > 0 THEN "provision" ELSE "voltage"
<1>1. /\ s.phase = "identity" /\ s.held = TRUE /\ s.at < N /\ Steps("presence", N) \subseteq h
      /\ \A i \in 0..(s.at - 1) : <<"identity", i>> \in g \/ i \in s.rows
  BY DEF InIdentity
<1>2. /\ l \in Snaps /\ l.kind = "commission" /\ l.phase = "identity" /\ l.at = s.at
      /\ l.held = FALSE /\ l.rows = s.rows
  BY <1>1, LetIs DEF Alike
<1>3. prior # "nothing" /\ prior \in {"ok", "odd", "none", "error"}
  BY DEF Results
<1>4. t = CommissionEmit(AbsorbIdentity(l, prior))
  BY <1>1, <1>3 DEF Step, CommissionNext, CommissionAbsorb
<1>5. s.at \in Nat /\ s.at \in Rows /\ N \in Nat /\ N > 0
  BY <1>1, Counts DEF Rows, Snaps
<1>6. rows \in SUBSET Rows /\ s.rows \subseteq rows
  BY <1>5 DEF Snaps
<1> HIDE DEF l
<1>7. CASE prior \in {"none", "error"}
  <2>1. t = CommissionEmit(Fail(l))
    BY <1>4, <1>7 DEF AbsorbIdentity
  <2> HIDE DEF t
  <2> QED BY <1>2, <2>1, GivesUp DEF t
<1>8. CASE prior \notin {"none", "error"}
  <2>1. /\ x \in Snaps /\ x.kind = "commission" /\ x.phase = "identity" /\ x.at = s.at
        /\ x.held = FALSE /\ x.rows = rows
    <3> HIDE DEF rows
    <3> QED BY <1>2, <1>6 DEF Snaps
  <2>2. t = CommissionEmit(IF s.at + 1 < N THEN [x EXCEPT !.at = s.at + 1]
                           ELSE IF rows # {} THEN Fail(l) ELSE ToProvision(x))
    <3>1. x = [l EXCEPT !.rows = IF prior = "odd" THEN l.rows \cup {l.at} ELSE l.rows]
      BY <1>2
    <3> HIDE DEF x, rows
    <3>2. AbsorbIdentity(l, prior) = IF l.at + 1 < N THEN [x EXCEPT !.at = x.at + 1]
                                     ELSE IF x.rows # {} THEN Fail(l) ELSE ToProvision(x)
      BY <1>8, <3>1 DEF AbsorbIdentity
    <3> QED BY <1>2, <1>4, <2>1, <3>2
  <2> HIDE DEF rows
  <2>3. \A i \in 0..s.at : <<"identity", i>> \in g2 \/ i \in rows
    <3>1. \A i \in 0..(s.at - 1) : <<"identity", i>> \in g \/ i \in rows
      BY <1>1, <1>6
    <3>2. <<"identity", s.at>> \in g2 \/ s.at \in rows
      BY <1>1, <1>3, <1>8 DEF Noted, rows
    <3>3. \A e : e # <<"identity", s.at>> => (e \in g2 <=> e \in g)
      BY <1>1 DEF Noted
    <3> QED BY <1>5, <3>1, <3>2, <3>3, HeardUpTo
  <2>6. Steps("presence", N) \subseteq h2
    <3>1. \A e : e # <<"identity", s.at>> => (e \in h2 <=> e \in h)
      BY <1>1 DEF Noted
    <3> QED BY <1>1, <1>5, <3>1, StepsKept
  <2> HIDE DEF x, t
  <2>4. CASE ~(s.at + 1 < N) /\ rows # {}
    <3>1. t = CommissionEmit(Fail(l))
      BY <2>2, <2>4
    <3> QED BY <1>2, <3>1, GivesUp DEF t
  <2>5. CASE s.at + 1 < N \/ rows = {}
    <3>1. t = CommissionEmit(Onward(x, N, then))
      BY <2>1, <2>2, <2>5 DEF Onward, ToProvision
    <3>2. then \in Phases /\ then \in {"provision", "voltage"}
      BY DEF Phases
    <3> HIDE DEF then
    <3>3. x.phase \notin {"voltage", "complete", "failed"}
      BY <2>1
    <3>6. then \notin {"complete", "failed"}
      BY <3>2
    <3>4. CASE s.at + 1 < N
      <4>0. WentOn(x, t)
        <5>1. x.at + 1 < N
          BY <2>1, <3>4
        <5>2. WentOn(x, CommissionEmit(Onward(x, N, then)))
          BY <1>5, <2>1, <3>2, <3>3, <5>1, GoesOn
        <5> QED BY <3>1, <5>2
      <4>1. /\ t \in Snaps /\ t.kind = "commission" /\ t.rows = x.rows
            /\ t.phase = x.phase /\ t.at = x.at + 1 /\ t.held = TRUE
        BY <4>0 DEF WentOn
      <4>2. t.at - 1 = s.at /\ t.at < N /\ t.phase = "identity" /\ t.rows = rows
        BY <1>5, <2>1, <3>4, <4>1
      <4>3. InIdentity(t, h2, g2)
        BY <2>3, <2>6, <4>1, <4>2 DEF InIdentity
      <4> QED BY <4>1, <4>3 DEF t, CommissionFits
    <3>5. CASE ~(s.at + 1 < N)
      <4>1. /\ t \in Snaps /\ t.kind = "commission" /\ t.phase = then /\ t.at = 0
            /\ t.held = TRUE /\ t.at < N
        <5>1. ~(x.at + 1 < N)
          BY <2>1, <3>5
        <5>2. MovedOn(then, CommissionEmit(Onward(x, N, then)))
          BY <1>5, <2>1, <3>2, <3>6, <5>1, MovesOn
        <5>3. MovedOn(then, t)
          BY <3>1, <5>2
        <5> QED BY <1>5, <5>3 DEF MovedOn
      <4>2. N - 1 = s.at /\ rows = {}
        BY <1>1, <1>5, <2>5, <3>5
      <4>3. Known(h2, g2)
        <5>1. Steps("identity", N) \subseteq g2
          BY <1>5, <2>3, <4>2, StepsMade
        <5> QED BY <2>6, <5>1 DEF Known
      <4>4. CASE ProvisionCells > 0
        <5>1. InProvision(t, h2, g2)
          BY <4>1, <4>3, <4>4 DEF InProvision, then
        <5> QED BY <4>1, <5>1 DEF t, CommissionFits
      <4>5. CASE ~(ProvisionCells > 0)
        <5>1. CheckedCells = {}
          BY <4>5, Counts
        <5>2. Checked(g2)
          BY <5>1 DEF Checked
        <5>3. t.phase = "voltage"
          BY <4>1, <4>5 DEF then
        <5>4. \A i \in 0..(t.at - 1) : FALSE
          BY <4>1
        <5>5. InVoltage(t, h2, g2)
          BY <4>1, <4>3, <5>2, <5>3, <5>4 DEF InVoltage
        <5> QED BY <4>1, <5>5 DEF t, CommissionFits
      <4> QED BY <4>4, <4>5
    <3> QED BY <3>4, <3>5
  <2> QED BY <2>4, <2>5
<1> QED BY <1>7, <1>8

LEMMA ProvisionAnswered ==
  ASSUME NEW s \in Snaps, s.kind = "commission", NEW prior \in Results,
         NEW a, NEW h, NEW g, NEW a2, NEW h2, NEW g2, InProvision(s, h, g),
         Noted(<<s.phase, s.at>>, prior, a, h, g, a2, h2, g2)
  PROVE  /\ Step(s, prior) \in Snaps /\ Step(s, prior).kind = "commission"
         /\ CommissionFits(Step(s, prior), h2, g2)
<1> DEFINE t == Step(s, prior)
           l == Let(s)
<1>1. /\ s.phase = "provision" /\ s.held = TRUE /\ s.at < ProvisionCells /\ Known(h, g)
      /\ \A i \in 0..(s.at - 1) : i \in CheckedCells => <<"provision", i>> \in g
  BY DEF InProvision
<1>2. /\ l \in Snaps /\ l.kind = "commission" /\ l.phase = "provision" /\ l.at = s.at
      /\ l.held = FALSE
  BY <1>1, LetIs DEF Alike
<1>3. prior # "nothing" /\ prior \in {"ok", "odd", "none", "error"}
  BY DEF Results
<1>4. t = CommissionEmit(AbsorbProvision(l, prior))
  BY <1>1, <1>3 DEF Step, CommissionNext, CommissionAbsorb
<1>5. s.at \in Nat /\ ProvisionCells \in Nat /\ N > 0 /\ N \in Nat
  BY <1>1, Counts DEF Snaps
<1> HIDE DEF l, t
<1>7. CASE prior \in {"none", "error"} \/ (prior = "odd" /\ s.at \in CheckedCells)
  <2>1. t = CommissionEmit(Fail(l))
    BY <1>2, <1>4, <1>7 DEF AbsorbProvision
  <2> QED BY <1>2, <2>1, GivesUp DEF t
<1>8. CASE ~(prior \in {"none", "error"} \/ (prior = "odd" /\ s.at \in CheckedCells))
  <2>1. t = CommissionEmit(Onward(l, ProvisionCells, "voltage"))
    BY <1>2, <1>4, <1>8 DEF AbsorbProvision
  <2>2. \A i \in 0..s.at : i \in CheckedCells => <<"provision", i>> \in g2
    <3>1. s.at \in CheckedCells => <<"provision", s.at>> \in g2
      BY <1>1, <1>3, <1>8 DEF Noted
    <3>2. \A e : e # <<"provision", s.at>> => (e \in g2 <=> e \in g)
      BY <1>1 DEF Noted
    <3> SUFFICES ASSUME NEW i \in 0..s.at, i # s.at, i \in CheckedCells
                 PROVE  <<"provision", i>> \in g2
      BY <3>1
    <3>3. i \in 0..(s.at - 1) /\ <<"provision", i>> # <<"provision", s.at>>
      BY <1>5, OneMore
    <3> QED BY <1>1, <3>2, <3>3
  <2>3. Known(h2, g2)
    <3>1. \A e : e # <<"provision", s.at>> => (e \in h2 <=> e \in h) /\ (e \in g2 <=> e \in g)
      BY <1>1 DEF Noted
    <3> QED BY <1>1, <3>1, KnownKept
  <2>4. "voltage" \in Phases
    BY DEF Phases
  <2>5. CASE s.at + 1 < ProvisionCells
    <3>1. l.at + 1 < ProvisionCells
      BY <1>2, <2>5
    <3>2. WentOn(l, t)
      BY <1>2, <1>5, <2>1, <2>4, <3>1, GoesOn
    <3>3. /\ t \in Snaps /\ t.kind = "commission" /\ t.phase = "provision" /\ t.held = TRUE
          /\ t.at - 1 = s.at /\ t.at < ProvisionCells
      BY <1>2, <1>5, <2>5, <3>2 DEF WentOn
    <3> QED BY <2>2, <2>3, <3>3 DEF t, CommissionFits, InProvision
  <2>6. CASE ~(s.at + 1 < ProvisionCells)
    <3>1. ~(l.at + 1 < ProvisionCells)
      BY <1>2, <2>6
    <3>2. MovedOn("voltage", t)
      BY <1>2, <1>5, <2>1, <2>4, <3>1, MovesOn
    <3>3. /\ t \in Snaps /\ t.kind = "commission" /\ t.phase = "voltage" /\ t.at < N
          /\ \A i \in 0..(t.at - 1) : FALSE
      BY <1>5, <3>2 DEF MovedOn
    <3>4. Checked(g2)
      <4>1. ProvisionCells - 1 = s.at
        BY <1>1, <1>5, <2>6
      <4> QED BY <2>2, <4>1, Counts DEF Checked
    <3>5. InVoltage(t, h2, g2)
      BY <2>3, <3>3, <3>4 DEF InVoltage
    <3> QED BY <3>3, <3>5 DEF t, CommissionFits
  <2> QED BY <2>5, <2>6
<1> QED BY <1>7, <1>8

LEMMA HealthAnswered ==
  ASSUME NEW s \in Snaps, s.kind = "commission", NEW prior \in Results,
         NEW a, NEW h, NEW g, NEW a2, NEW h2, NEW g2, InHealth(s, h, g),
         Noted(<<s.phase, s.at>>, prior, a, h, g, a2, h2, g2)
  PROVE  /\ Step(s, prior) \in Snaps /\ Step(s, prior).kind = "commission"
         /\ CommissionFits(Step(s, prior), h2, g2)
<1> DEFINE t == Step(s, prior)
           l == Let(s)
           x == IF prior = "odd" /\ l.rail[l.at] # "low" THEN Read(l, "flagged") ELSE l
<1>1. /\ s.phase = "health" /\ s.held = TRUE /\ s.at < N /\ Known(h, g) /\ Checked(g)
      /\ Steps("voltage", N) \subseteq g
      /\ \A i \in 0..(s.at - 1) : <<"health", i>> \in h
  BY DEF InHealth
<1>2. /\ l \in Snaps /\ l.kind = "commission" /\ l.phase = "health" /\ l.at = s.at
      /\ l.held = FALSE
  BY <1>1, LetIs DEF Alike
<1>3. prior # "nothing" /\ prior \in {"ok", "odd", "none", "error"}
  BY DEF Results
<1>4. t = CommissionEmit(AbsorbHealth(l, prior, "gains"))
  BY <1>1, <1>3 DEF Step, CommissionNext, CommissionAbsorb
<1>5. s.at \in Nat /\ s.at \in Rows /\ N > 0 /\ N \in Nat
  BY <1>1, Counts DEF Snaps, Rows
<1> HIDE DEF l, t
<1>7. CASE prior \in {"none", "error"}
  <2>1. t = CommissionEmit(Fail(l))
    BY <1>4, <1>7 DEF AbsorbHealth
  <2> QED BY <1>2, <2>1, GivesUp DEF t
<1>8. CASE prior \notin {"none", "error"}
  <2>1. t = CommissionEmit(Onward(x, N, "gains"))
    BY <1>4, <1>8 DEF AbsorbHealth
  <2>2. x \in Snaps /\ x.kind = "commission" /\ x.phase = "health" /\ x.at = s.at
    <3>1. l.at \in Rows /\ "flagged" \in Readings
      BY <1>2, <1>5 DEF Readings
    <3>2. Read(l, "flagged") \in Snaps /\ Read(l, "flagged").kind = "commission"
          /\ Read(l, "flagged").phase = "health" /\ Read(l, "flagged").at = s.at
      BY <1>2, <3>1, ReadIs
    <3> QED BY <1>2, <3>2
  <2> HIDE DEF x
  <2>3. \A e : e # <<"health", s.at>> => (e \in h2 <=> e \in h) /\ (e \in g2 <=> e \in g)
    BY <1>1 DEF Noted
  <2>4. \A i \in 0..s.at : <<"health", i>> \in h2
    <3>1. <<"health", s.at>> \in h2
      BY <1>1, <1>3, <1>8 DEF Noted
    <3>2. \A e : e # <<"health", s.at>> => (e \in h2 <=> e \in h)
      BY <2>3
    <3> QED BY <1>1, <1>5, <3>1, <3>2, AllUpTo
  <2>5. Known(h2, g2)
    BY <1>1, <2>3, KnownKept
  <2>6. Checked(g2) /\ Steps("voltage", N) \subseteq g2
    <3>1. \A e : e # <<"health", s.at>> => (e \in g2 <=> e \in g)
      BY <2>3
    <3>2. Checked(g2)
      BY <1>1, <3>1, CheckedKept
    <3>3. Steps("voltage", N) \subseteq g2
      BY <1>1, <1>5, <3>1, StepsKept
    <3> QED BY <3>2, <3>3
  <2>7. "gains" \in Phases
    BY DEF Phases
  <2>8. CASE s.at + 1 < N
    <3>1. x.at + 1 < N /\ x.phase \notin {"voltage", "complete", "failed"}
      BY <2>2, <2>8
    <3>2. WentOn(x, t)
      BY <1>5, <2>1, <2>2, <2>7, <3>1, GoesOn
    <3>3. /\ t \in Snaps /\ t.kind = "commission" /\ t.phase = "health" /\ t.held = TRUE
          /\ t.at - 1 = s.at /\ t.at < N
      BY <1>5, <2>2, <2>8, <3>2 DEF WentOn
    <3> QED BY <2>4, <2>5, <2>6, <3>3 DEF t, CommissionFits, InHealth
  <2>9. CASE ~(s.at + 1 < N)
    <3>1. ~(x.at + 1 < N)
      BY <2>2, <2>9
    <3>2. MovedOn("gains", t)
      BY <1>5, <2>1, <2>2, <2>7, <3>1, MovesOn
    <3>3. /\ t \in Snaps /\ t.kind = "commission" /\ t.phase = "gains" /\ t.held = TRUE
          /\ t.at < Writes /\ \A i \in 0..(t.at - 1) : FALSE
      BY <3>2, Counts DEF MovedOn
    <3>4. Steps("health", N) \subseteq h2
      <4>1. N - 1 = s.at
        BY <1>1, <1>5, <2>9
      <4> QED BY <1>5, <2>4, <4>1, StepsMade
    <3>5. InGains(t, h2, g2)
      BY <2>5, <2>6, <3>3, <3>4 DEF InGains, Configurable
    <3> QED BY <3>3, <3>5 DEF t, CommissionFits
  <2> QED BY <2>8, <2>9
<1> QED BY <1>7, <1>8

LEMMA ConfigurableKept ==
  ASSUME NEW h, NEW g, NEW h2, NEW g2, Configurable(h, g), NEW n,
         \A x : x # <<"gains", n>> => (x \in h2 <=> x \in h) /\ (x \in g2 <=> x \in g)
  PROVE  Configurable(h2, g2)
<1>1. /\ Known(h, g) /\ Checked(g)
      /\ Steps("voltage", N) \subseteq g /\ Steps("health", N) \subseteq h
  BY DEF Configurable
<1>2. /\ \A x : x # <<"gains", n>> => (x \in h2 <=> x \in h)
      /\ \A x : x # <<"gains", n>> => (x \in g2 <=> x \in g)
  OBVIOUS
<1>3. Known(h2, g2)
  BY <1>1, KnownKept
<1>4. Checked(g2)
  BY <1>1, <1>2, CheckedKept
<1>5. Steps("voltage", N) \subseteq g2
  BY <1>1, <1>2, Counts, StepsKept
<1>6. Steps("health", N) \subseteq h2
  BY <1>1, <1>2, Counts, StepsKept
<1> QED BY <1>3, <1>4, <1>5, <1>6 DEF Configurable

LEMMA GainsAnswered ==
  ASSUME NEW s \in Snaps, s.kind = "commission", NEW prior \in Results,
         NEW a, NEW h, NEW g, NEW a2, NEW h2, NEW g2, InGains(s, h, g),
         Noted(<<s.phase, s.at>>, prior, a, h, g, a2, h2, g2)
  PROVE  /\ Step(s, prior) \in Snaps /\ Step(s, prior).kind = "commission"
         /\ CommissionFits(Step(s, prior), h2, g2)
<1> DEFINE t == Step(s, prior)
           l == Let(s)
<1>1. /\ s.phase = "gains" /\ s.held = TRUE /\ s.at < Writes /\ Configurable(h, g)
      /\ \A i \in 0..(s.at - 1) : <<"gains", i>> \in g
  BY DEF InGains
<1>2. /\ l \in Snaps /\ l.kind = "commission" /\ l.phase = "gains" /\ l.at = s.at
      /\ l.held = FALSE
  BY <1>1, LetIs DEF Alike
<1>3. prior # "nothing"
  BY DEF Results
<1>4. t = CommissionEmit(AbsorbGains(l, prior))
  BY <1>1, <1>3 DEF Step, CommissionNext, CommissionAbsorb
<1>5. s.at \in Nat /\ Writes \in Nat
  BY <1>1, Counts DEF Snaps
<1> HIDE DEF l, t
<1>7. CASE prior # "ok"
  <2>1. t = CommissionEmit(Fail(l))
    BY <1>4, <1>7 DEF AbsorbGains
  <2> QED BY <1>2, <2>1, GivesUp DEF t
<1>8. CASE prior = "ok"
  <2>1. t = CommissionEmit(Onward(l, Writes, "complete"))
    BY <1>4, <1>8 DEF AbsorbGains
  <2>2. \A e : e # <<"gains", s.at>> => (e \in h2 <=> e \in h) /\ (e \in g2 <=> e \in g)
    BY <1>1 DEF Noted
  <2>3. \A i \in 0..s.at : <<"gains", i>> \in g2
    <3>1. <<"gains", s.at>> \in g2
      BY <1>1, <1>8 DEF Noted
    <3>2. \A e : e # <<"gains", s.at>> => (e \in g2 <=> e \in g)
      BY <2>2
    <3> QED BY <1>1, <1>5, <3>1, <3>2, AllUpTo
  <2>4. Configurable(h2, g2)
    BY <1>1, <2>2, ConfigurableKept
  <2>5. CASE s.at + 1 < Writes
    <3>1. l.at + 1 < Writes /\ "complete" \in Phases
      BY <1>2, <2>5 DEF Phases
    <3>2. WentOn(l, t)
      BY <1>2, <1>5, <2>1, <3>1, GoesOn
    <3>3. /\ t \in Snaps /\ t.kind = "commission" /\ t.phase = "gains" /\ t.held = TRUE
          /\ t.at - 1 = s.at /\ t.at < Writes
      BY <1>2, <1>5, <2>5, <3>2 DEF WentOn
    <3> QED BY <2>3, <2>4, <3>3 DEF t, CommissionFits, InGains
  <2>6. CASE ~(s.at + 1 < Writes)
    <3>1. ~(l.at + 1 < Writes)
      BY <1>2, <2>6
    <3>2. EndedAs("complete", t)
      BY <1>2, <1>5, <2>1, <3>1, SweepEnds
    <3>3. Steps("gains", Writes) \subseteq g2
      <4>1. Writes - 1 = s.at
        BY <1>1, <1>5, <2>6
      <4> QED BY <1>5, <2>3, <4>1, StepsMade
    <3> QED BY <2>4, <3>2, <3>3 DEF t, CommissionFits, IsCommissioned, EndedAs
  <2> QED BY <2>5, <2>6
<1> QED BY <1>7, <1>8

\* A sweep of the rail goes on, finds it up, gives it up or waits for it.
LEMMA VoltageAnswered ==
  ASSUME NEW s \in Snaps, s.kind = "commission", s.held = TRUE, NEW prior \in Results,
         NEW a, NEW h, NEW g, NEW a2, NEW h2, NEW g2, InVoltage(s, h, g),
         Noted(<<s.phase, s.at>>, prior, a, h, g, a2, h2, g2)
  PROVE  /\ Step(s, prior) \in Snaps /\ Step(s, prior).kind = "commission"
         /\ CommissionFits(Step(s, prior), h2, g2)
<1> DEFINE t == Step(s, prior)
           l == Let(s)
           reading == IF prior = "odd" THEN "low" ELSE "good"
           x == Read(l, reading)
<1>1. /\ s.phase = "voltage" /\ s.at < N /\ Known(h, g) /\ Checked(g)
      /\ \A i \in 0..(s.at - 1) : s.rail[i] # "low" => <<"voltage", i>> \in g
  BY DEF InVoltage
<1>2. /\ l \in Snaps /\ l.kind = "commission" /\ l.phase = "voltage" /\ l.at = s.at
      /\ l.held = FALSE /\ l.rail = s.rail
  BY <1>1, LetIs DEF Alike
<1>3. prior # "nothing" /\ prior \in {"ok", "odd", "none", "error"}
  BY DEF Results
<1>4. t = CommissionEmit(AbsorbVoltage(l, prior))
  BY <1>1, <1>3 DEF Step, CommissionNext, CommissionAbsorb
<1>5. s.at \in Nat /\ s.at \in Rows /\ N > 0 /\ N \in Nat
  BY <1>1, Counts DEF Snaps, Rows
<1> HIDE DEF l, t
<1>7. CASE prior \in {"none", "error"}
  <2>1. t = CommissionEmit(Fail(l))
    BY <1>4, <1>7 DEF AbsorbVoltage
  <2> QED BY <1>2, <2>1, GivesUp DEF t
<1>8. CASE prior \notin {"none", "error"}
  <2>1. AbsorbVoltage(l, prior) = IF l.at + 1 < N THEN [x EXCEPT !.at = x.at + 1, !.flag = FALSE]
                                  ELSE IF ~SweptLow(x) THEN Into(x, "health")
                                  ELSE IF l.age >= VoltageBudget THEN Fail(l)
                                  ELSE [x EXCEPT !.at = 0, !.flag = TRUE]
    BY <1>8 DEF AbsorbVoltage
  <2>2. /\ x \in Snaps /\ x.kind = "commission" /\ x.phase = "voltage" /\ x.at = s.at
        /\ x.held = FALSE /\ x.rail[s.at] = reading
        /\ \A r \in Rows : r # s.at => x.rail[r] = s.rail[r]
    <3>1. l.at \in Rows /\ reading \in Readings
      BY <1>2, <1>5 DEF Readings
    <3>2. /\ x \in Snaps /\ x.kind = l.kind /\ x.phase = l.phase /\ x.at = l.at
          /\ x.held = l.held /\ x.rail[l.at] = reading
          /\ \A r \in Rows : r # l.at => x.rail[r] = l.rail[r]
      BY <1>2, <3>1, ReadIs
    <3> QED BY <1>2, <3>2
  <2> HIDE DEF x
  <2>3. \A e : e # <<"voltage", s.at>> => (e \in h2 <=> e \in h) /\ (e \in g2 <=> e \in g)
    BY <1>1 DEF Noted
  <2>4. \A i \in 0..s.at : x.rail[i] # "low" => <<"voltage", i>> \in g2
    <3>1. x.rail[s.at] # "low" => <<"voltage", s.at>> \in g2
      BY <1>1, <1>3, <1>8, <2>2 DEF Noted
    <3> SUFFICES ASSUME NEW i \in 0..s.at, i # s.at, x.rail[i] # "low"
                 PROVE  <<"voltage", i>> \in g2
      BY <3>1
    <3>2. i \in 0..(s.at - 1) /\ i \in Rows
      BY <1>1, <1>5 DEF Rows
    <3>3. <<"voltage", i>> # <<"voltage", s.at>>
      OBVIOUS
    <3> QED BY <1>1, <2>2, <2>3, <3>2, <3>3
  <2>5. Known(h2, g2) /\ Checked(g2)
    <3>1. \A e : e # <<"voltage", s.at>> => (e \in g2 <=> e \in g)
      BY <2>3
    <3>2. Checked(g2)
      BY <1>1, <3>1, CheckedKept
    <3>3. Known(h2, g2)
      BY <1>1, <2>3, KnownKept
    <3> QED BY <3>2, <3>3
  <2>6. CASE s.at + 1 < N
    <3> DEFINE u == [x EXCEPT !.at = s.at + 1, !.flag = FALSE]
    <3>1. AbsorbVoltage(l, prior) = u
      BY <1>2, <2>1, <2>2, <2>6
    <3>2. /\ u \in Snaps /\ u.kind = "commission" /\ u.phase = "voltage" /\ u.at = s.at + 1
          /\ u.flag = FALSE /\ u.rail = x.rail
      <4>1. s.at + 1 \in Nat
        BY <1>5
      <4>2. u \in Snaps
        BY <2>2, <4>1 DEF Snaps
      <4> QED BY <2>2, <4>2 DEF Snaps
    <3> HIDE DEF u
    <3>3. t = Issued(u)
      BY <1>4, <3>1, <3>2, Emits
    <3>4. /\ t \in Snaps /\ t.kind = "commission" /\ t.phase = "voltage" /\ t.at = s.at + 1
          /\ t.rail = x.rail
      BY <3>2, <3>3, IssuedIs DEF Alike
    <3>5. t.at - 1 = s.at /\ t.at < N
      BY <1>5, <2>6, <3>4
    <3> QED BY <2>4, <2>5, <3>4, <3>5 DEF t, CommissionFits, InVoltage
  <2>7. CASE ~(s.at + 1 < N) /\ ~SweptLow(x)
    <3>1. t = CommissionEmit(Onward(x, N, "health"))
      BY <1>2, <1>4, <2>1, <2>2, <2>7 DEF Onward
    <3>2. ~(x.at + 1 < N) /\ "health" \in Phases
      BY <2>2, <2>7 DEF Phases
    <3>3. MovedOn("health", t)
      BY <1>5, <2>2, <3>1, <3>2, MovesOn
    <3>4. Steps("voltage", N) \subseteq g2
      <4>1. N - 1 = s.at
        BY <1>1, <1>5, <2>7
      <4>2. \A i \in 0..(N - 1) : x.rail[i] # "low"
        BY <2>7 DEF SweptLow, Rows
      <4>3. \A i \in 0..(N - 1) : <<"voltage", i>> \in g2
        BY <2>4, <4>1, <4>2
      <4> QED BY <1>5, <4>3, StepsMade
    <3>5. t.phase = "health" /\ t.at < N /\ t.held = TRUE /\ \A i \in 0..(t.at - 1) : FALSE
      BY <1>5, <3>3 DEF MovedOn
    <3>6. InHealth(t, h2, g2)
      BY <2>5, <3>4, <3>5 DEF InHealth
    <3> QED BY <3>3, <3>6 DEF t, CommissionFits, MovedOn
  <2>8. CASE ~(s.at + 1 < N) /\ SweptLow(x) /\ l.age >= VoltageBudget
    <3>1. t = CommissionEmit(Fail(l))
      BY <1>2, <1>4, <2>1, <2>8
    <3> QED BY <1>2, <3>1, GivesUp DEF t
  <2>9. CASE ~(s.at + 1 < N) /\ SweptLow(x) /\ ~(l.age >= VoltageBudget)
    <3> DEFINE u == [x EXCEPT !.at = 0, !.flag = TRUE]
    <3>1. AbsorbVoltage(l, prior) = u
      BY <1>2, <2>1, <2>9
    <3>2. /\ u \in Snaps /\ u.kind = "commission" /\ u.phase = "voltage" /\ u.at = 0
          /\ u.flag = TRUE
      BY <2>2 DEF Snaps
    <3> HIDE DEF u
    <3>3. t = [u EXCEPT !.flag = FALSE]
      BY <1>4, <3>1, <3>2 DEF CommissionEmit, Done, Failed
    <3>4. /\ t \in Snaps /\ t.kind = "commission" /\ t.phase = "voltage" /\ t.at = 0
      BY <3>2, <3>3 DEF Snaps
    <3>5. t.at < N /\ \A i \in 0..(t.at - 1) : FALSE
      BY <1>5, <3>4
    <3>6. InVoltage(t, h2, g2)
      BY <2>5, <3>4, <3>5 DEF InVoltage
    <3> QED BY <3>4, <3>6 DEF t, CommissionFits
  <2> QED BY <2>6, <2>7, <2>8, <2>9
<1> QED BY <1>7, <1>8

\* A wait that has run out asks again.
LEMMA VoltageResumed ==
  ASSUME NEW s \in Snaps, s.kind = "commission", s.held = FALSE, NEW prior,
         NEW h, NEW g, InVoltage(s, h, g)
  PROVE  /\ Step(s, prior) \in Snaps /\ Step(s, prior).kind = "commission"
         /\ CommissionFits(Step(s, prior), h, g)
<1> DEFINE t == Step(s, prior)
<1>1. s.phase = "voltage"
  BY DEF InVoltage
<1>2. t = CommissionEmit(s)
  BY DEF Step, CommissionNext, CommissionAbsorb
<1>3. t = [s EXCEPT !.flag = FALSE] \/ t = Issued(s)
  BY <1>1, <1>2 DEF CommissionEmit, Done, Failed, Issued
<1> HIDE DEF t
<1>4. /\ t \in Snaps /\ t.kind = "commission" /\ t.phase = "voltage" /\ t.at = s.at
      /\ t.rail = s.rail
  <2>1. CASE t = [s EXCEPT !.flag = FALSE]
    BY <1>1, <2>1 DEF Snaps
  <2>2. CASE t = Issued(s)
    BY <1>1, <2>2, IssuedIs DEF Alike
  <2> QED BY <1>3, <2>1, <2>2
<1>5. InVoltage(t, h, g)
  BY <1>4 DEF InVoltage
<1> QED BY <1>4, <1>5 DEF t, CommissionFits

\* Whatever the answer, a commissioning stays what it claims to be.
LEMMA CommissionAnswered ==
  ASSUME NEW s \in Snaps, s.kind = "commission", s.held = TRUE, NEW prior \in Results,
         NEW a, NEW h, NEW g, NEW a2, NEW h2, NEW g2, CommissionFits(s, h, g),
         Noted(<<s.phase, s.at>>, prior, a, h, g, a2, h2, g2)
  PROVE  /\ Step(s, prior) \in Snaps /\ Step(s, prior).kind = "commission"
         /\ CommissionFits(Step(s, prior), h2, g2)
<1>1. \/ InPresence(s, h) \/ InIdentity(s, h, g) \/ InProvision(s, h, g) \/ InVoltage(s, h, g)
      \/ InHealth(s, h, g) \/ InGains(s, h, g)
  BY DEF CommissionFits, IsCommissioned
<1>2. CASE InPresence(s, h)
  BY <1>2, PresenceAnswered
<1>3. CASE InIdentity(s, h, g)
  BY <1>3, IdentityAnswered
<1>4. CASE InProvision(s, h, g)
  BY <1>4, ProvisionAnswered
<1>5. CASE InVoltage(s, h, g)
  BY <1>5, VoltageAnswered
<1>6. CASE InHealth(s, h, g)
  BY <1>6, HealthAnswered
<1>7. CASE InGains(s, h, g)
  BY <1>7, GainsAnswered
<1> QED BY <1>1, <1>2, <1>3, <1>4, <1>5, <1>6, <1>7

-----------------------------------------------------------------------------
(* The poll.                                                               *)

Least(S) == CHOOSE r \in S : \A q \in S : r <= q
Left(s, from) == {r \in Rows : r >= from /\ r \in s.rows}

\* The rows that are left have a first.
LEMMA LeastIs ==
  ASSUME NEW S \in SUBSET Nat, S # {}
  PROVE  Least(S) \in S /\ \A q \in S : Least(S) <= q
<1>1. \E r \in S : \A q \in S : ~(<<q, r>> \in OpToRel(<, Nat))
  BY NatLessThanWellFounded, WFMin
<1>2. PICK r \in S : \A q \in S : ~(<<q, r>> \in OpToRel(<, Nat))
  BY <1>1
<1>3. \A q \in S : r <= q
  <2> SUFFICES ASSUME NEW q \in S PROVE r <= q
    OBVIOUS
  <2>1. ~(q < r)
    BY <1>2 DEF OpToRel
  <2>2. q \in Nat /\ r \in Nat
    OBVIOUS
  <2> QED BY <2>1, <2>2
<1> QED BY <1>3 DEF Least

HeardOf(phase, s, h) == \A i \in s.rows : <<phase, i>> \in h
HeardBelow(phase, s, h) == \A i \in s.rows : i < s.at => <<phase, i>> \in h

PollFits(s, h) ==
  \/ s.phase = "failed" /\ s.held = FALSE
  \/ /\ s.phase = "voltage" /\ s.held = TRUE /\ s.at \in s.rows
     /\ HeardBelow("voltage", s, h)
  \/ /\ s.phase = "health" /\ s.held = TRUE /\ s.at \in s.rows
     /\ HeardOf("voltage", s, h) /\ HeardBelow("health", s, h)
  \/ /\ s.phase = "complete" /\ s.held = FALSE
     /\ HeardOf("voltage", s, h) /\ HeardOf("health", s, h)

\* A poll that has taken its answer and not yet found the next row.
Seeking(u, h) ==
  /\ u \in Snaps /\ u.kind = "poll" /\ u.held = FALSE
  /\ \/ u.phase = "voltage" /\ HeardBelow("voltage", u, h)
     \/ u.phase = "health" /\ HeardOf("voltage", u, h) /\ HeardBelow("health", u, h)
     \/ u.phase = "complete" /\ HeardOf("voltage", u, h) /\ HeardOf("health", u, h)

\* It stops at the first row it was named, or ends with all of them heard.
LEMMA PollFinds ==
  ASSUME NEW u, NEW h, Seeking(u, h)
  PROVE  /\ PollEmit(u) \in Snaps /\ PollEmit(u).kind = "poll" /\ PollFits(PollEmit(u), h)
<1> DEFINE t == PollEmit(u)
           n == Least(Left(u, u.at))
           m == Least(Left(u, 0))
           there == PollSkip(u)
<1>1. u \in Snaps /\ u.kind = "poll" /\ u.held = FALSE /\ u.at \in Nat /\ u.rows \subseteq Rows
  BY DEF Seeking, Snaps
<1>2. Rows \subseteq Nat
  BY Counts DEF Rows
<1>3. there = IF u.phase = "failed" THEN u
              ELSE IF u.phase \in {"voltage", "health"} /\ Left(u, u.at) # {}
                THEN [u EXCEPT !.at = n]
              ELSE IF u.phase = "voltage" /\ Left(u, 0) # {}
                THEN [Into(u, "health") EXCEPT !.at = m]
              ELSE Into(u, "complete")
  BY DEF PollSkip, Left, Least
<1>4. t = IF Done(there) \/ Failed(there) THEN there ELSE Issued(there)
  BY DEF PollEmit, Issued
<1>5. Left(u, u.at) # {} => n \in Left(u, u.at) /\ \A q \in Left(u, u.at) : n <= q
  <2>1. Left(u, u.at) \in SUBSET Nat
    BY <1>2 DEF Left
  <2> QED BY <2>1, LeastIs
<1>6. Left(u, 0) # {} => m \in Left(u, 0) /\ \A q \in Left(u, 0) : m <= q
  <2>1. Left(u, 0) \in SUBSET Nat
    BY <1>2 DEF Left
  <2> QED BY <2>1, LeastIs
<1>7. \A i \in u.rows : i \in Nat /\ i \in Left(u, 0) /\ (i >= u.at => i \in Left(u, u.at))
  <2> SUFFICES ASSUME NEW i \in u.rows
               PROVE  i \in Nat /\ i \in Left(u, 0) /\ (i >= u.at => i \in Left(u, u.at))
    OBVIOUS
  <2>1. i \in Rows
    BY <1>1
  <2>2. i \in Nat
    BY <1>2, <2>1
  <2>3. i >= 0
    BY <2>2
  <2> QED BY <2>1, <2>2, <2>3 DEF Left
<1>8. \/ u.phase = "voltage" /\ HeardBelow("voltage", u, h)
      \/ u.phase = "health" /\ HeardOf("voltage", u, h) /\ HeardBelow("health", u, h)
      \/ u.phase = "complete" /\ HeardOf("voltage", u, h) /\ HeardOf("health", u, h)
  BY DEF Seeking
<1> HIDE DEF t, n, m, there
<1>9. CASE u.phase \in {"voltage", "health"} /\ Left(u, u.at) # {}
  <2>1. there = [u EXCEPT !.at = n]
    BY <1>3, <1>9
  <2>2. n \in Nat /\ n \in u.rows /\ \A i \in u.rows : i < n => i < u.at
    <3>1. n \in Nat /\ n \in u.rows /\ \A i \in u.rows : i >= u.at => n <= i
      BY <1>2, <1>5, <1>7, <1>9 DEF Left
    <3> QED BY <1>1, <1>7, <3>1
  <2>3. /\ there \in Snaps /\ there.kind = "poll" /\ there.phase = u.phase /\ there.at = n
        /\ there.rows = u.rows
    BY <1>1, <2>1, <2>2 DEF Snaps
  <2>4. t = Issued(there)
    BY <1>4, <1>9, <2>3 DEF Done, Failed
  <2>5. /\ t \in Snaps /\ t.kind = "poll" /\ t.phase = u.phase /\ t.at = n /\ t.held = TRUE
        /\ t.rows = u.rows
    BY <2>3, <2>4, IssuedIs DEF Alike
  <2>6. /\ t.phase = "voltage" => HeardBelow("voltage", t, h)
        /\ t.phase = "health" => HeardOf("voltage", t, h) /\ HeardBelow("health", t, h)
    BY <1>8, <2>2, <2>5 DEF HeardBelow, HeardOf
  <2> QED BY <1>9, <2>2, <2>5, <2>6 DEF t, PollFits
<1>10. CASE u.phase = "voltage" /\ Left(u, u.at) = {} /\ Left(u, 0) # {}
  <2> DEFINE v == Into(u, "health")
  <2>1. there = [v EXCEPT !.at = m]
    BY <1>3, <1>10
  <2>2. v \in Snaps /\ v.kind = "poll" /\ v.phase = "health" /\ v.rows = u.rows
    <3>1. "health" \in Phases
      BY DEF Phases
    <3>2. v \in Snaps /\ Alike(u, v) /\ v.phase = "health" /\ v.rows = u.rows
      BY <1>1, <3>1, IntoIs
    <3> QED BY <1>1, <3>2 DEF Alike
  <2>3. m \in Nat /\ m \in u.rows /\ \A i \in u.rows : ~(i < m)
    BY <1>2, <1>6, <1>7, <1>10 DEF Left
  <2> HIDE DEF v
  <2>4. /\ there \in Snaps /\ there.kind = "poll" /\ there.phase = "health" /\ there.at = m
        /\ there.rows = u.rows
    BY <2>1, <2>2, <2>3 DEF Snaps
  <2>5. t = Issued(there)
    BY <1>4, <2>4 DEF Done, Failed
  <2>6. /\ t \in Snaps /\ t.kind = "poll" /\ t.phase = "health" /\ t.at = m /\ t.held = TRUE
        /\ t.rows = u.rows
    BY <2>4, <2>5, IssuedIs DEF Alike
  <2>7. HeardOf("voltage", t, h)
    <3>1. \A i \in u.rows : i < u.at
      BY <1>1, <1>7, <1>10
    <3> QED BY <1>8, <1>10, <2>6, <3>1 DEF HeardOf, HeardBelow
  <2>8. HeardBelow("health", t, h)
    BY <2>3, <2>6 DEF HeardBelow
  <2> QED BY <2>3, <2>6, <2>7, <2>8 DEF t, PollFits
<1>11. CASE \/ u.phase = "voltage" /\ Left(u, u.at) = {} /\ Left(u, 0) = {}
            \/ u.phase = "health" /\ Left(u, u.at) = {}
            \/ u.phase = "complete"
  <2>1. there = Into(u, "complete")
    BY <1>3, <1>11
  <2>2. /\ there \in Snaps /\ there.kind = "poll" /\ there.phase = "complete"
        /\ there.held = FALSE /\ there.rows = u.rows
    <3>1. "complete" \in Phases
      BY DEF Phases
    <3>2. /\ there \in Snaps /\ Alike(u, there) /\ there.phase = "complete"
          /\ there.held = u.held /\ there.rows = u.rows
      BY <1>1, <2>1, <3>1, IntoIs
    <3> QED BY <1>1, <3>2 DEF Alike
  <2>3. t = there
    BY <1>4, <2>2 DEF Done
  <2>4. HeardOf("voltage", there, h) /\ HeardOf("health", there, h)
    <3>1. u.phase = "voltage" => u.rows = {}
      BY <1>7, <1>11
    <3>2. u.phase = "health" => \A i \in u.rows : i < u.at
      BY <1>1, <1>7, <1>11
    <3> QED BY <1>8, <2>2, <3>1, <3>2 DEF HeardOf, HeardBelow
  <2> QED BY <2>2, <2>3, <2>4 DEF t, PollFits
<1> QED BY <1>8, <1>9, <1>10, <1>11

\* Whatever the answer, a poll stays what it claims to be.
LEMMA PollAnswered ==
  ASSUME NEW s \in Snaps, s.kind = "poll", s.held = TRUE, NEW prior \in Results,
         NEW a, NEW h, NEW g, NEW a2, NEW h2, NEW g2, PollFits(s, h),
         Noted(<<s.phase, s.at>>, prior, a, h, g, a2, h2, g2)
  PROVE  /\ Step(s, prior) \in Snaps /\ Step(s, prior).kind = "poll"
         /\ PollFits(Step(s, prior), h2)
<1> DEFINE u == PollAbsorb(s, prior)
           l == Let(s)
<1>1. Step(s, prior) = PollEmit(u)
  BY DEF Step, PollNext
<1>2. /\ l \in Snaps /\ Alike(s, l) /\ l.phase = s.phase /\ l.at = s.at /\ l.held = FALSE
      /\ l.rows = s.rows
  BY LetIs
<1>3. l.kind = "poll"
  BY <1>2 DEF Alike
<1>4. /\ s.phase \in {"voltage", "health"} /\ s.at \in s.rows /\ s.rows \subseteq Rows
      /\ s.phase = "voltage" => HeardBelow("voltage", s, h)
      /\ s.phase = "health" => HeardOf("voltage", s, h) /\ HeardBelow("health", s, h)
  BY DEF PollFits, Snaps
<1>5. Rows \subseteq Nat /\ N \in Nat /\ N > 0 /\ s.at \in Rows /\ s.at \in Nat
      /\ \A i \in s.rows : i \in Nat /\ i < N
  BY <1>4, Counts DEF Rows
<1>6. prior \in {"ok", "odd", "none", "error"}
  BY DEF Results
<1>7. CASE prior \in {"none", "error"}
  <2>1. u = Fail(s)
    BY <1>7 DEF PollAbsorb
  <2>2. u \in Snaps /\ u.kind = "poll" /\ u.phase = "failed" /\ u.held = FALSE
    BY <2>1, FailIs
  <2> HIDE DEF u
  <2>3. PollEmit(u) = u
    BY <2>2 DEF PollEmit, PollSkip, Failed
  <2> QED BY <1>1, <2>2, <2>3 DEF PollFits
<1>8. CASE prior \notin {"none", "error"}
  <2>1. /\ <<s.phase, s.at>> \in h2
        /\ \A e : e # <<s.phase, s.at>> => (e \in h2 <=> e \in h)
    BY <1>6, <1>8 DEF Noted
  <2>2. \A i \in s.rows : i < s.at + 1 => <<s.phase, i>> \in h2
    <3>1. \A i \in s.rows : i < s.at => <<s.phase, i>> \in h
      BY <1>4 DEF HeardBelow
    <3> SUFFICES ASSUME NEW i \in s.rows, i < s.at + 1, i # s.at
                 PROVE  <<s.phase, i>> \in h2
      BY <2>1
    <3>2. i < s.at /\ <<s.phase, i>> # <<s.phase, s.at>>
      BY <1>5
    <3> QED BY <2>1, <3>1, <3>2
  <2> DEFINE x == IF s.phase = "voltage"
                  THEN Read(l, IF prior = "odd" THEN "low" ELSE "good")
                  ELSE IF prior = "odd" /\ l.rail[l.at] # "low" THEN Read(l, "flagged") ELSE l
             then == IF s.phase = "voltage" THEN "health" ELSE "complete"
  <2>3. /\ x \in Snaps /\ x.kind = "poll" /\ x.phase = s.phase /\ x.at = s.at
        /\ x.held = FALSE /\ x.rows = s.rows
    <3>1. l.at \in Rows /\ \A r \in {"low", "good", "flagged"} : r \in Readings
      BY <1>2, <1>5 DEF Readings
    <3>2. \A r \in {"low", "good", "flagged"} :
            /\ Read(l, r) \in Snaps /\ Read(l, r).kind = l.kind /\ Read(l, r).phase = l.phase
            /\ Read(l, r).at = l.at /\ Read(l, r).held = l.held /\ Read(l, r).rows = l.rows
      BY <1>2, <3>1, ReadIs
    <3> HIDE DEF l
    <3> QED BY <1>2, <1>3, <3>2
  <2>4. u = Onward(x, N, then)
    <3>1. CASE s.phase = "voltage"
      <4>1. x.phase = "voltage"
        BY <2>3, <3>1
      <4>2. u = PollAdvance(x)
        BY <1>6, <1>8, <3>1 DEF PollAbsorb
      <4> HIDE DEF u, x
      <4> QED BY <3>1, <4>1, <4>2 DEF PollAdvance
    <3>2. CASE s.phase = "health"
      BY <1>6, <1>8, <3>2 DEF PollAbsorb, AbsorbHealth
    <3> QED BY <1>4, <3>1, <3>2
  <2>5. then \in Phases
    BY DEF Phases
  <2> HIDE DEF x, u, l, then
  <2>6. /\ u \in Snaps /\ Alike(x, u) /\ u.held = x.held /\ u.rows = x.rows
        /\ x.at + 1 < N => u.phase = x.phase /\ u.at = x.at + 1
        /\ ~(x.at + 1 < N) => u.phase = then /\ u.at = 0
    <3>1. x \in Snaps /\ N \in Nat /\ then \in Phases
      BY <1>5, <2>3, <2>5
    <3>2. /\ Onward(x, N, then) \in Snaps /\ Alike(x, Onward(x, N, then))
          /\ Onward(x, N, then).held = x.held /\ Onward(x, N, then).rows = x.rows
          /\ x.at + 1 < N => /\ Onward(x, N, then).phase = x.phase
                            /\ Onward(x, N, then).at = x.at + 1
          /\ ~(x.at + 1 < N) => /\ Onward(x, N, then).phase = then
                               /\ Onward(x, N, then).at = 0
      BY <3>1, OnwardIs
    <3> QED BY <2>4, <3>2
  <2>7. u.kind = "poll" /\ u.held = FALSE /\ u.rows = s.rows
    BY <2>3, <2>6 DEF Alike
  <2>8. s.phase = "health" => HeardOf("voltage", u, h2)
    <3> SUFFICES ASSUME s.phase = "health", NEW i \in s.rows PROVE <<"voltage", i>> \in h2
      BY <2>7 DEF HeardOf
    <3>1. <<"voltage", i>> # <<s.phase, s.at>>
      OBVIOUS
    <3> QED BY <1>4, <2>1, <3>1 DEF HeardOf
  <2>9. CASE s.at + 1 < N
    <3>1. u.phase = s.phase /\ u.at = s.at + 1
      BY <2>3, <2>6, <2>9
    <3>2. HeardBelow(s.phase, u, h2)
      BY <2>2, <2>7, <3>1 DEF HeardBelow
    <3>3. Seeking(u, h2)
      BY <1>4, <2>6, <2>7, <2>8, <3>1, <3>2 DEF Seeking
    <3> QED BY <1>1, <3>3, PollFinds
  <2>10. CASE ~(s.at + 1 < N)
    <3>1. u.phase = then /\ u.at = 0
      BY <2>3, <2>6, <2>10
    <3>2. \A i \in s.rows : i < s.at + 1
      BY <1>5, <2>10
    <3>3. HeardOf(s.phase, u, h2)
      BY <2>2, <2>7, <3>2 DEF HeardOf
    <3>4. HeardBelow("health", u, h2) \/ s.phase = "health"
      BY <1>4, <1>5, <2>7, <3>1 DEF HeardBelow
    <3>5. Seeking(u, h2)
      BY <1>4, <2>6, <2>7, <2>8, <3>1, <3>3, <3>4 DEF Seeking, then
    <3> QED BY <1>1, <3>5, PollFinds
  <2> QED BY <2>9, <2>10
<1> QED BY <1>7, <1>8

-----------------------------------------------------------------------------
(* The beginnings.                                                         *)

LEMMA BlankIs ==
  /\ Blank \in Snaps /\ Blank.kind = "none" /\ Blank.phase = "none" /\ Blank.at = 0
  /\ Blank.held = FALSE /\ Blank.flag = FALSE /\ Blank.age = 0 /\ Blank.rows = {}
<1>1. 0 \in Nat /\ 0 \in 0..VoltageBudget
  BY SequencerConstants DEF SequencerConstants
<1>2. [r \in Rows |-> "good"] \in [Rows -> Readings]
  BY DEF Readings
<1>3. {} \in SUBSET Rows
  OBVIOUS
<1> QED BY <1>1, <1>2, <1>3 DEF Blank, Snaps, Kinds, Phases

\* What a conversation that has just been opened has put first.
LEMMA CommissionOpens ==
  LET s == Step(CommissionStart, "nothing")
  IN  s \in Snaps /\ s.kind = "commission" /\ CommissionFits(s, {}, {})
<1> DEFINE c == CommissionStart
           t == Step(c, "nothing")
<1>1. c = [Blank EXCEPT !.kind = "commission", !.phase = "presence"]
  BY DEF CommissionStart
<1> HIDE DEF c
<1>2. /\ c \in Snaps /\ c.kind = "commission" /\ c.phase = "presence" /\ c.at = 0
      /\ c.held = FALSE /\ c.rows = {}
  BY <1>1, BlankIs DEF Snaps, Kinds, Phases
<1>3. t = Issued(c)
  BY <1>2 DEF Step, CommissionNext, CommissionAbsorb, CommissionEmit, Done, Failed, Issued
<1> HIDE DEF t
<1>4. /\ t \in Snaps /\ t.kind = "commission" /\ t.phase = "presence" /\ t.at = 0
      /\ t.held = TRUE /\ t.rows = {}
  BY <1>2, <1>3, IssuedIs DEF Alike
<1>5. 0 < N /\ \A i \in 0..(0 - 1) : FALSE
  BY Counts
<1>6. InPresence(t, {})
  BY <1>4, <1>5 DEF InPresence
<1> QED BY <1>4, <1>6 DEF CommissionFits, IsCommissioned, c, t

LEMMA PollOpens ==
  ASSUME NEW rows \in SUBSET Rows
  PROVE  LET s == Step(PollStart(rows), "nothing")
         IN  s \in Snaps /\ s.kind = "poll" /\ PollFits(s, {})
<1> DEFINE c == PollStart(rows)
<1>1. c = [Blank EXCEPT !.kind = "poll", !.phase = "voltage", !.rows = rows]
  BY DEF PollStart
<1> HIDE DEF c
<1>2. /\ c \in Snaps /\ c.kind = "poll" /\ c.phase = "voltage" /\ c.at = 0
      /\ c.held = FALSE /\ c.rows = rows
  BY <1>1, BlankIs DEF Snaps, Kinds, Phases
<1>3. Step(c, "nothing") = PollEmit(c)
  BY <1>2 DEF Step, PollNext, PollAbsorb
<1>4. \A i \in Rows : ~(i < 0)
  BY Counts DEF Rows
<1>5. Seeking(c, {})
  BY <1>2, <1>4 DEF Seeking, HeardBelow
<1> QED BY <1>3, <1>5, PollFinds DEF c

LEMMA DisarmOpens ==
  LET s == Step(DisarmStart, "nothing")
  IN  s \in Snaps /\ s.kind = "disarm" /\ DisarmFits(s, {}, {})
<1> DEFINE c == DisarmStart
<1>1. c = [Blank EXCEPT !.kind = "disarm", !.phase = "dwell", !.flag = TRUE]
  BY DEF DisarmStart
<1> HIDE DEF c
<1>2. /\ c \in Snaps /\ c.kind = "disarm" /\ c.phase = "dwell"
      /\ c.held = FALSE /\ c.rows = {}
  BY <1>1, BlankIs DEF Snaps, Kinds, Phases
<1>3. DisarmFits(c, {}, {})
  BY <1>2 DEF DisarmFits
<1>4. \A prior : /\ Step(c, prior) \in Snaps /\ Step(c, prior).kind = "disarm"
                 /\ DisarmFits(Step(c, prior), {}, {})
  BY <1>2, <1>3, DisarmWaits
<1> QED BY <1>4 DEF c

-----------------------------------------------------------------------------
(* Any of the three.                                                       *)

\* A snapshot claims no more of the sweeps behind its cursor than the record
\* beside it says.
Fits(s, a, h, g) ==
  \/ s = Blank
  \/ s.kind = "commission" /\ CommissionFits(s, h, g)
  \/ s.kind = "poll" /\ PollFits(s, h)
  \/ s.kind = "disarm" /\ DisarmFits(s, a, g)

\* Time takes a conversation nowhere: it only ages a rail that is waited for.
LEMMA OlderIs ==
  ASSUME NEW s \in Snaps
  PROVE  /\ Older(s) \in Snaps /\ Older(s).kind = s.kind /\ Older(s).phase = s.phase
         /\ Older(s).at = s.at /\ Older(s).held = s.held /\ Older(s).rows = s.rows
         /\ Older(s).rail = s.rail
<1> DEFINE t == Older(s)
<1>1. CASE s.kind = "commission" /\ s.phase = "voltage" /\ s.age < VoltageBudget
  <2>1. t = [s EXCEPT !.age = s.age + 1] /\ s.age + 1 \in 0..VoltageBudget
    <3>1. s.age \in 0..VoltageBudget /\ VoltageBudget \in Nat
      BY SequencerConstants DEF SequencerConstants, Snaps
    <3>2. s.age + 1 \in 0..VoltageBudget
      BY <1>1, <3>1
    <3> QED BY <1>1, <3>2 DEF Older
  <2> HIDE DEF t
  <2>2. /\ t \in Snaps /\ t.kind = s.kind /\ t.phase = s.phase /\ t.at = s.at
        /\ t.held = s.held /\ t.rows = s.rows /\ t.rail = s.rail
    BY <2>1 DEF Snaps
  <2> QED BY <2>2 DEF t
<1>2. CASE ~(s.kind = "commission" /\ s.phase = "voltage" /\ s.age < VoltageBudget)
  BY <1>2 DEF Older
<1> QED BY <1>1, <1>2

LEMMA OlderFits ==
  ASSUME NEW s \in Snaps, NEW a, NEW h, NEW g, Fits(s, a, h, g)
  PROVE  Fits(Older(s), a, h, g)
<1> DEFINE t == Older(s)
<1>1. /\ t \in Snaps /\ t.kind = s.kind /\ t.phase = s.phase /\ t.at = s.at /\ t.held = s.held
      /\ t.rows = s.rows /\ t.rail = s.rail
  BY OlderIs
<1>2. CASE s = Blank
  BY <1>2, BlankIs DEF Older, Fits
<1> HIDE DEF t
<1>3. CASE s.kind = "commission" /\ CommissionFits(s, h, g)
  <2>1. CommissionFits(t, h, g)
    BY <1>1, <1>3 DEF CommissionFits, InPresence, InIdentity, InProvision, InVoltage, InHealth,
                      InGains, IsCommissioned
  <2> QED BY <1>1, <1>3, <2>1 DEF t, Fits
<1>4. CASE s.kind = "poll" /\ PollFits(s, h)
  <2>1. PollFits(t, h)
    BY <1>1, <1>4 DEF PollFits, HeardOf, HeardBelow
  <2> QED BY <1>1, <1>4, <2>1 DEF t, Fits
<1>5. CASE s.kind = "disarm" /\ DisarmFits(s, a, g)
  <2>1. DisarmFits(t, a, g)
    BY <1>1, <1>5 DEF DisarmFits
  <2> QED BY <1>1, <1>5, <2>1 DEF t, Fits
<1> QED BY <1>2, <1>3, <1>4, <1>5 DEF Fits

\* An answer, whatever it is, is added to the record and claimed no further.
LEMMA AnsweredFits ==
  ASSUME NEW s \in Snaps, s.held = TRUE, NEW prior \in Results,
         NEW a, NEW h, NEW g, NEW a2, NEW h2, NEW g2, Fits(s, a, h, g),
         Noted(<<s.phase, s.at>>, prior, a, h, g, a2, h2, g2)
  PROVE  /\ Step(s, prior) \in Snaps /\ Step(s, prior).kind = s.kind
         /\ Fits(Step(s, prior), a2, h2, g2)
<1>1. CASE s.kind = "commission" /\ CommissionFits(s, h, g)
  BY <1>1, CommissionAnswered DEF Fits
<1>2. CASE s.kind = "poll" /\ PollFits(s, h)
  BY <1>2, PollAnswered DEF Fits
<1>3. CASE s.kind = "disarm" /\ DisarmFits(s, a, g)
  BY <1>3, DisarmAnswered DEF Fits
<1> QED BY <1>1, <1>2, <1>3, BlankIs DEF Fits

\* A wait that has run out adds nothing to it.
LEMMA ResumedFits ==
  ASSUME NEW s \in Snaps, s.held = FALSE, ~Done(s), ~Failed(s), s # Blank, NEW prior,
         NEW a, NEW h, NEW g, Fits(s, a, h, g)
  PROVE  /\ Step(s, prior) \in Snaps /\ Step(s, prior).kind = s.kind
         /\ Fits(Step(s, prior), a, h, g)
<1>1. s.phase \notin {"complete", "failed"}
  BY DEF Done, Failed
<1>2. CASE s.kind = "commission" /\ CommissionFits(s, h, g)
  <2>1. InVoltage(s, h, g)
    BY <1>1, <1>2 DEF CommissionFits, IsCommissioned, InPresence, InIdentity, InProvision,
                      InHealth, InGains
  <2> QED BY <1>2, <2>1, VoltageResumed DEF Fits
<1>3. CASE s.kind = "poll" /\ PollFits(s, h)
  BY <1>1, <1>3 DEF PollFits
<1>4. CASE s.kind = "disarm" /\ DisarmFits(s, a, g)
  <2>1. s.phase = "dwell"
    BY <1>1, <1>4 DEF DisarmFits
  <2> QED BY <1>4, <2>1, DisarmWaits DEF Fits
<1> QED BY <1>2, <1>3, <1>4 DEF Fits

\* What a snapshot claims, some run of a bus would bear out.
Borne(s) == \E a, h, g : g \subseteq h /\ h \subseteq a /\ Fits(s, a, h, g)

LEMMA Bears ==
  ASSUME NEW s, NEW a, NEW h, NEW g, g \subseteq h, h \subseteq a, Fits(s, a, h, g)
  PROVE  Borne(s)
BY DEF Borne

\* A transaction dropped unanswered fails a commissioning or a poll, and is one
\* more servo unmeasured or unreleased to a disarm.
LEMMA DroppedFits ==
  ASSUME NEW s \in Snaps, s.held = TRUE, NEW a, NEW h, NEW g, Fits(s, a, h, g)
  PROVE  /\ Step(s, "nothing") \in Snaps /\ Step(s, "nothing").kind = s.kind
         /\ Borne(Step(s, "nothing"))
<1> DEFINE f == Fail(s)
<1>1. /\ f \in Snaps /\ f.kind = s.kind /\ f.phase = "failed" /\ f.held = FALSE
  BY FailIs
<1>2. CASE s.kind = "commission" /\ CommissionFits(s, h, g)
  <2>1. Step(s, "nothing") = f
    <3>1. CommissionAbsorb(s, "nothing") = f
      BY DEF CommissionAbsorb
    <3> HIDE DEF f
    <3> QED BY <1>1, <1>2, <3>1 DEF Step, CommissionNext, CommissionEmit, Failed
  <2> HIDE DEF f
  <2>2. Fits(f, {}, {}, {})
    BY <1>1, <1>2 DEF Fits, CommissionFits
  <2> QED BY <1>1, <2>1, <2>2, Bears
<1>3. CASE s.kind = "poll" /\ PollFits(s, h)
  <2>1. Step(s, "nothing") = f
    <3>1. PollAbsorb(s, "nothing") = f
      BY DEF PollAbsorb
    <3> HIDE DEF f
    <3> QED BY <1>1, <1>3, <3>1 DEF Step, PollNext, PollEmit, PollSkip, Failed
  <2> HIDE DEF f
  <2>2. Fits(f, {}, {}, {})
    BY <1>1, <1>3 DEF Fits, PollFits
  <2> QED BY <1>1, <2>1, <2>2, Bears
<1>4. CASE s.kind = "disarm" /\ DisarmFits(s, a, g)
  <2> DEFINE e == <<s.phase, s.at>>
  <2>1. DisarmFits(s, a \cup g, g)
    BY <1>4 DEF DisarmFits, Steps
  <2>2. Noted(e, "nothing", a \cup g, a \cup g, g, a \cup g \cup {e}, (a \cup g) \ {e}, g \ {e})
    BY DEF Noted
  <2>3. /\ Step(s, "nothing") \in Snaps /\ Step(s, "nothing").kind = "disarm"
        /\ DisarmFits(Step(s, "nothing"), a \cup g \cup {e}, g \ {e})
    BY <1>4, <2>1, <2>2, DisarmAnswered
  <2>4. Fits(Step(s, "nothing"), a \cup g \cup {e}, (a \cup g) \ {e}, g \ {e})
    BY <1>4, <2>3 DEF Fits
  <2>5. g \ {e} \subseteq (a \cup g) \ {e} /\ (a \cup g) \ {e} \subseteq a \cup g \cup {e}
    OBVIOUS
  <2> QED BY <1>4, <2>3, <2>4, <2>5, Bears
<1> QED BY <1>2, <1>3, <1>4, BlankIs DEF Fits

\* A conversation under way, of a bus that could be.
Runs(s) == s \in Snaps /\ ~Done(s) /\ ~Failed(s) /\ Borne(s)

LEMMA BlankRuns == Runs(Blank)
<1>1. Fits(Blank, {}, {}, {})
  BY DEF Fits
<1> QED BY <1>1, BlankIs, Bears DEF Runs, Done, Failed

LEMMA OlderRuns ==
  ASSUME NEW s, Runs(s)
  PROVE  Runs(Older(s)) /\ Older(s).kind = s.kind /\ Older(s).held = s.held
<1>1. s \in Snaps
  BY DEF Runs
<1>2. Older(s) \in Snaps /\ Older(s).phase = s.phase /\ Older(s).kind = s.kind
      /\ Older(s).held = s.held
  BY <1>1, OlderIs
<1>3. PICK a, h, g : g \subseteq h /\ h \subseteq a /\ Fits(s, a, h, g)
  BY DEF Runs, Borne
<1>4. Fits(Older(s), a, h, g)
  BY <1>1, <1>3, OlderFits
<1> QED BY <1>2, <1>3, <1>4, Bears DEF Runs, Done, Failed

\* What a step of it leaves is under way again, or has ended.
Stands(s, kind) == /\ s \in Snaps /\ s.kind = kind
                   /\ Transacts(s) \/ Waits(s) => Runs(s)

LEMMA Stood ==
  ASSUME NEW s \in Snaps, Borne(s)
  PROVE  Stands(s, s.kind)
<1>0. PICK a, h, g : Fits(s, a, h, g)
  BY DEF Borne
<1>1. s.held = TRUE => s.phase \notin {"complete", "failed"}
  BY <1>0, BlankIs DEF Fits, CommissionFits, InPresence, InIdentity, InProvision, InVoltage,
                      InHealth, InGains, IsCommissioned, PollFits, DisarmFits
<1> QED BY <1>1 DEF Stands, Transacts, Waits, Runs, Done, Failed

LEMMA StepStands ==
  ASSUME NEW s, Runs(s), s # Blank, NEW prior \in Priors
  PROVE  Stands(Step(s, prior), s.kind)
<1> DEFINE t == Step(s, prior)
<1>1. s \in Snaps /\ ~Done(s) /\ ~Failed(s)
  BY DEF Runs
<1>2. PICK a, h, g : g \subseteq h /\ h \subseteq a /\ Fits(s, a, h, g)
  BY DEF Runs, Borne
<1>3. s.held = TRUE \/ s.held = FALSE
  BY <1>1 DEF Snaps
<1>4. t \in Snaps /\ t.kind = s.kind /\ Borne(t)
  <2>1. CASE s.held = FALSE
    <3>1. t \in Snaps /\ t.kind = s.kind /\ Fits(t, a, h, g)
      BY <1>1, <1>2, <2>1, ResumedFits
    <3> HIDE DEF t
    <3> QED BY <1>2, <3>1, Bears
  <2>2. CASE s.held = TRUE /\ prior = "nothing"
    BY <1>1, <1>2, <2>2, DroppedFits
  <2>3. CASE s.held = TRUE /\ prior \in Results
    <3> DEFINE e == <<s.phase, s.at>>
               a2 == a \cup {e}
               h2 == IF prior \in {"ok", "odd"} THEN h \cup {e} ELSE h \ {e}
               g2 == IF prior = "ok" THEN g \cup {e} ELSE g \ {e}
    <3>1. Noted(e, prior, a, h, g, a2, h2, g2)
      BY <1>2 DEF Noted
    <3>2. t \in Snaps /\ t.kind = s.kind /\ Fits(t, a2, h2, g2)
      BY <1>1, <1>2, <2>3, <3>1, AnsweredFits
    <3>3. g2 \subseteq h2 /\ h2 \subseteq a2
      BY <3>1 DEF Noted
    <3> HIDE DEF t, e, a2, h2, g2
    <3> QED BY <3>2, <3>3, Bears
  <2> QED BY <1>3, <2>1, <2>2, <2>3 DEF Priors
<1> HIDE DEF t
<1>6. Stands(t, t.kind)
  BY <1>4, Stood
<1> QED BY <1>4, <1>6 DEF t

\* So is what the first step of one leaves, and a disarm is not done with it.
LEMMA OpensStand ==
  /\ Stands(Step(CommissionStart, "nothing"), "commission")
  /\ \A rows \in SUBSET Rows : Stands(Step(PollStart(rows), "nothing"), "poll")
  /\ Stands(Step(DisarmStart, "nothing"), "disarm")
<1>1. Stands(Step(CommissionStart, "nothing"), "commission")
  <2> DEFINE t == Step(CommissionStart, "nothing")
  <2>1. t \in Snaps /\ t.kind = "commission" /\ CommissionFits(t, {}, {})
    BY CommissionOpens
  <2> HIDE DEF t
  <2>2. Fits(t, {}, {}, {})
    BY <2>1 DEF Fits
  <2>3. Stands(t, t.kind)
    BY <2>1, <2>2, Bears, Stood
  <2> QED BY <2>1, <2>3 DEF t
<1>2. ASSUME NEW rows \in SUBSET Rows PROVE Stands(Step(PollStart(rows), "nothing"), "poll")
  <2> DEFINE t == Step(PollStart(rows), "nothing")
  <2>1. t \in Snaps /\ t.kind = "poll" /\ PollFits(t, {})
    BY PollOpens
  <2> HIDE DEF t
  <2>2. Fits(t, {}, {}, {})
    BY <2>1 DEF Fits
  <2>3. Stands(t, t.kind)
    BY <2>1, <2>2, Bears, Stood
  <2> QED BY <2>1, <2>3 DEF t
<1>3. Stands(Step(DisarmStart, "nothing"), "disarm")
  <2> DEFINE t == Step(DisarmStart, "nothing")
  <2>1. t \in Snaps /\ t.kind = "disarm" /\ DisarmFits(t, {}, {})
    BY DisarmOpens
  <2> HIDE DEF t
  <2>2. Fits(t, {}, {}, {})
    BY <2>1 DEF Fits
  <2>3. Stands(t, t.kind)
    BY <2>1, <2>2, Bears, Stood
  <2> QED BY <2>1, <2>3 DEF t
<1> QED BY <1>1, <1>2, <1>3

LEMMA DisarmGoesOn == ~Done(Step(DisarmStart, "nothing"))
<1> DEFINE c == DisarmStart
           u == Into(c, "verify")
<1>1. c = [Blank EXCEPT !.kind = "disarm", !.phase = "dwell", !.flag = TRUE]
  BY DEF DisarmStart
<1> HIDE DEF c
<1>2. /\ c \in Snaps /\ c.kind = "disarm" /\ c.phase = "dwell" /\ c.held = FALSE
  BY <1>1, BlankIs DEF Snaps, Kinds, Phases
<1>3. Step(c, "nothing") = DisarmEmit(c)
  BY <1>2 DEF Step, DisarmNext, DisarmAbsorb
<1>4. u \in Snaps /\ u.phase = "verify"
  BY <1>2, IntoIs DEF Phases
<1>5. Step(c, "nothing") = [c EXCEPT !.flag = FALSE] \/ Step(c, "nothing") = Issued(u)
  BY <1>2, <1>3 DEF DisarmEmit, Done, Issued
<1> HIDE DEF u
<1>6. [c EXCEPT !.flag = FALSE].phase = "dwell"
  BY <1>2 DEF Snaps
<1>7. Issued(u).phase = "verify"
  BY <1>4, IssuedIs
<1> QED BY <1>5, <1>6, <1>7 DEF Done, c
=============================================================================
