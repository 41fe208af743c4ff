------------------------- MODULE SessionDriverProofs -------------------------
(***************************************************************************)
(* Proofs about the session and the driver together: what the session says *)
(* of the machine is true of it, for any number of servos, lines of any    *)
(* length, any budgets, and whatever arrives in whatever order.  The       *)
(* invariant ties what the session keeps to what the driver keeps by what  *)
(* is on its way between them, so its parts are written over the five      *)
(* things at once: the slot s, the datagram c it has yet to send, the      *)
(* driver d, the line l to it and the line b back.                         *)
(***************************************************************************)
EXTENDS SessionDriver, SessionProofs

\* What the invariant allows to befall the two: lost datagrams and releases that
\* do not take, but a driver that is never starved nor displaces an event, a bus
\* that carries an enable, no fault raised about a machine no longer commanded,
\* and a session that gives an engagement some time (session_params.textproto).
Bearable == /\ Faults \subseteq {"lost", "sweep"}
            /\ "late" \notin Hazards /\ AuxTimeout # 0

-----------------------------------------------------------------------------
(* Lines.                                                                  *)

Carries(l, says) == \E i \in 1..Len(l) : l[i].says = says
Holds(b, event) == \E i \in 1..Len(b) : b[i] = event

LEMMA TailIs ==
  ASSUME NEW S, NEW l \in Seq(S), l # <<>>
  PROVE  /\ Len(l) \in Nat /\ Len(l) >= 1
         /\ Head(l) = l[1] /\ Head(l) \in S
         /\ Tail(l) \in Seq(S) /\ Len(Tail(l)) = Len(l) - 1
         /\ \A i \in 1..Len(Tail(l)) : i + 1 \in 1..Len(l) /\ Tail(l)[i] = l[i + 1]
         /\ \A i \in 1..Len(l) : i = 1 \/ (i - 1 \in 1..Len(Tail(l)) /\ l[i] = Tail(l)[i - 1])
<1>1. Len(l) \in Nat /\ Len(l) >= 1 /\ Head(l) = l[1] /\ Head(l) \in S
  OBVIOUS
<1>2. Tail(l) \in Seq(S) /\ Len(Tail(l)) = Len(l) - 1
  OBVIOUS
<1>3. \A i \in 1..Len(Tail(l)) : i + 1 \in 1..Len(l) /\ Tail(l)[i] = l[i + 1]
  BY <1>1, <1>2
<1>4. ASSUME NEW i \in 1..Len(l), i # 1 PROVE i - 1 \in 1..Len(Tail(l)) /\ l[i] = Tail(l)[i - 1]
  <2>1. i - 1 \in 1..Len(Tail(l)) /\ (i - 1) + 1 = i
    BY <1>1, <1>2, <1>4
  <2> QED BY <1>3, <2>1
<1> QED BY <1>1, <1>2, <1>3, <1>4

LEMMA AppendIs ==
  ASSUME NEW S, NEW l \in Seq(S), NEW m \in S
  PROVE  /\ Append(l, m) \in Seq(S) /\ Len(l) \in Nat /\ Len(Append(l, m)) = Len(l) + 1
         /\ \A i \in 1..Len(l) : i \in 1..Len(Append(l, m)) /\ Append(l, m)[i] = l[i]
         /\ Append(l, m)[Len(l) + 1] = m /\ Len(l) + 1 \in 1..Len(Append(l, m))
         /\ \A i \in 1..Len(Append(l, m)) : i \in 1..Len(l) \/ i = Len(l) + 1
OBVIOUS

-----------------------------------------------------------------------------
(* The driver by itself.                                                   *)

\* A latch stands with its pass; a pass that has confirmed has let belief go;
\* torque is never held unbelieved, nor belief past the dead-man; and a
\* transaction that has run is one no engagement waits behind.
Wired(d) == /\ d \in Drivers
            /\ d.latched <=> d.pass # "none"
            /\ d.pass = "confirmed" => d.believed = {}
            /\ d.torqued \subseteq d.believed
            /\ d.believed # {} => d.quiet <= HoldTimeout
            /\ d.txn \in {"well", "badly"} => d.ask = {}
            /\ d.txn = "well" => d.frees \cap d.believed = {}

\* What the driver has reported, no word of an engagement behind a release's.
Reports == {"EngageConfirmed", "TorqueOffConfirmed", "TorqueOffUnconfirmed"}
Tidy(b) == /\ b \in Seq(Reports)
           /\ \A i, j \in 1..Len(b) : i < j /\ b[i] = "TorqueOffConfirmed" =>
                                        b[j] = "TorqueOffUnconfirmed"

-----------------------------------------------------------------------------
(* The two of them.                                                        *)

\* A pass on its way to its verdict, or its verdict on its way to the session,
\* is of a release the session still owes: nothing else is in hand or in line.
Sweeping(d, b) == d.pass \in {"begun", "reading", "overdue"} \/ Holds(b, "TorqueOffConfirmed")
OnlyReleases(l) == \A i \in 1..Len(l) : l[i].says = "release"
SweepsAlone(s, d, l, b) ==
  Sweeping(d, b) => /\ s.owed /\ d.pass # "none" /\ d.ask = {} /\ d.txn = "none"
                    /\ OnlyReleases(l)
                    /\ Holds(b, "TorqueOffConfirmed") => d.pass = "confirmed"

\* A release in line that would begin a pass when it is heard is one still owed,
\* with no other word behind it; the rest are copies of one that was confirmed.
BeginsPass(d, l, i) == /\ l[i].says = "release"
                       /\ \/ d.pass = "none" \/ d.ask # {}
                          \/ \E k \in 1..(i - 1) : l[k].says = "engage"
LastWord(s, d, l) ==
  \A i \in 1..Len(l) : BeginsPass(d, l, i) =>
    s.owed /\ \A j \in (i + 1)..Len(l) : l[j].says = "release"

\* Nothing holds the machine, is about to, or says that something does.
Loose(d, l, b) == /\ d.believed = {} /\ d.ask = {}
                  /\ ~Carries(l, "engage") /\ ~Holds(b, "EngageConfirmed")

Down(s) == s.phase \in {"STARTING", "RESTING", "PARKED"} /\ ~s.owed
RestsLoose(s, d, l, b) == Down(s) => Loose(d, l, b)

\* What an engagement has asked for is what is in line, asked for, believed and
\* confirmed; before it has asked, or once it has been given up, there is none.
InHand(s, d, l, b) ==
  /\ \A i \in 1..Len(l) : l[i].says = "engage" => l[i].rows = s.rows
  /\ d.ask = {} \/ d.ask = s.rows
  /\ d.believed \subseteq s.rows
  /\ d.believed # {} => Holds(b, "EngageConfirmed")
  /\ Holds(b, "EngageConfirmed") => Heads \subseteq d.torqued
Unasking(s) == s.asked = 0 \/ SilentTooLong(s)
EngagesOne(s, d, l, b) ==
  s.phase = "ENGAGING" => /\ Unasking(s) => Loose(d, l, b)
                          /\ s.asked # 0 => InHand(s, d, l, b)

\* What a disarm has released is not believed held, nor about to be.
Freed(s) == IF s.phase = "STOPPING" /\ s.seq.phase = "release" THEN s.seq.rows ELSE {}
Rid(rows, d, l, b) == /\ d.believed \cap rows = {}
                      /\ rows # {} => /\ d.ask = {} /\ ~Carries(l, "engage")
                                      /\ ~Holds(b, "EngageConfirmed")
StaysFreed(s, d, l, b) == Rid(Freed(s), d, l, b)

\* The one transaction in flight has one copy, which is the session's own; and
\* no engagement is asked for behind it.
RowOf(s) == IF s.draining THEN {s.aux.row}
            ELSE IF s.seq.phase = "release" THEN {s.seq.at} ELSE {}
Mine(s, corr, rows) == /\ s.aux.on /\ s.aux.age = 0
                       /\ corr = s.aux.corr /\ rows = RowOf(s)
OneCopy(s, c, d, l) ==
  ~s.owed =>
    /\ d.txn # "none" => Mine(s, d.corr, d.frees) /\ ~Carries(l, "aux") /\ c # "aux"
    /\ \A i \in 1..Len(l) : l[i].says = "aux" =>
         /\ Mine(s, l[i].corr, l[i].rows) /\ c # "aux"
         /\ \A j \in 1..Len(l) : l[j].says = "aux" => i = j
    /\ c = "aux" => s.aux.on /\ s.aux.age = 0
NoneBehind(d, l) ==
  /\ \A i, j \in 1..Len(l) : i < j /\ l[i].says = "aux" => l[j].says # "engage"
  /\ d.txn # "none" => ~Carries(l, "engage")
AsksNext(s, c, d, l) ==
  c = "engage" => /\ ~Carries(l, "aux") /\ d.txn = "none"
                  /\ s.phase = "ENGAGING" /\ ~Unasking(s)

\* A degrade lets antennas go and nothing else, and an engagement that has asked
\* has a sweep of its head behind it.
Apt(s) == /\ s.limp \subseteq Antennas
          /\ s.draining => s.aux.on /\ s.aux.row \in Antennas
          /\ s.asked # 0 => Heads \subseteq s.rows /\ s.seq.kind # "poll"
          /\ s.phase = "ENGAGING" => s.asking

Bond(s, c, d, l, b) ==
  /\ Wired(d) /\ Tidy(b) /\ l \in Seq(Datagrams)
  /\ SweepsAlone(s, d, l, b) /\ LastWord(s, d, l)
  /\ RestsLoose(s, d, l, b) /\ EngagesOne(s, d, l, b) /\ StaysFreed(s, d, l, b)
  /\ OneCopy(s, c, d, l) /\ NoneBehind(d, l) /\ AsksNext(s, c, d, l)
  /\ Apt(s)

-----------------------------------------------------------------------------
(* A datagram lost, or heard.                                              *)

LEMMA DriverNumbers ==
  /\ EngageCycles \in Nat /\ EngageCycles > 0 /\ HoldTimeout \in Nat
  /\ 0 \in 0..(EngageCycles - 1) /\ 0 \in 0..(HoldTimeout + 1)
BY SessionDriverConstants DEF SessionDriverConstants

LEMMA TailCarries ==
  ASSUME NEW S, NEW l \in Seq(S), l # <<>>, NEW says
  PROVE  /\ Carries(Tail(l), says) => Carries(l, says)
         /\ Carries(l, says) => Head(l).says = says \/ Carries(Tail(l), says)
<1>1. CASE Carries(Tail(l), says)
  <2>1. PICK i \in 1..Len(Tail(l)) : Tail(l)[i].says = says
    BY <1>1 DEF Carries
  <2>2. i + 1 \in 1..Len(l) /\ l[i + 1].says = says
    BY <2>1, TailIs
  <2> QED BY <1>1, <2>2 DEF Carries
<1>2. CASE ~Carries(Tail(l), says)
  <2>1. ASSUME Carries(l, says) PROVE Head(l).says = says
    <3>1. PICK i \in 1..Len(l) : l[i].says = says
      BY <2>1 DEF Carries
    <3>2. i = 1
      BY <1>2, <3>1, TailIs DEF Carries
    <3> QED BY <3>1, <3>2, TailIs
  <2> QED BY <1>2, <2>1
<1> QED BY <1>1, <1>2

LEMMA TailHolds ==
  ASSUME NEW S, NEW b \in Seq(S), b # <<>>, NEW event
  PROVE  /\ Holds(Tail(b), event) => Holds(b, event)
         /\ Holds(b, event) => Head(b) = event \/ Holds(Tail(b), event)
         /\ Holds(b, Head(b))
<1>1. Holds(b, Head(b))
  <2>1. 1 \in 1..Len(b) /\ b[1] = Head(b)
    BY TailIs
  <2> QED BY <2>1 DEF Holds
<1>2. CASE Holds(Tail(b), event)
  <2>1. PICK i \in 1..Len(Tail(b)) : Tail(b)[i] = event
    BY <1>2 DEF Holds
  <2>2. i + 1 \in 1..Len(b) /\ b[i + 1] = event
    BY <2>1, TailIs
  <2> QED BY <1>1, <1>2, <2>2 DEF Holds
<1>3. CASE ~Holds(Tail(b), event)
  <2>1. ASSUME Holds(b, event) PROVE Head(b) = event
    <3>1. PICK i \in 1..Len(b) : b[i] = event
      BY <2>1 DEF Holds
    <3>2. i = 1
      BY <1>3, <3>1, TailIs DEF Holds
    <3> QED BY <3>1, <3>2, TailIs
  <2> QED BY <1>1, <1>3, <2>1
<1> QED BY <1>2, <1>3

\* A release that begins a pass from further back in the line does so from here.
LEMMA TailBegins ==
  ASSUME NEW d, NEW l \in Seq(Datagrams), l # <<>>, NEW i \in 1..Len(Tail(l)),
         BeginsPass(d, Tail(l), i)
  PROVE  i + 1 \in 1..Len(l) /\ BeginsPass(d, l, i + 1)
<1>1. i + 1 \in 1..Len(l) /\ Tail(l)[i] = l[i + 1]
  BY TailIs
<1>2. ASSUME NEW k \in 1..(i - 1), Tail(l)[k].says = "engage"
      PROVE  \E q \in 1..(i + 1 - 1) : l[q].says = "engage"
  <2>1. k \in 1..Len(Tail(l)) /\ k + 1 \in 1..(i + 1 - 1)
    BY <1>2, TailIs
  <2>2. l[k + 1].says = "engage"
    BY <1>2, <2>1, TailIs
  <2> QED BY <2>1, <2>2
<1> QED BY <1>1, <1>2 DEF BeginsPass

LEMMA ReleasesBehind ==
  ASSUME NEW l \in Seq(Datagrams), l # <<>>, NEW i \in 1..Len(Tail(l)),
         \A j \in (i + 1 + 1)..Len(l) : l[j].says = "release"
  PROVE  \A j \in (i + 1)..Len(Tail(l)) : Tail(l)[j].says = "release"
<1> TAKE j \in (i + 1)..Len(Tail(l))
<1>1. j \in 1..Len(Tail(l)) /\ j + 1 \in (i + 1 + 1)..Len(l)
  BY TailIs
<1>2. Tail(l)[j] = l[j + 1]
  BY <1>1, TailIs
<1> QED BY <1>1, <1>2

LEMMA TailLastWord ==
  ASSUME NEW s, NEW d, NEW l \in Seq(Datagrams), l # <<>>, LastWord(s, d, l)
  PROVE  LastWord(s, d, Tail(l))
<1> SUFFICES ASSUME NEW i \in 1..Len(Tail(l)), BeginsPass(d, Tail(l), i)
             PROVE  s.owed /\ \A j \in (i + 1)..Len(Tail(l)) : Tail(l)[j].says = "release"
  BY DEF LastWord
<1>1. i + 1 \in 1..Len(l) /\ BeginsPass(d, l, i + 1)
  BY TailBegins
<1>2. s.owed /\ \A j \in (i + 1 + 1)..Len(l) : l[j].says = "release"
  BY <1>1 DEF LastWord
<1> QED BY <1>2, ReleasesBehind

LEMMA TailInHand ==
  ASSUME NEW s, NEW d, NEW l \in Seq(Datagrams), l # <<>>, NEW b, InHand(s, d, l, b)
  PROVE  InHand(s, d, Tail(l), b)
BY TailIs DEF InHand

\* A datagram lost leaves everything else as it was tied.
LEMMA LoseKeeps ==
  ASSUME NEW s, NEW c, NEW d, NEW l, l # <<>>, NEW b, Bond(s, c, d, l, b)
  PROVE  Bond(s, c, d, Tail(l), b)
<1> DEFINE r == Tail(l)
<1>1. l \in Seq(Datagrams) /\ r \in Seq(Datagrams)
  BY TailIs DEF Bond
<1>2. \A says : Carries(r, says) => Carries(l, says)
  BY <1>1, TailCarries
<1>3. SweepsAlone(s, d, r, b)
  BY <1>1, TailIs DEF Bond, SweepsAlone, OnlyReleases
<1>4. LastWord(s, d, r)
  BY <1>1, TailLastWord DEF Bond
<1>5. RestsLoose(s, d, r, b) /\ StaysFreed(s, d, r, b)
  BY <1>2 DEF Bond, RestsLoose, StaysFreed, Loose, Rid
<1>6. EngagesOne(s, d, r, b)
  BY <1>1, <1>2, TailInHand DEF Bond, EngagesOne, Loose
<1>7. OneCopy(s, c, d, r)
  <2> SUFFICES ASSUME ~s.owed PROVE OneCopy(s, c, d, r)
    BY DEF OneCopy
  <2>1. ASSUME NEW i \in 1..Len(r), r[i].says = "aux"
        PROVE  /\ Mine(s, r[i].corr, r[i].rows) /\ c # "aux"
               /\ \A j \in 1..Len(r) : r[j].says = "aux" => i = j
    <3>1. i + 1 \in 1..Len(l) /\ r[i] = l[i + 1] /\ i \in Nat
      BY <1>1, TailIs
    <3>2. Mine(s, r[i].corr, r[i].rows) /\ c # "aux"
      BY <2>1, <3>1 DEF Bond, OneCopy
    <3>3. ASSUME NEW j \in 1..Len(r), r[j].says = "aux" PROVE i = j
      <4>1. j + 1 \in 1..Len(l) /\ r[j] = l[j + 1] /\ j \in Nat
        BY <1>1, TailIs
      <4>2. i + 1 = j + 1
        BY <2>1, <3>1, <3>3, <4>1 DEF Bond, OneCopy
      <4> QED BY <3>1, <4>1, <4>2
    <3> QED BY <3>2, <3>3
  <2> HIDE DEF r
  <2> QED BY <1>2, <2>1 DEF Bond, OneCopy
<1>8. NoneBehind(d, r)
  <2>1. ASSUME NEW i \in 1..Len(r), NEW j \in 1..Len(r), i < j, r[i].says = "aux"
        PROVE  r[j].says # "engage"
    <3>1. /\ i + 1 \in 1..Len(l) /\ r[i] = l[i + 1] /\ j + 1 \in 1..Len(l) /\ r[j] = l[j + 1]
          /\ i + 1 < j + 1
      BY <1>1, <2>1, TailIs
    <3> QED BY <2>1, <3>1 DEF Bond, NoneBehind
  <2> HIDE DEF r
  <2> QED BY <1>2, <2>1 DEF Bond, NoneBehind
<1>9. AsksNext(s, c, d, r)
  BY <1>2 DEF Bond, AsksNext
<1> QED BY <1>1, <1>3, <1>4, <1>5, <1>6, <1>7, <1>8, <1>9 DEF Bond

\* A release heard: what was asked for and what was to run are gone, and a pass
\* is under way unless one stands.
LEMMA ReleaseAccepted ==
  ASSUME NEW d, Wired(d), NEW m \in Datagrams, m.says = "release"
  PROVE  LET e == Accept(d, m)
         IN  /\ Wired(e) /\ e.ask = {} /\ e.txn = "none" /\ e.pass # "none"
             /\ e.believed = d.believed /\ e.torqued = d.torqued
             /\ e.pass = d.pass \/ (d.pass = "none" /\ e.pass = "begun")
<1> DEFINE e == Accept(d, m)
           h == [d EXCEPT !.quiet = 0]
           p == BeginPass(h)
           q == [p EXCEPT !.latched = TRUE, !.txn = "none", !.frees = {}, !.corr = 0]
           pass == IF d.pass = "none" THEN "begun" ELSE d.pass
<1>0. d \in Drivers
  BY DEF Wired
<1>1. e = [q EXCEPT !.ask = {}, !.waited = 0]
  BY DEF Accept, RequestTorqueOff, Unasked, LetGo
<1>2. h \in Drivers /\ h = [d EXCEPT !.quiet = 0]
  BY <1>0, DriverNumbers DEF Drivers
<1>3. p = [h EXCEPT !.pass = pass] /\ p \in Drivers
  BY <1>0, <1>2 DEF BeginPass, Drivers, Passes
<1>4. /\ p.pass = pass /\ p.torqued = d.torqued /\ p.believed = d.believed /\ p.quiet = 0
  BY <1>0, <1>2, <1>3 DEF Drivers
<1> HIDE DEF h, p, pass
<1>5. q \in Drivers /\ q.pass = p.pass /\ q.torqued = p.torqued /\ q.believed = p.believed
      /\ q.quiet = p.quiet /\ q.latched = TRUE /\ q.txn = "none" /\ q.frees = {}
  BY <1>3, Spare DEF Drivers, Transactions
<1> HIDE DEF q
<1>6. e \in Drivers /\ e.pass = q.pass /\ e.torqued = q.torqued /\ e.believed = q.believed
      /\ e.quiet = q.quiet /\ e.latched = TRUE /\ e.txn = "none" /\ e.frees = {} /\ e.ask = {}
  BY <1>1, <1>5, DriverNumbers DEF Drivers
<1> HIDE DEF e
<1>7. e.pass # "none" /\ (e.pass = d.pass \/ (d.pass = "none" /\ e.pass = "begun"))
  BY <1>4, <1>5, <1>6 DEF pass
<1>8. Wired(e)
  <2>1. e.pass = "confirmed" => e.believed = {}
    BY <1>4, <1>5, <1>6, <1>7 DEF Wired
  <2>2. e.believed # {} => e.quiet <= HoldTimeout
    BY <1>4, <1>5, <1>6, DriverNumbers
  <2> QED BY <1>4, <1>5, <1>6, <1>7, <2>1, <2>2 DEF Wired
<1> QED BY <1>4, <1>5, <1>6, <1>7, <1>8 DEF e

LEMMA EngageAccepted ==
  ASSUME NEW d, Wired(d), NEW m \in Datagrams, m.says = "engage", d.txn \notin {"well", "badly"}
  PROVE  LET e == Accept(d, m)
         IN  /\ Wired(e) /\ e.ask = m.rows /\ e.txn = d.txn /\ e.pass = d.pass
             /\ e.believed = d.believed /\ e.torqued = d.torqued /\ e.corr = d.corr
             /\ e.frees = d.frees
<1> DEFINE e == Accept(d, m)
           h == [d EXCEPT !.quiet = 0]
           waited == IF h.ask = m.rows THEN h.waited ELSE 0
<1>0. d \in Drivers /\ m.rows \in SUBSET Rows
  BY DEF Wired, Datagrams
<1>1. e = [h EXCEPT !.ask = m.rows, !.waited = waited]
  BY DEF Accept, OfferEngage
<1>2. /\ h \in Drivers /\ h.quiet = 0 /\ h.txn = d.txn /\ h.pass = d.pass /\ h.latched = d.latched
      /\ h.believed = d.believed /\ h.torqued = d.torqued /\ h.corr = d.corr /\ h.frees = d.frees
  BY <1>0, DriverNumbers DEF Drivers
<1> HIDE DEF h
<1>3. waited \in 0..(EngageCycles - 1)
  BY <1>2, DriverNumbers DEF Drivers
<1> HIDE DEF waited
<1>4. /\ e \in Drivers /\ e.ask = m.rows /\ e.quiet = 0 /\ e.txn = d.txn /\ e.pass = d.pass
      /\ e.latched = d.latched /\ e.believed = d.believed /\ e.torqued = d.torqued
      /\ e.corr = d.corr /\ e.frees = d.frees
  BY <1>0, <1>1, <1>2, <1>3 DEF Drivers
<1> HIDE DEF e
<1>5. Wired(e)
  BY <1>4, DriverNumbers DEF Wired
<1> QED BY <1>4, <1>5 DEF e

LEMMA RequestAccepted ==
  ASSUME NEW d, Wired(d), NEW m \in Datagrams, m.says = "aux"
  PROVE  LET e == Accept(d, m)
         IN  /\ Wired(e) /\ e.ask = d.ask /\ e.txn = "taken" /\ e.pass = d.pass
             /\ e.believed = d.believed /\ e.torqued = d.torqued
             /\ e.corr = m.corr /\ e.frees = m.rows
<1> DEFINE e == Accept(d, m)
           h == [d EXCEPT !.quiet = 0]
<1>0. d \in Drivers /\ m.rows \in SUBSET Rows /\ m.corr \in 0..(CorrWrap - 1)
  BY DEF Wired, Datagrams
<1>1. e = [h EXCEPT !.txn = "taken", !.frees = m.rows, !.corr = m.corr]
  BY DEF Accept
<1>2. /\ h \in Drivers /\ h.quiet = 0 /\ h.ask = d.ask /\ h.pass = d.pass /\ h.latched = d.latched
      /\ h.believed = d.believed /\ h.torqued = d.torqued
  BY <1>0, DriverNumbers DEF Drivers
<1> HIDE DEF h
<1>3. /\ e \in Drivers /\ e.ask = d.ask /\ e.quiet = 0 /\ e.txn = "taken" /\ e.pass = d.pass
      /\ e.latched = d.latched /\ e.believed = d.believed /\ e.torqued = d.torqued
      /\ e.corr = m.corr /\ e.frees = m.rows
  BY <1>0, <1>1, <1>2 DEF Drivers, Transactions
<1> HIDE DEF e
<1>4. Wired(e)
  BY <1>3, DriverNumbers DEF Wired
<1> QED BY <1>3, <1>4 DEF e

\* Somebody has been heard, and nothing else: a keep-alive, or one of the mover's
\* goals.
Refreshed(d) == [d EXCEPT !.quiet = 0]

LEMMA RefreshKeeps ==
  ASSUME NEW s, NEW c, NEW d, NEW l, NEW b, Bond(s, c, d, l, b)
  PROVE  Bond(s, c, Refreshed(d), l, b)
<1> DEFINE e == Refreshed(d)
<1>0. d \in Drivers
  BY DEF Bond, Wired
<1>1. /\ e \in Drivers /\ e.quiet = 0 /\ e.ask = d.ask /\ e.txn = d.txn /\ e.pass = d.pass
      /\ e.latched = d.latched /\ e.believed = d.believed /\ e.torqued = d.torqued
      /\ e.corr = d.corr /\ e.frees = d.frees
  BY <1>0, DriverNumbers DEF Refreshed, Drivers
<1> HIDE DEF e
<1>2. Wired(e)
  BY <1>1, DriverNumbers DEF Bond, Wired
<1>3. SweepsAlone(s, e, l, b) /\ LastWord(s, e, l)
  BY <1>1 DEF Bond, SweepsAlone, LastWord, Sweeping, BeginsPass
<1>4. RestsLoose(s, e, l, b) /\ EngagesOne(s, e, l, b) /\ StaysFreed(s, e, l, b)
  BY <1>1 DEF Bond, RestsLoose, EngagesOne, StaysFreed, Loose, InHand, Rid
<1>5. OneCopy(s, c, e, l) /\ NoneBehind(e, l) /\ AsksNext(s, c, e, l)
  BY <1>1 DEF Bond, OneCopy, NoneBehind, AsksNext
<1> QED BY <1>2, <1>3, <1>4, <1>5 DEF Bond, e

LEMMA HearReleaseKeeps ==
  ASSUME NEW s, NEW c, NEW d, NEW l, l # <<>>, NEW b, Bond(s, c, d, l, b),
         Head(l).says = "release"
  PROVE  Bond(s, c, Accept(d, Head(l)), Tail(l), b)
<1> DEFINE r == Tail(l)
           e == Accept(d, Head(l))
<1>1. Bond(s, c, d, r, b)
  BY LoseKeeps
<1>2. /\ l \in Seq(Datagrams) /\ Head(l) \in Datagrams /\ 1 \in 1..Len(l) /\ l[1] = Head(l)
      /\ Wired(d)
  BY TailIs DEF Bond
<1>3. /\ Wired(e) /\ e.ask = {} /\ e.txn = "none" /\ e.pass # "none"
      /\ e.believed = d.believed /\ e.torqued = d.torqued
      /\ e.pass = d.pass \/ (d.pass = "none" /\ e.pass = "begun")
  BY <1>2, ReleaseAccepted
<1>4. d.pass = "none" => s.owed /\ OnlyReleases(r)
  <2> SUFFICES ASSUME d.pass = "none" PROVE s.owed /\ OnlyReleases(r)
    OBVIOUS
  <2>1. BeginsPass(d, l, 1)
    BY <1>2 DEF BeginsPass
  <2>2. s.owed /\ \A j \in (1 + 1)..Len(l) : l[j].says = "release"
    BY <1>2, <2>1 DEF Bond, LastWord
  <2>3. \A j \in 1..Len(r) : j + 1 \in (1 + 1)..Len(l) /\ r[j] = l[j + 1]
    BY <1>2, TailIs
  <2> QED BY <2>2, <2>3 DEF OnlyReleases
<1> HIDE DEF e, r
<1>5. SweepsAlone(s, e, r, b)
  <2>1. CASE d.pass = "none"
    <3>1. ~Holds(b, "TorqueOffConfirmed")
      BY <1>1, <2>1 DEF Bond, SweepsAlone, Sweeping
    <3> QED BY <1>3, <1>4, <2>1, <3>1 DEF SweepsAlone
  <2>2. CASE d.pass # "none"
    BY <1>1, <1>3, <2>2 DEF Bond, SweepsAlone, Sweeping
  <2> QED BY <2>1, <2>2
<1>6. LastWord(s, e, r)
  <2>1. ASSUME NEW i \in 1..Len(r), BeginsPass(e, r, i) PROVE BeginsPass(d, r, i)
    BY <1>3, <2>1 DEF BeginsPass
  <2> QED BY <1>1, <2>1 DEF Bond, LastWord
<1>7. RestsLoose(s, e, r, b) /\ EngagesOne(s, e, r, b) /\ StaysFreed(s, e, r, b)
  BY <1>1, <1>3 DEF Bond, RestsLoose, EngagesOne, StaysFreed, Loose, InHand, Rid
<1>8. OneCopy(s, c, e, r) /\ NoneBehind(e, r) /\ AsksNext(s, c, e, r)
  BY <1>1, <1>3 DEF Bond, OneCopy, NoneBehind, AsksNext
<1> QED BY <1>1, <1>3, <1>5, <1>6, <1>7, <1>8 DEF Bond, e, r

LEMMA HearEngageKeeps ==
  ASSUME NEW s, NEW c, NEW d, NEW l, l # <<>>, NEW b, Bond(s, c, d, l, b),
         Head(l).says = "engage"
  PROVE  Bond(s, c, Accept(d, Head(l)), Tail(l), b)
<1> DEFINE r == Tail(l)
           e == Accept(d, Head(l))
<1>1. Bond(s, c, d, r, b)
  BY LoseKeeps
<1>2. /\ l \in Seq(Datagrams) /\ Head(l) \in Datagrams /\ 1 \in 1..Len(l) /\ l[1] = Head(l)
      /\ Wired(d)
  BY TailIs DEF Bond
<1>3. Carries(l, "engage") /\ d.txn = "none"
  <2>1. Carries(l, "engage")
    BY <1>2 DEF Carries
  <2> QED BY <2>1 DEF Bond, NoneBehind
<1>4. /\ Wired(e) /\ e.ask = Head(l).rows /\ e.txn = d.txn /\ e.pass = d.pass
      /\ e.believed = d.believed /\ e.torqued = d.torqued /\ e.corr = d.corr
      /\ e.frees = d.frees
  BY <1>2, <1>3, EngageAccepted
<1>5. ~Sweeping(d, b)
  BY <1>2 DEF Bond, SweepsAlone, OnlyReleases
<1>6. LastWord(s, e, r)
  <2> SUFFICES ASSUME NEW i \in 1..Len(r), BeginsPass(e, r, i)
               PROVE  s.owed /\ \A j \in (i + 1)..Len(r) : r[j].says = "release"
    BY DEF LastWord
  <2>1. /\ i + 1 \in 1..Len(l) /\ r[i] = l[i + 1] /\ 1 \in 1..(i + 1 - 1)
    BY <1>2, TailIs
  <2>2. BeginsPass(d, l, i + 1)
    BY <1>2, <2>1 DEF BeginsPass
  <2>3. s.owed /\ \A j \in (i + 1 + 1)..Len(l) : l[j].says = "release"
    BY <2>1, <2>2 DEF Bond, LastWord
  <2> QED BY <1>2, <2>3, ReleasesBehind
<1>7. ~Down(s) /\ (s.phase = "ENGAGING" => ~Unasking(s)) /\ Freed(s) = {}
  BY <1>3 DEF Bond, RestsLoose, EngagesOne, StaysFreed, Loose, Rid
<1>8. s.phase = "ENGAGING" => Head(l).rows = s.rows
  BY <1>2, <1>7 DEF Bond, EngagesOne, InHand, Unasking
<1> HIDE DEF e, r
<1>9. SweepsAlone(s, e, r, b)
  BY <1>4, <1>5 DEF SweepsAlone, Sweeping
<1>10. RestsLoose(s, e, r, b) /\ StaysFreed(s, e, r, b)
  BY <1>4, <1>7 DEF RestsLoose, StaysFreed, Rid
<1>11. EngagesOne(s, e, r, b)
  BY <1>1, <1>4, <1>7, <1>8 DEF Bond, EngagesOne, InHand
<1>12. OneCopy(s, c, e, r) /\ NoneBehind(e, r) /\ AsksNext(s, c, e, r)
  BY <1>1, <1>3, <1>4 DEF Bond, OneCopy, NoneBehind, AsksNext
<1> QED BY <1>1, <1>4, <1>6, <1>9, <1>10, <1>11, <1>12 DEF Bond, e, r

LEMMA HearRequestKeeps ==
  ASSUME NEW s, NEW c, NEW d, NEW l, l # <<>>, NEW b, Bond(s, c, d, l, b),
         Head(l).says = "aux"
  PROVE  Bond(s, c, Accept(d, Head(l)), Tail(l), b)
<1> DEFINE r == Tail(l)
           m == Head(l)
           e == Accept(d, m)
<1>1. Bond(s, c, d, r, b)
  BY LoseKeeps
<1>2. /\ l \in Seq(Datagrams) /\ m \in Datagrams /\ 1 \in 1..Len(l) /\ l[1] = m
      /\ Wired(d)
  BY TailIs DEF Bond
<1>3. /\ Wired(e) /\ e.ask = d.ask /\ e.txn = "taken" /\ e.pass = d.pass
      /\ e.believed = d.believed /\ e.torqued = d.torqued
      /\ e.corr = m.corr /\ e.frees = m.rows
  BY <1>2, RequestAccepted
<1>4. ~Sweeping(d, b)
  BY <1>2 DEF Bond, SweepsAlone, OnlyReleases
<1>5. Carries(l, "aux")
  BY <1>2 DEF Carries
<1>6. ASSUME NEW i \in 1..Len(r)
      PROVE  /\ r[i].says # "engage"
             /\ ~s.owed => r[i].says # "aux"
  <2>1. i + 1 \in 1..Len(l) /\ r[i] = l[i + 1] /\ 1 < i + 1
    BY <1>2, TailIs
  <2>2. r[i].says # "engage"
    BY <1>2, <2>1 DEF Bond, NoneBehind
  <2>3. ~s.owed => r[i].says # "aux"
    BY <1>2, <2>1 DEF Bond, OneCopy
  <2> QED BY <2>2, <2>3
<1>7. ~s.owed => Mine(s, m.corr, m.rows) /\ c # "aux"
  BY <1>2 DEF Bond, OneCopy
<1> HIDE DEF e, r, m
<1>8. ~Carries(r, "engage") /\ (~s.owed => ~Carries(r, "aux"))
  BY <1>6 DEF Carries
<1>9. SweepsAlone(s, e, r, b) /\ LastWord(s, e, r)
  BY <1>1, <1>3, <1>4 DEF Bond, SweepsAlone, Sweeping, LastWord, BeginsPass
<1>10. RestsLoose(s, e, r, b) /\ EngagesOne(s, e, r, b) /\ StaysFreed(s, e, r, b)
  BY <1>1, <1>3 DEF Bond, RestsLoose, EngagesOne, StaysFreed, Loose, InHand, Rid
<1>11. OneCopy(s, c, e, r) /\ NoneBehind(e, r)
  BY <1>1, <1>3, <1>7, <1>8 DEF Bond, OneCopy, NoneBehind
<1>12. AsksNext(s, c, e, r)
  BY <1>5 DEF Bond, AsksNext
<1> QED BY <1>1, <1>3, <1>9, <1>10, <1>11, <1>12 DEF Bond, e, r, m

\* Whatever is heard, the two stay tied.
LEMMA HearKeeps ==
  ASSUME NEW s, NEW c, NEW d, NEW l, l # <<>>, NEW b, Bond(s, c, d, l, b)
  PROVE  Bond(s, c, Accept(d, Head(l)), Tail(l), b)
<1>1. Head(l) \in Datagrams
  BY TailIs DEF Bond
<1>2. CASE Head(l).says = "keepalive"
  <2>1. Accept(d, Head(l)) = Refreshed(d)
    BY <1>2 DEF Accept, Refreshed
  <2>2. Bond(s, c, d, Tail(l), b)
    BY LoseKeeps
  <2> QED BY <2>1, <2>2, RefreshKeeps
<1>3. Head(l).says \in {"release", "engage", "aux", "keepalive"}
  BY <1>1 DEF Datagrams, Cmds
<1> QED BY <1>2, <1>3, HearReleaseKeeps, HearEngageKeeps, HearRequestKeeps

-----------------------------------------------------------------------------
(* A cycle.                                                                *)

LEMMA AppendCarries ==
  ASSUME NEW S, NEW l \in Seq(S), NEW m \in S, NEW says
  PROVE  Carries(Append(l, m), says) <=> Carries(l, says) \/ m.says = says
<1>1. ASSUME Carries(Append(l, m), says) PROVE Carries(l, says) \/ m.says = says
  <2>1. PICK i \in 1..Len(Append(l, m)) : Append(l, m)[i].says = says
    BY <1>1 DEF Carries
  <2>2. i \in 1..Len(l) \/ i = Len(l) + 1
    BY AppendIs
  <2>3. CASE i \in 1..Len(l)
    BY <2>1, <2>3, AppendIs DEF Carries
  <2>4. CASE i = Len(l) + 1
    BY <2>1, <2>4, AppendIs
  <2> QED BY <2>2, <2>3, <2>4
<1>2. ASSUME Carries(l, says) PROVE Carries(Append(l, m), says)
  BY <1>2, AppendIs DEF Carries
<1>3. ASSUME m.says = says PROVE Carries(Append(l, m), says)
  <2>1. Len(l) + 1 \in 1..Len(Append(l, m)) /\ Append(l, m)[Len(l) + 1] = m
    BY AppendIs
  <2> QED BY <1>3, <2>1 DEF Carries
<1> QED BY <1>1, <1>2, <1>3

LEMMA AppendHolds ==
  ASSUME NEW S, NEW b \in Seq(S), NEW event \in S, NEW e
  PROVE  Holds(Append(b, event), e) <=> Holds(b, e) \/ event = e
<1>1. ASSUME Holds(Append(b, event), e) PROVE Holds(b, e) \/ event = e
  <2>1. PICK i \in 1..Len(Append(b, event)) : Append(b, event)[i] = e
    BY <1>1 DEF Holds
  <2>2. i \in 1..Len(b) \/ i = Len(b) + 1
    BY AppendIs
  <2>3. CASE i \in 1..Len(b)
    BY <2>1, <2>3, AppendIs DEF Holds
  <2>4. CASE i = Len(b) + 1
    BY <2>1, <2>4, AppendIs
  <2> QED BY <2>2, <2>3, <2>4
<1>2. ASSUME Holds(b, e) PROVE Holds(Append(b, event), e)
  BY <1>2, AppendIs DEF Holds
<1>3. ASSUME event = e PROVE Holds(Append(b, event), e)
  <2>1. Len(b) + 1 \in 1..Len(Append(b, event)) /\ Append(b, event)[Len(b) + 1] = event
    BY AppendIs
  <2> QED BY <1>3, <2>1 DEF Holds
<1> QED BY <1>1, <1>2, <1>3

LEMMA TidyOn ==
  ASSUME NEW b, Tidy(b), NEW event \in Reports,
         event = "TorqueOffUnconfirmed" \/ ~Holds(b, "TorqueOffConfirmed")
  PROVE  Tidy(Append(b, event))
<1> DEFINE u == Append(b, event)
<1>1. b \in Seq(Reports) /\ u \in Seq(Reports)
  BY AppendIs DEF Tidy
<1>2. ASSUME NEW i \in 1..Len(u), NEW j \in 1..Len(u), i < j, u[i] = "TorqueOffConfirmed"
      PROVE  u[j] = "TorqueOffUnconfirmed"
  <2>1. i \in 1..Len(b) /\ u[i] = b[i]
    BY <1>1, <1>2, AppendIs
  <2>2. CASE j \in 1..Len(b)
    <3>1. u[j] = b[j]
      BY <1>1, <2>2, AppendIs
    <3> QED BY <1>2, <2>1, <2>2, <3>1 DEF Tidy
  <2>3. CASE j = Len(b) + 1
    <3>1. u[j] = event
      BY <1>1, <2>3, AppendIs
    <3>2. Holds(b, "TorqueOffConfirmed")
      BY <1>2, <2>1 DEF Holds
    <3> QED BY <3>1, <3>2
  <2> QED BY <1>1, <2>2, <2>3, AppendIs
<1> QED BY <1>1, <1>2 DEF Tidy

LEMMA WithoutIs ==
  ASSUME NEW d \in Drivers, NEW off \in SUBSET Rows
  PROVE  LET e == Without(d, off)
         IN  /\ e \in Drivers /\ e.torqued = d.torqued \ off /\ e.believed = d.believed \ off
             /\ e.latched = d.latched /\ e.pass = d.pass /\ e.ask = d.ask /\ e.txn = d.txn
             /\ e.frees = d.frees /\ e.corr = d.corr /\ e.quiet = d.quiet
BY DEF Without, Drivers

\* A gate sweeps only what a release still owed has latched: the dead-man never
\* comes to it, and a confirmed latch stands over nothing.
LEMMA GateKeeps ==
  ASSUME NEW s, NEW c, NEW d, NEW l, NEW b, Bond(s, c, d, l, b), Sane(s), NEW g \in Gate(d)
  PROVE  /\ g.says = "none" /\ Bond(s, c, g.drv, l, b)
         /\ g.drv.ask = d.ask /\ g.drv.pass = d.pass
<1>1. Wired(d) /\ d \in Drivers
  BY DEF Bond, Wired
<1>2. ~Expired(d)
  BY <1>1, DriverNumbers DEF Wired, Expired, Drivers
<1>3. CASE ~d.latched
  <2>1. g = Outcome(d, "none")
    BY <1>2, <1>3 DEF Gate
  <2> QED BY <2>1 DEF Outcome
<1>4. CASE d.latched
  <2>1. PICK off \in SUBSET Rows : g = Outcome(BeginPass(Without(d, off)), "none")
    BY <1>4 DEF Gate, Reached
  <2> DEFINE e == Without(d, off)
  <2>2. /\ e \in Drivers /\ e.torqued = d.torqued \ off /\ e.believed = d.believed \ off
        /\ e.latched = d.latched /\ e.pass = d.pass /\ e.ask = d.ask /\ e.txn = d.txn
        /\ e.frees = d.frees /\ e.corr = d.corr /\ e.quiet = d.quiet
    BY <1>1, WithoutIs
  <2> HIDE DEF e
  <2>3. d.pass # "none"
    BY <1>1, <1>4 DEF Wired
  <2>4. g = Outcome(e, "none")
    BY <2>1, <2>2, <2>3 DEF BeginPass, e
  <2>5. Wired(e)
    BY <1>1, <2>2 DEF Wired
  <2>6. SweepsAlone(s, e, l, b) /\ LastWord(s, e, l)
    BY <2>2 DEF Bond, SweepsAlone, LastWord, Sweeping, BeginsPass
  <2>7. RestsLoose(s, e, l, b) /\ StaysFreed(s, e, l, b)
    BY <2>2 DEF Bond, RestsLoose, StaysFreed, Loose, Rid
  <2>8. EngagesOne(s, e, l, b)
    <3> SUFFICES ASSUME s.phase = "ENGAGING" PROVE EngagesOne(s, e, l, b)
      BY DEF EngagesOne
    <3>1. ~s.owed
      BY SaneIs
    <3>2. d.pass = "confirmed"
      BY <1>1, <2>3, <3>1 DEF Bond, SweepsAlone, Sweeping, Drivers, Passes
    <3>3. e.believed = d.believed /\ e.torqued = d.torqued
      BY <1>1, <2>2, <3>2 DEF Wired
    <3> QED BY <2>2, <3>3 DEF Bond, EngagesOne, Loose, InHand
  <2>9. OneCopy(s, c, e, l) /\ NoneBehind(e, l) /\ AsksNext(s, c, e, l)
    BY <2>2 DEF Bond, OneCopy, NoneBehind, AsksNext
  <2>10. Bond(s, c, e, l, b)
    BY <2>5, <2>6, <2>7, <2>8, <2>9 DEF Bond
  <2> QED BY <2>2, <2>4, <2>10 DEF Outcome
<1> QED BY <1>1, <1>3, <1>4 DEF Drivers

\* What an engagement believed already, or read back, makes of the driver.
Enables(d, e) ==
  /\ e \in Drivers /\ e.ask = {} /\ e.believed = d.believed \cup d.ask
  /\ e.txn = d.txn /\ e.frees = d.frees /\ e.corr = d.corr
  /\ \/ /\ d.ask \subseteq d.believed /\ e.torqued = d.torqued
        /\ e.pass = d.pass /\ e.latched = d.latched /\ e.quiet = d.quiet
     \/ /\ e.torqued = d.torqued \cup d.ask
        /\ e.pass = (IF d.latched THEN "none" ELSE d.pass)
        /\ e.latched = FALSE /\ e.quiet = 0

\* An engagement asked for is confirmed in the cycle that takes it up, whether it
\* was believed already or is read back.
LEMMA EngageStepIs ==
  ASSUME Bearable, NEW d, Wired(d), d.ask # {}, NEW o \in EngageStep(d)
  PROVE  o.says = "EngageConfirmed" /\ Enables(d, o.drv)
<1> DEFINE a == Unasked(d)
<1>0. d \in Drivers
  BY DEF Wired
<1>1. /\ a \in Drivers /\ a.ask = {} /\ a.torqued = d.torqued /\ a.believed = d.believed
      /\ a.txn = d.txn /\ a.frees = d.frees /\ a.corr = d.corr /\ a.pass = d.pass
      /\ a.latched = d.latched /\ a.quiet = d.quiet
  BY <1>0, DriverNumbers DEF Unasked, Drivers
<1> HIDE DEF a
<1>2. CASE d.ask \subseteq d.believed
  <2>1. o = Outcome(a, "EngageConfirmed")
    BY <1>2 DEF EngageStep, a
  <2> QED BY <1>1, <1>2, <2>1 DEF Outcome, Enables
<1>3. CASE ~(d.ask \subseteq d.believed)
  <2> DEFINE h == [a EXCEPT !.torqued = a.torqued \cup d.ask]
             pass == IF h.latched THEN "none" ELSE h.pass
             e == Credited(h, d.ask)
  <2>1. o = Enabled(d, d.ask)
    BY <1>3 DEF EngageStep, Reached, Waiting, Bearable
  <2>2. /\ h \in Drivers /\ h.ask = {} /\ h.torqued = d.torqued \cup d.ask
        /\ h.believed = d.believed /\ h.txn = d.txn /\ h.frees = d.frees /\ h.corr = d.corr
        /\ h.pass = d.pass /\ h.latched = d.latched
    BY <1>0, <1>1 DEF Drivers
  <2>3. h = [Unasked(d) EXCEPT !.torqued = @ \cup d.ask]
    BY <1>1 DEF a
  <2> HIDE DEF h
  <2>4. d.ask \cap h.torqued = d.ask
    BY <2>2
  <2>5. o = Outcome(e, "EngageConfirmed")
    BY <2>1, <2>3, <2>4 DEF Enabled
  <2>6. pass \in Passes
    BY <2>2 DEF Drivers, Passes
  <2>7. e = [h EXCEPT !.believed = h.believed \cup d.ask, !.quiet = 0, !.latched = FALSE,
                      !.pass = pass]
    BY <2>2 DEF Credited
  <2>8. pass = IF d.latched THEN "none" ELSE d.pass
    BY <2>2
  <2> HIDE DEF pass, e
  <2>9. /\ e \in Drivers /\ e.ask = {} /\ e.torqued = h.torqued
        /\ e.believed = h.believed \cup d.ask /\ e.txn = h.txn /\ e.frees = h.frees
        /\ e.corr = h.corr /\ e.pass = pass /\ e.latched = FALSE /\ e.quiet = 0
    BY <1>0, <2>2, <2>6, <2>7, DriverNumbers DEF Drivers
  <2> QED BY <2>2, <2>5, <2>8, <2>9 DEF Outcome, Enables
<1> QED BY <1>2, <1>3

LEMMA EngageStepKeeps ==
  ASSUME Bearable, NEW s, NEW c, NEW d, NEW l, NEW b, Bond(s, c, d, l, b),
         d.ask # {}, NEW o \in EngageStep(d)
  PROVE  /\ o.says = "EngageConfirmed" /\ o.drv.ask = {}
         /\ Bond(s, c, o.drv, l, Append(b, "EngageConfirmed"))
         /\ o.drv.pass \notin {"reading", "overdue"}
<1> DEFINE e == o.drv
           u == Append(b, "EngageConfirmed")
<1>0. Wired(d) /\ d \in Drivers
  BY DEF Bond, Wired
<1>0a. o.says = "EngageConfirmed" /\ Enables(d, e)
  BY <1>0, EngageStepIs
<1>1. /\ o.says = "EngageConfirmed" /\ e \in Drivers /\ e.ask = {}
      /\ e.believed = d.believed \cup d.ask
      /\ e.txn = d.txn /\ e.frees = d.frees /\ e.corr = d.corr
      /\ \/ /\ d.ask \subseteq d.believed /\ e.torqued = d.torqued
            /\ e.pass = d.pass /\ e.latched = d.latched /\ e.quiet = d.quiet
         \/ /\ e.torqued = d.torqued \cup d.ask
            /\ e.pass = (IF d.latched THEN "none" ELSE d.pass)
            /\ e.latched = FALSE /\ e.quiet = 0
  BY <1>0a DEF Enables
<1> HIDE DEF e
<1>2. ~Sweeping(d, b)
  BY DEF Bond, SweepsAlone
<1>3. d.pass \in {"none", "confirmed"} /\ ~Holds(b, "TorqueOffConfirmed")
  BY <1>0, <1>2 DEF Sweeping, Drivers, Passes
<1>4. e.pass \in {"none", "confirmed"}
  BY <1>1, <1>3
<1>5. Wired(e)
  <2>1. e.pass = "confirmed" => e.believed = {}
    BY <1>0, <1>1 DEF Wired
  <2>2. e.latched <=> e.pass # "none"
    BY <1>0, <1>1 DEF Wired
  <2>3. e.believed # {} => e.quiet <= HoldTimeout
    BY <1>0, <1>1, DriverNumbers DEF Wired
  <2>4. e.torqued \subseteq e.believed
    BY <1>0, <1>1 DEF Wired
  <2>5. e.txn # "well"
    BY <1>0, <1>1 DEF Wired
  <2> QED BY <1>1, <2>1, <2>2, <2>3, <2>4, <2>5 DEF Wired
<1>6. b \in Seq(Reports) /\ "EngageConfirmed" \in Reports
  BY DEF Bond, Tidy, Reports
<1>7. Tidy(u)
  BY <1>3, <1>6, TidyOn DEF Bond
<1>8. /\ \A x : x # "EngageConfirmed" => (Holds(u, x) <=> Holds(b, x))
      /\ Holds(u, "EngageConfirmed")
  BY <1>6, AppendHolds
<1> HIDE DEF u
<1>9. SweepsAlone(s, e, l, u)
  BY <1>3, <1>4, <1>8 DEF SweepsAlone, Sweeping
<1>10. LastWord(s, e, l)
  <2>1. \A i \in 1..Len(l) : BeginsPass(e, l, i) => BeginsPass(d, l, i)
    BY DEF BeginsPass
  <2> QED BY <2>1 DEF Bond, LastWord
<1>11. ~Down(s) /\ (s.phase = "ENGAGING" => ~Unasking(s)) /\ Freed(s) = {}
  BY DEF Bond, RestsLoose, EngagesOne, StaysFreed, Loose, Rid
<1>12. EngagesOne(s, e, l, u)
  <2> SUFFICES ASSUME s.phase = "ENGAGING" PROVE InHand(s, e, l, u)
    BY <1>11 DEF EngagesOne
  <2>1. InHand(s, d, l, b) /\ s.asked # 0
    BY <1>11 DEF Bond, EngagesOne, Unasking
  <2>2. d.ask = s.rows /\ Heads \subseteq s.rows
    BY <2>1 DEF InHand, Bond, Apt
  <2>3. Heads \subseteq e.torqued
    <3>1. CASE d.ask \subseteq d.believed /\ e.torqued = d.torqued
      BY <2>1, <3>1 DEF InHand
    <3>2. CASE e.torqued = d.torqued \cup d.ask
      BY <2>2, <3>2
    <3> QED BY <1>1, <3>1, <3>2
  <2> QED BY <1>1, <1>8, <2>1, <2>2, <2>3 DEF InHand
<1>13. RestsLoose(s, e, l, u) /\ StaysFreed(s, e, l, u)
  BY <1>11 DEF RestsLoose, StaysFreed, Rid
<1>14. OneCopy(s, c, e, l) /\ NoneBehind(e, l) /\ AsksNext(s, c, e, l)
  BY <1>1 DEF Bond, OneCopy, NoneBehind, AsksNext
<1>15. Bond(s, c, e, l, u)
  BY <1>5, <1>7, <1>9, <1>10, <1>12, <1>13, <1>14 DEF Bond
<1> QED BY <1>1, <1>4, <1>15 DEF e, u

\* What a verdict makes of the driver that gives it.
Verdict(d, pass, believed) == [d EXCEPT !.pass = pass, !.believed = believed]

LEMMA ConfirmedAs ==
  ASSUME NEW d, Wired(d), d.latched, NEW pass \in {"overdue", "confirmed"}, NEW believed,
         \/ pass = "overdue" /\ believed = d.believed
         \/ pass = "confirmed" /\ d.torqued = {} /\ believed = {}
  PROVE  LET e == Verdict(d, pass, believed)
         IN  /\ Wired(e) /\ e.pass = pass /\ e.believed \subseteq d.believed
             /\ e.torqued = d.torqued /\ e.ask = d.ask /\ e.txn = d.txn
             /\ e.frees = d.frees /\ e.corr = d.corr
<1> DEFINE e == Verdict(d, pass, believed)
<1>1. d \in Drivers /\ believed \in SUBSET Rows
  BY DEF Wired, Drivers
<1>2. /\ e \in Drivers /\ e.pass = pass /\ e.believed = believed /\ e.torqued = d.torqued
      /\ e.ask = d.ask /\ e.txn = d.txn /\ e.frees = d.frees /\ e.corr = d.corr
      /\ e.latched = d.latched /\ e.quiet = d.quiet
  BY <1>1 DEF Verdict, Drivers, Passes
<1> HIDE DEF e
<1>3. Wired(e)
  BY <1>2 DEF Wired
<1> QED BY <1>2, <1>3 DEF e

\* What the pass says, it says of a release still owed, with nothing else in hand.
LEMMA ConfirmStepKeeps ==
  ASSUME NEW s, NEW c, NEW d, NEW l, NEW b, Bond(s, c, d, l, b), Sane(s), NEW o \in ConfirmStep(d)
  PROVE  \/ o = Outcome(d, "none")
         \/ /\ d.pass \in {"reading", "overdue"} /\ o.drv.ask = d.ask
            /\ o.says \in {"TorqueOffConfirmed", "TorqueOffUnconfirmed"}
            /\ Bond(s, c, o.drv, l, Append(b, o.says))
<1> SUFFICES ASSUME o # Outcome(d, "none")
             PROVE  /\ d.pass \in {"reading", "overdue"} /\ o.drv.ask = d.ask
                    /\ o.says \in {"TorqueOffConfirmed", "TorqueOffUnconfirmed"}
                    /\ Bond(s, c, o.drv, l, Append(b, o.says))
  OBVIOUS
<1>0. Wired(d) /\ b \in Seq(Reports)
  BY DEF Bond, Tidy
<1>1. /\ d.pass \in {"reading", "overdue"}
      /\ \/ /\ o = Outcome(Verdict(d, "confirmed", {}), "TorqueOffConfirmed") /\ d.torqued = {}
         \/ o = Outcome(Verdict(d, "overdue", d.believed), "TorqueOffUnconfirmed")
  <2>1. \/ /\ d.pass \in {"reading", "overdue"} /\ d.torqued = {}
           /\ o = Outcome(Verdict(d, "confirmed", {}), "TorqueOffConfirmed")
        \/ d.pass = "reading" /\ o = Outcome([d EXCEPT !.pass = "overdue"], "TorqueOffUnconfirmed")
    BY DEF ConfirmStep, Verdict
  <2>2. [d EXCEPT !.pass = "overdue"] = Verdict(d, "overdue", d.believed)
    BY <1>0 DEF Wired, Drivers, Verdict
  <2> QED BY <2>1, <2>2
<1>2. /\ s.owed /\ d.ask = {} /\ d.txn = "none" /\ OnlyReleases(l)
      /\ ~Holds(b, "TorqueOffConfirmed")
  BY <1>1 DEF Bond, SweepsAlone, Sweeping
<1>3. s.phase \in {"RESTING", "PARKED"}
  BY <1>2, SaneIs
<1>4. ASSUME NEW e, Wired(e), e.pass \in {"overdue", "confirmed"}, e.believed \subseteq d.believed,
             e.ask = d.ask, e.txn = d.txn, e.frees = d.frees, e.corr = d.corr,
             NEW says \in {"TorqueOffConfirmed", "TorqueOffUnconfirmed"},
             says = "TorqueOffConfirmed" => e.pass = "confirmed"
      PROVE  Bond(s, c, e, l, Append(b, says))
  <2> DEFINE u == Append(b, says)
  <2>1. says \in Reports
    BY <1>4 DEF Reports
  <2>2. Tidy(u)
    BY <1>2, <2>1, TidyOn DEF Bond
  <2>3. \A x : Holds(u, x) <=> Holds(b, x) \/ says = x
    BY <1>0, <2>1, AppendHolds
  <2> HIDE DEF u
  <2>4. SweepsAlone(s, e, l, u)
    BY <1>2, <1>4, <2>3 DEF SweepsAlone
  <2>5. LastWord(s, e, l)
    <3>1. \A i \in 1..Len(l) : BeginsPass(e, l, i) => BeginsPass(d, l, i)
      BY <1>4 DEF BeginsPass
    <3> QED BY <3>1 DEF Bond, LastWord
  <2>6. RestsLoose(s, e, l, u) /\ EngagesOne(s, e, l, u) /\ StaysFreed(s, e, l, u)
    BY <1>2, <1>3 DEF RestsLoose, EngagesOne, StaysFreed, Down, Rid, Freed
  <2>7. OneCopy(s, c, e, l) /\ NoneBehind(e, l) /\ AsksNext(s, c, e, l)
    BY <1>4 DEF Bond, OneCopy, NoneBehind, AsksNext
  <2> QED BY <1>4, <2>2, <2>4, <2>5, <2>6, <2>7 DEF Bond, u
<1>5. d.latched
  BY <1>0, <1>1 DEF Wired
<1>6. CASE o = Outcome(Verdict(d, "confirmed", {}), "TorqueOffConfirmed") /\ d.torqued = {}
  <2> DEFINE e == Verdict(d, "confirmed", {})
  <2>1. /\ Wired(e) /\ e.pass = "confirmed" /\ e.believed \subseteq d.believed
        /\ e.torqued = d.torqued /\ e.ask = d.ask /\ e.txn = d.txn
        /\ e.frees = d.frees /\ e.corr = d.corr
    BY <1>0, <1>5, <1>6, ConfirmedAs
  <2>2. Bond(s, c, e, l, Append(b, "TorqueOffConfirmed"))
    BY <1>4, <2>1
  <2> QED BY <1>1, <1>6, <2>1, <2>2 DEF Outcome
<1>7. CASE o = Outcome(Verdict(d, "overdue", d.believed), "TorqueOffUnconfirmed")
  <2> DEFINE e == Verdict(d, "overdue", d.believed)
  <2>1. /\ Wired(e) /\ e.pass = "overdue" /\ e.believed \subseteq d.believed
        /\ e.torqued = d.torqued /\ e.ask = d.ask /\ e.txn = d.txn
        /\ e.frees = d.frees /\ e.corr = d.corr
    BY <1>0, <1>5, ConfirmedAs
  <2>2. Bond(s, c, e, l, Append(b, "TorqueOffUnconfirmed"))
    BY <1>4, <2>1
  <2> QED BY <1>1, <1>7, <2>1, <2>2 DEF Outcome
<1> QED BY <1>1, <1>6, <1>7

\* While an engagement that has asked is in hand, the session has no release of a
\* servo of the head in flight.
LEMMA RowsAre ==
  ASSUME NEW s, Sane(s), Apt(s), "late" \notin Hazards
  PROVE  s.phase = "ENGAGING" => RowOf(s) \subseteq Antennas
<1> SUFFICES ASSUME s.phase = "ENGAGING", ~s.draining PROVE s.seq.phase # "release"
  BY DEF RowOf, Apt
<1>1. s.seq.kind # "disarm"
  BY DEF Sane, Disarming
<1>2. PICK a, h, g : Fits(s.seq, a, h, g)
  BY DEF Sane, Runs, Borne
<1> QED BY <1>1, <1>2, BlankIs DEF Fits, CommissionFits, InPresence, InIdentity, InProvision,
              InVoltage, InHealth, InGains, IsCommissioned, PollFits, Blank

\* A request that runs, however it goes, lets go of no more than its row.
LEMMA HostStepKeeps ==
  ASSUME NEW s, NEW c, NEW d, NEW l, NEW b, Bond(s, c, d, l, b), Sane(s), "late" \notin Hazards,
         d.ask = {}, NEW e \in HostStep(d)
  PROVE  Bond(s, c, e, l, b)
<1>0. d \in Drivers /\ Wired(d)
  BY DEF Bond, Wired
<1>1. CASE d.txn # "taken"
  BY <1>1 DEF HostStep
<1>2. CASE d.txn = "taken"
  <2>1. /\ e \in Drivers /\ e.txn \in {"well", "badly"}
        /\ e.latched = d.latched /\ e.pass = d.pass /\ e.ask = d.ask
        /\ e.frees = d.frees /\ e.corr = d.corr /\ e.quiet = d.quiet
        /\ e.torqued \subseteq e.believed
        /\ d.torqued \ d.frees \subseteq e.torqued
        /\ e.believed \subseteq d.believed
        /\ e.txn = "well" => e.believed \cap d.frees = {}
    <3>1. d.frees \in SUBSET Rows /\ d.torqued \subseteq d.believed
      BY <1>0 DEF Wired, Drivers
    <3> DEFINE w == Without(d, d.frees)
    <3>2. /\ w \in Drivers /\ w.torqued = d.torqued \ d.frees /\ w.believed = d.believed \ d.frees
          /\ w.latched = d.latched /\ w.pass = d.pass /\ w.ask = d.ask /\ w.txn = d.txn
          /\ w.frees = d.frees /\ w.corr = d.corr /\ w.quiet = d.quiet
      BY <1>0, <3>1, WithoutIs
    <3>3. \/ e = [w EXCEPT !.txn = "well"]
          \/ e = [d EXCEPT !.txn = "badly"]
          \/ e = [d EXCEPT !.txn = "badly", !.torqued = d.torqued \ d.frees]
      BY <1>2 DEF HostStep
    <3> HIDE DEF w
    <3>4. CASE e = [w EXCEPT !.txn = "well"]
      BY <3>1, <3>2, <3>4 DEF Drivers, Transactions
    <3>5. CASE e = [d EXCEPT !.txn = "badly"]
      BY <1>0, <3>1, <3>5 DEF Drivers, Transactions
    <3>6. CASE e = [d EXCEPT !.txn = "badly", !.torqued = d.torqued \ d.frees]
      BY <1>0, <3>1, <3>6 DEF Drivers, Transactions
    <3> QED BY <3>3, <3>4, <3>5, <3>6
  <2>2. Wired(e)
    BY <1>0, <2>1 DEF Wired
  <2>3. ~Sweeping(d, b)
    BY <1>2 DEF Bond, SweepsAlone
  <2>4. SweepsAlone(s, e, l, b) /\ LastWord(s, e, l)
    BY <2>1, <2>3 DEF Bond, SweepsAlone, Sweeping, LastWord, BeginsPass
  <2>5. RestsLoose(s, e, l, b) /\ StaysFreed(s, e, l, b)
    BY <2>1 DEF Bond, RestsLoose, StaysFreed, Loose, Rid
  <2>6. EngagesOne(s, e, l, b)
    <3> SUFFICES ASSUME s.phase = "ENGAGING" PROVE EngagesOne(s, e, l, b)
      BY DEF EngagesOne
    <3>1. Unasking(s) => Loose(e, l, b)
      BY <2>1 DEF Bond, EngagesOne, Loose
    <3>2. ASSUME s.asked # 0 PROVE InHand(s, e, l, b)
      <4>1. InHand(s, d, l, b)
        BY <3>2 DEF Bond, EngagesOne
      <4>2. ~s.owed
        BY SaneIs
      <4>3. d.frees \subseteq Antennas
        <5>1. d.frees = RowOf(s)
          BY <1>2, <4>2 DEF Bond, OneCopy, Mine
        <5> QED BY <5>1, RowsAre DEF Bond
      <4>4. Heads \subseteq d.torqued => Heads \subseteq e.torqued
        BY <2>1, <4>3 DEF Heads
      <4> QED BY <2>1, <4>1, <4>4 DEF InHand
    <3> QED BY <3>1, <3>2 DEF EngagesOne
  <2>7. OneCopy(s, c, e, l) /\ NoneBehind(e, l) /\ AsksNext(s, c, e, l)
    BY <1>2, <2>1 DEF Bond, OneCopy, NoneBehind, AsksNext
  <2> QED BY <2>2, <2>4, <2>5, <2>6, <2>7 DEF Bond
<1> QED BY <1>1, <1>2

LEMMA CycleKeeps ==
  ASSUME Bearable, Sane(slot), NEW c, Bond(slot, c, drv, line, back), Cycle
  PROVE  /\ Bond(slot, c, drv', line, back')
         /\ UNCHANGED <<vars, line>> /\ Len(back') <= LineCap
<1>0. Len(back) \in Nat /\ Len(back) < LineCap /\ back \in Seq(Reports) /\ LineCap \in Nat
  BY SessionDriverConstants DEF Cycle, Bond, Tidy, SessionDriverConstants
<1>1. PICK g \in Gate(drv) : \E e \in EngageStep(g.drv) : \E o \in ConfirmStep(e.drv) :
        /\ drv' \in HostStep(o.drv)
        /\ \E says \in Reported(Foremost(g.says, e.says, o.says)) :
             back' = IF says \in Events THEN Append(back, says) ELSE back
  BY DEF Cycle
<1>2. PICK e \in EngageStep(g.drv) : \E o \in ConfirmStep(e.drv) :
        /\ drv' \in HostStep(o.drv)
        /\ \E says \in Reported(Foremost(g.says, e.says, o.says)) :
             back' = IF says \in Events THEN Append(back, says) ELSE back
  BY <1>1
<1>3. PICK o \in ConfirmStep(e.drv) :
        /\ drv' \in HostStep(o.drv)
        /\ \E says \in Reported(Foremost(g.says, e.says, o.says)) :
             back' = IF says \in Events THEN Append(back, says) ELSE back
  BY <1>2
<1>4. g.says = "none" /\ Bond(slot, c, g.drv, line, back)
  BY GateKeeps
<1>5. Reported(Foremost(g.says, e.says, o.says)) = {IF e.says # "none" THEN e.says ELSE o.says}
  BY <1>4 DEF Reported, Foremost, Bearable
<1> DEFINE says == IF e.says # "none" THEN e.says ELSE o.says
<1>6. back' = IF says \in Events THEN Append(back, says) ELSE back
  BY <1>3, <1>5
<1>7. o.drv.ask = {} /\ Bond(slot, c, o.drv, line, back')
  <2>1. CASE g.drv.ask # {}
    <3>1. /\ e.says = "EngageConfirmed" /\ e.drv.ask = {}
          /\ Bond(slot, c, e.drv, line, Append(back, "EngageConfirmed"))
          /\ e.drv.pass \notin {"reading", "overdue"}
      BY <1>4, <2>1, EngageStepKeeps
    <3>2. o = Outcome(e.drv, "none")
      BY <3>1 DEF ConfirmStep
    <3>3. back' = Append(back, "EngageConfirmed")
      BY <1>6, <3>1 DEF Events
    <3> QED BY <3>1, <3>2, <3>3 DEF Outcome
  <2>2. CASE g.drv.ask = {}
    <3>1. e = Outcome(g.drv, "none")
      BY <2>2 DEF EngageStep
    <3>2. e.says = "none" /\ e.drv = g.drv
      BY <3>1 DEF Outcome
    <3>3. CASE o = Outcome(e.drv, "none")
      <4>1. back' = back
        BY <1>6, <3>2, <3>3 DEF Outcome, Events
      <4> QED BY <1>4, <2>2, <3>2, <3>3, <4>1 DEF Outcome
    <3>4. CASE o # Outcome(e.drv, "none")
      <4>1. /\ o.drv.ask = e.drv.ask
            /\ o.says \in {"TorqueOffConfirmed", "TorqueOffUnconfirmed"}
            /\ Bond(slot, c, o.drv, line, Append(back, o.says))
        BY <1>4, <3>2, <3>4, ConfirmStepKeeps
      <4>2. back' = Append(back, o.says)
        BY <1>6, <3>2, <4>1 DEF Events
      <4> QED BY <2>2, <3>2, <4>1, <4>2
    <3> QED BY <3>3, <3>4
  <2> QED BY <2>1, <2>2
<1>8. Bond(slot, c, drv', line, back')
  BY <1>3, <1>7, HostStepKeeps DEF Bearable
<1>9. Len(back') <= LineCap
  <2>1. Bond(slot, c, o.drv, line, back')
    BY <1>7
  <2>2. back' = back \/ (\E x : back' = Append(back, x))
    BY <1>6
  <2>3. Len(back') = Len(back) \/ Len(back') = Len(back) + 1
    BY <1>0, <2>2
  <2> QED BY <1>0, <2>3
<1> QED BY <1>8, <1>9 DEF Cycle

-----------------------------------------------------------------------------
(* A step of the session that is none of the bus's.                        *)

\* What leaves everything tied: a release taken up, or nothing the driver could
\* tell, an engagement opened at rest and a stow begun under command aside.
Steady(s, t) ==
  /\ s.owed => t.owed
  /\ ~t.owed =>
       /\ t.aux = s.aux /\ t.draining = s.draining /\ t.seq = s.seq
       /\ t.limp \subseteq s.limp \cup Antennas
       /\ \/ /\ t.phase = s.phase \/ (s.phase = "ACTIVE" /\ t.phase = "WINDING_DOWN")
             /\ t.asking = s.asking /\ t.asked = s.asked /\ t.rows = s.rows
          \/ s.phase = "RESTING" /\ t.phase = "ENGAGING" /\ t.asking /\ t.asked = 0

LEMMA SteadyOn ==
  ASSUME NEW s, NEW t, NEW u, Steady(s, t), Steady(t, u),
         t.phase = s.phase, t.asking = s.asking, t.asked = s.asked, t.rows = s.rows
  PROVE  Steady(s, u)
BY DEF Steady

\* A slot that owes a release is apt, whatever it was.
LEMMA OwingIsApt ==
  ASSUME NEW s, Sane(s), s.owed
  PROVE  Apt(s)
<1>1. s.phase \in {"RESTING", "PARKED"} /\ s.asked = 0
  BY SaneIs
<1>2. s.limp = {} /\ ~s.draining
  BY DEF Sane, Owing, OwesDegrade
<1> QED BY <1>1, <1>2 DEF Apt

\* Everything but what the session says next is tied to a machine it has let go.
LEMMA OwingKeeps ==
  ASSUME NEW s, NEW c, NEW d, NEW l, NEW b, Bond(s, c, d, l, b), NEW t, Sane(t), t.owed,
         NEW a, a # "engage"
  PROVE  Bond(t, a, d, l, b)
<1>1. t.phase \in {"RESTING", "PARKED"}
  BY SaneIs
<1>2. SweepsAlone(t, d, l, b)
  BY DEF Bond, SweepsAlone
<1>3. LastWord(t, d, l)
  BY DEF Bond, LastWord
<1>4. RestsLoose(t, d, l, b) /\ EngagesOne(t, d, l, b) /\ StaysFreed(t, d, l, b)
  BY <1>1 DEF RestsLoose, Down, EngagesOne, StaysFreed, Freed, Rid
<1>5. OneCopy(t, a, d, l) /\ AsksNext(t, a, d, l)
  BY DEF OneCopy, AsksNext
<1> QED BY <1>2, <1>3, <1>4, <1>5, OwingIsApt DEF Bond

LEMMA SteadyKeeps ==
  ASSUME NEW s, NEW c, NEW d, NEW l, NEW b, Bond(s, c, d, l, b), Sane(s), NEW t, Sane(t),
         Steady(s, t), c = "engage" => s.phase # "ENGAGING" \/ ~t.owed
  PROVE  Bond(t, c, d, l, b)
<1>1. CASE t.owed
  <2>1. c # "engage"
    BY <1>1 DEF Bond, AsksNext
  <2> QED BY <1>1, <2>1, OwingKeeps
<1>2. CASE ~t.owed
  <2>1. /\ ~s.owed /\ t.aux = s.aux /\ t.draining = s.draining /\ t.seq = s.seq
        /\ t.limp \subseteq s.limp \cup Antennas
        /\ \/ /\ t.phase = s.phase \/ (s.phase = "ACTIVE" /\ t.phase = "WINDING_DOWN")
              /\ t.asking = s.asking /\ t.asked = s.asked /\ t.rows = s.rows
           \/ s.phase = "RESTING" /\ t.phase = "ENGAGING" /\ t.asking /\ t.asked = 0
    BY <1>2 DEF Steady
  <2>2. SweepsAlone(t, d, l, b)
    BY <2>1 DEF Bond, SweepsAlone
  <2>3. LastWord(t, d, l)
    BY <2>1 DEF Bond, LastWord
  <2>4. RestsLoose(t, d, l, b)
    BY <1>2, <2>1 DEF Bond, RestsLoose, Down
  <2>5. EngagesOne(t, d, l, b)
    <3>1. CASE s.phase = "RESTING" /\ t.phase = "ENGAGING" /\ t.asked = 0
      BY <2>1, <3>1 DEF Bond, RestsLoose, Down, EngagesOne
    <3>2. CASE t.phase = s.phase /\ t.asked = s.asked /\ t.rows = s.rows
      BY <3>2 DEF Bond, EngagesOne, InHand, Unasking, SilentTooLong
    <3>3. CASE t.phase = "WINDING_DOWN"
      BY <3>3 DEF EngagesOne
    <3> QED BY <2>1, <3>1, <3>2, <3>3
  <2>6. StaysFreed(t, d, l, b)
    BY <2>1 DEF Bond, StaysFreed, Freed, Rid
  <2>7. OneCopy(t, c, d, l)
    <3>1. RowOf(t) = RowOf(s)
      BY <2>1 DEF RowOf
    <3> QED BY <2>1, <3>1 DEF Bond, OneCopy, Mine
  <2>8. AsksNext(t, c, d, l)
    BY <2>1 DEF Bond, AsksNext, Unasking, SilentTooLong
  <2>9. Apt(t)
    BY <2>1 DEF Bond, Apt
  <2> QED BY <2>2, <2>3, <2>4, <2>5, <2>6, <2>7, <2>8, <2>9 DEF Bond
<1> QED BY <1>1, <1>2

LEMMA SpentSteady ==
  ASSUME NEW s, NEW u \in Slots, Steady(s, u)
  PROVE  Steady(s, Spent(u))
<1> DEFINE t == Spent(u)
<1>1. /\ t.phase = u.phase /\ t.owed = u.owed /\ t.asking = u.asking /\ t.asked = u.asked
      /\ SameBus(u, t) /\ SameRail(u, t)
  BY SpentIs
<1> HIDE DEF t
<1>2. /\ t.aux = u.aux /\ t.draining = u.draining /\ t.seq = u.seq /\ t.limp = u.limp
      /\ t.rows = u.rows
  BY <1>1 DEF SameBus, SameRail
<1>3. Steady(s, t)
  BY <1>1, <1>2 DEF Steady
<1> QED BY <1>3 DEF t

\* What the bus, the rows and the life of a slot are left as they were is steady.
LEMMA SameSteady ==
  ASSUME NEW s, NEW t, SameLife(s, t), SameBus(s, t), t.rows = s.rows
  PROVE  Steady(s, t)
BY DEF Steady, SameLife, SameBus

LEMMA FaultSteady ==
  ASSUME NEW s, Sane(s), NEW kind \in FaultKinds
  PROVE  Steady(s, RecordFault(s, kind))
<1> DEFINE response == Response(kind)
           a == AnswerFault(s, kind)
<1>0. /\ s \in Slots
      /\ s.phase # "ENGAGING" => ~s.asking /\ s.asked = 0
      /\ s.phase = "PARKED" => s.ending = FALSE
      /\ s.stow.on \in BOOLEAN /\ s.owed \in BOOLEAN
  BY SaneIs
<1>1. a \in Slots /\ Steady(s, a)
  <2>1. CASE a = s
    BY <1>0, <2>1 DEF Steady
  <2>2. CASE a = [s EXCEPT !.limp = Antennas]
    <3>1. /\ a \in Slots /\ SameLife(s, a) /\ SameRail(s, a)
          /\ a.aux = s.aux /\ a.draining = s.draining /\ a.seq = s.seq
      BY <1>0, <2>2, LimpIs
    <3>2. a.limp = Antennas
      BY <1>0, <2>2 DEF Slots
    <3> HIDE DEF a
    <3> QED BY <3>1, <3>2 DEF Steady, SameLife, SameRail
  <2>3. CASE a = ReRank(s, response) /\ response \in Endings
    <3>1. a \in Slots /\ SameLife(s, a) /\ SameRail(s, a) /\ SameBus(s, a)
      BY <1>0, <2>3, ReRankIs
    <3> HIDE DEF a
    <3> QED BY <3>1, SameSteady DEF SameRail
  <2>4. CASE \E to \in {"PARKED", "RESTING"} : a = ReleasedInto(s, to)
    <3>1. PICK to \in {"PARKED", "RESTING"} : a = ReleasedInto(s, to)
      BY <2>4
    <3>2. to \in PhaseKinds /\ to # "ENGAGING"
      BY DEF PhaseKinds
    <3> DEFINE v == ReleasedInto(s, to)
    <3>4. v \in Slots /\ v.owed = TRUE
      BY <1>0, <3>2, ReleasedIntoIs
    <3> HIDE DEF v
    <3>3. a \in Slots /\ a.owed = TRUE
      BY <3>1, <3>4 DEF v
    <3> HIDE DEF a
    <3> QED BY <3>3 DEF Steady
  <2>5. CASE s.phase = "ACTIVE" /\ response \in Endings /\ a = Enter(Begin(s, response), "WINDING_DOWN")
    <3> DEFINE b == Begin(s, response)
    <3>1. b \in Slots /\ SameLife(s, b) /\ SameRail(s, b) /\ SameBus(s, b)
      BY <1>0, <2>5, BeginIs
    <3> HIDE DEF b
    <3>2. Entered(b, "WINDING_DOWN", a)
      BY <2>5, <3>1, EnterIs DEF PhaseKinds, b
    <3> HIDE DEF a
    <3>3. b.asking \in BOOLEAN /\ b.phase = "ACTIVE"
      BY <2>5, <3>1 DEF Slots, SameLife
    <3> QED BY <2>5, <3>1, <3>2, <3>3 DEF Entered, Steady, SameLife, SameBus, SameRail
  <2>6. response \in {"degrade", "slowRest", "maskedPark", "offPark"}
    BY DEF Response
  <2>7. Disposition(response) \in {"PARKED", "RESTING"}
    BY DEF Disposition
  <2> QED BY <2>1, <2>2, <2>3, <2>4, <2>5, <2>6, <2>7 DEF AnswerFault, StowOrRelease, Endings
<1> HIDE DEF a
<1>2. RecordFault(s, kind) = a \/ RecordFault(s, kind) = Spent(a)
  BY DEF RecordFault, Spent, a
<1> QED BY <1>1, <1>2, SpentSteady

LEMMA ClocksSteady ==
  ASSUME NEW s, NEW t, Clocks(s, t)
  PROVE  Steady(s, t)
BY SameSteady DEF Clocks, SameRail

LEMMA WatchedSteady ==
  ASSUME NEW s, Sane(s), NEW t, Clocks(s, t)
  PROVE  Steady(s, Watched(t))
<1>1. Sane(t)
  BY ClocksKeep DEF Follows, Goes
<1>2. CASE Watched(t) = t
  BY <1>2, ClocksSteady
<1>3. CASE Watched(t) = RecordFault(t, "BusFailure")
  <2>1. Steady(t, Watched(t))
    BY <1>1, <1>3, FaultSteady DEF FaultKinds
  <2>2. /\ t.phase = s.phase /\ t.asking = s.asking /\ t.asked = s.asked /\ t.rows = s.rows
    BY DEF Clocks, SameLife, SameRail
  <2> QED BY <2>1, <2>2, ClocksSteady, SteadyOn
<1> QED BY <1>2, <1>3 DEF Watched

LEMMA ReadingSteady ==
  ASSUME NEW s, Sane(s), NEW row \in Rows, NEW status \in Statuses
  PROVE  Steady(s, Reading(s, row, status))
<1> DEFINE rail == [s.rail EXCEPT ![row] = status]
           a == [s EXCEPT !.rail = rail]
           b == [a EXCEPT !.faulted = a.faulted \cup {row}]
           kind == IF row \in Antennas THEN "AntennaFault" ELSE "HeadServoFault"
<1>0. s \in Slots /\ status \in Readings
  BY SessionConstants DEF Sane, SessionConstants
<1>1. rail \in [Rows -> Readings \cup {"stale"}]
  BY <1>0 DEF Slots
<1>2. Reading(s, row, status) = IF status # "flagged" \/ row \in s.faulted THEN a
                                ELSE RecordFault(b, kind)
  BY <1>0 DEF Reading, Slots
<1> HIDE DEF rail
<1>4. /\ a \in Slots /\ SameLife(s, a) /\ SameBus(s, a) /\ SameHeld(s, a) /\ SameStow(s, a)
      /\ SameEngaged(s, a) /\ a.rows = s.rows
  BY <1>0, <1>1 DEF Slots, SameLife, SameBus, SameHeld, SameStow, SameEngaged
<1> HIDE DEF a
<1>5. /\ b \in Slots /\ SameLife(a, b) /\ SameBus(a, b) /\ SameHeld(a, b) /\ SameStow(a, b)
      /\ SameEngaged(a, b) /\ b.rows = a.rows
  BY <1>4 DEF Slots, SameLife, SameBus, SameHeld, SameStow, SameEngaged
<1> HIDE DEF b
<1>6. Steady(s, a)
  BY <1>4, SameSteady
<1>7. /\ SameLife(s, b) /\ SameBus(s, b) /\ SameHeld(s, b) /\ SameStow(s, b)
      /\ SameEngaged(s, b) /\ b.rows = s.rows
  BY <1>4, <1>5 DEF SameLife, SameBus, SameHeld, SameStow, SameEngaged
<1>8. Sane(b)
  BY <1>5, <1>7, FiledKeeps DEF Follows, Goes
<1>9. kind \in FaultKinds
  BY DEF FaultKinds
<1> HIDE DEF kind
<1>10. Steady(b, RecordFault(b, kind)) /\ Steady(s, b)
  BY <1>7, <1>8, <1>9, FaultSteady, SameSteady
<1>11. Steady(s, RecordFault(b, kind))
  BY <1>7, <1>10, SteadyOn DEF SameLife
<1> QED BY <1>2, <1>6, <1>11

LEMMA DecideSteady ==
  ASSUME NEW s, Sane(s), NEW script \in Held, NEW bumped \in BOOLEAN
  PROVE  Steady(s, Decide(s, script, bumped))
<1> DEFINE t == Decide(s, script, bumped)
           k == [s EXCEPT !.pending = script]
           a == Store(s, script, TRUE, ~bumped)
           b == Store(s, script, FALSE, ~bumped)
           e == OpenEngagement(b)
<1>0. s \in Slots /\ (~bumped) \in BOOLEAN
  BY Zenon DEF Sane
<1>1. t \in {s, k, a} \/ (t = e /\ s.phase # "ENGAGING")
  BY DEF Decide, Hold, Intake
<1>2. Spared(s, t)
  BY DecideIs
<1>3. SameLife(s, k) /\ SameBus(s, k) /\ k.rows = s.rows
  BY <1>0 DEF Slots, Held, SameLife, SameBus
<1>4. SameLife(s, a) /\ SameBus(s, a) /\ a.rows = s.rows
  BY <1>0, StoreIs DEF SameRail
<1>5. b \in Slots
  BY <1>0, StoreIs
<1> HIDE DEF b
<1>6. e.phase = "ENGAGING" /\ e.asking = TRUE /\ e.asked = 0
  BY <1>5, OpenEngagementIs
<1> HIDE DEF k, a, e, t
<1>7. CASE t = e /\ s.phase # "ENGAGING"
  <2>1. s.phase = "RESTING" /\ t.phase = "ENGAGING" /\ t.asking /\ t.asked = 0
    BY <1>2, <1>6, <1>7 DEF Spared
  <2> QED BY <1>2, <2>1 DEF Spared, SameBus, Steady, t
<1>8. SameLife(s, s) /\ SameBus(s, s)
  BY DEF SameLife, SameBus
<1>9. CASE t \in {s, k, a}
  <2>1. SameLife(s, t) /\ SameBus(s, t) /\ t.rows = s.rows
    BY <1>3, <1>4, <1>8, <1>9
  <2>2. Steady(s, t)
    BY <2>1, SameSteady
  <2> QED BY <2>2 DEF t
<1> QED BY <1>1, <1>7, <1>9

LEMMA WindDownSteady ==
  ASSUME NEW s, Sane(s), s.stow.on, NEW stowed \in BOOLEAN
  PROVE  Steady(s, WindDownStep(s, stowed))
<1> DEFINE t == WindDownStep(s, stowed)
           c == CommandStow(s)
<1>0. s \in Slots /\ s.stow.on = TRUE /\ s.phase = "WINDING_DOWN"
  BY SaneIs
<1>1. Goes(s, t) /\ (t.phase = "WINDING_DOWN" \/ t.owed = TRUE)
  BY <1>0, WindDownStepIs
<1>2. SameLife(s, c) /\ SameBus(s, c) /\ c.rows = s.rows
  BY <1>0, CommandStowIs DEF SameRail
<1>3. SameLife(s, s) /\ SameBus(s, s)
  BY DEF SameLife, SameBus
<1> DEFINE n == [s EXCEPT !.stow = NoStow]
           to == Disposition(s.stow.ending)
           r == Enter(CommandRelease(n), to)
<1>4. t = s \/ t = c \/ t = r
  BY DEF WindDownStep
<1>5. r.owed = TRUE
  <2>1. n \in Slots
    BY <1>0, Nones DEF Slots
  <2> HIDE DEF n
  <2>2. CommandRelease(n) \in Slots /\ CommandRelease(n).owed = TRUE
    BY <2>1, CommandReleaseIs
  <2>3. to \in PhaseKinds
    BY DEF Disposition, PhaseKinds
  <2> HIDE DEF to
  <2> QED BY <2>2, <2>3, EnterIs DEF Entered
<1> HIDE DEF c, r, t
<1>6. CASE t = r
  BY <1>5, <1>6 DEF Steady, t
<1>7. CASE t = s \/ t = c
  <2>1. SameLife(s, t) /\ SameBus(s, t) /\ t.rows = s.rows
    BY <1>2, <1>3, <1>7
  <2>2. Steady(s, t)
    BY <2>1, SameSteady
  <2> QED BY <2>2 DEF t
<1> QED BY <1>4, <1>6, <1>7

-----------------------------------------------------------------------------
(* What the driver reported, heard.                                        *)

LEMMA TidyTail ==
  ASSUME NEW b, Tidy(b), b # <<>>
  PROVE  /\ Tidy(Tail(b)) /\ Head(b) \in Reports
         /\ Head(b) = "TorqueOffConfirmed" =>
              ~Holds(Tail(b), "TorqueOffConfirmed") /\ ~Holds(Tail(b), "EngageConfirmed")
<1> DEFINE r == Tail(b)
<1>0. b \in Seq(Reports)
  BY DEF Tidy
<1>1. r \in Seq(Reports) /\ Head(b) = b[1] /\ 1 \in 1..Len(b) /\ Head(b) \in Reports
  BY <1>0, TailIs
<1>2. ASSUME NEW i \in 1..Len(r), NEW j \in 1..Len(r), i < j, r[i] = "TorqueOffConfirmed"
      PROVE  r[j] = "TorqueOffUnconfirmed"
  <2>1. /\ i + 1 \in 1..Len(b) /\ r[i] = b[i + 1] /\ j + 1 \in 1..Len(b) /\ r[j] = b[j + 1]
        /\ i + 1 < j + 1
    BY <1>0, <1>2, TailIs
  <2> QED BY <1>2, <2>1 DEF Tidy
<1>3. ASSUME Head(b) = "TorqueOffConfirmed", NEW j \in 1..Len(r)
      PROVE  r[j] = "TorqueOffUnconfirmed"
  <2>1. j + 1 \in 1..Len(b) /\ r[j] = b[j + 1] /\ 1 < j + 1
    BY <1>0, TailIs
  <2> QED BY <1>1, <1>3, <2>1 DEF Tidy
<1> HIDE DEF r
<1>4. Tidy(r)
  BY <1>1, <1>2 DEF Tidy
<1>5. Head(b) = "TorqueOffConfirmed" =>
        ~Holds(r, "TorqueOffConfirmed") /\ ~Holds(r, "EngageConfirmed")
  BY <1>3 DEF Holds
<1> QED BY <1>1, <1>4, <1>5 DEF r

\* An event taken off the line that no engagement under way is waiting for.
LEMMA TakenKeeps ==
  ASSUME NEW s, NEW c, NEW d, NEW l, NEW b, Bond(s, c, d, l, b), b # <<>>,
         Head(b) = "EngageConfirmed" => s.phase # "ENGAGING"
  PROVE  Bond(s, c, d, l, Tail(b))
<1> DEFINE r == Tail(b)
<1>1. Tidy(r) /\ b \in Seq(Reports)
  BY TidyTail DEF Bond, Tidy
<1>2. \A x : (Holds(r, x) => Holds(b, x)) /\ (Holds(b, x) => Head(b) = x \/ Holds(r, x))
  BY <1>1, TailHolds
<1> HIDE DEF r
<1>3. SweepsAlone(s, d, l, r)
  BY <1>2 DEF Bond, SweepsAlone, Sweeping
<1>4. RestsLoose(s, d, l, r) /\ StaysFreed(s, d, l, r)
  BY <1>2 DEF Bond, RestsLoose, StaysFreed, Loose, Rid
<1>5. EngagesOne(s, d, l, r)
  BY <1>2 DEF Bond, EngagesOne, Loose, InHand
<1> QED BY <1>1, <1>3, <1>4, <1>5 DEF Bond, r

\* What an event does to the tie, and what it may say of the machine.
TrulyHeard(s, t, d) ==
  /\ s.owed /\ ~t.owed => d.torqued = {}
  /\ s.phase = "ENGAGING" /\ t.phase = "ACTIVE" => Heads \subseteq d.torqued /\ d.torqued \subseteq s.rows

LEMMA HeardSweptKeeps ==
  ASSUME NEW s, Sane(s), NEW d, NEW l, NEW b, Bond(s, "none", d, l, b), b # <<>>,
         Head(b) = "TorqueOffConfirmed"
  PROVE  LET t == Heard(s, Head(b))
         IN  Bond(t, "none", d, l, Tail(b)) /\ TrulyHeard(s, t, d)
<1> DEFINE t == Confirmed(s)
           r == Tail(b)
<1>1. Heard(s, Head(b)) = t
  BY DEF Heard, Answered
<1>2. b \in Seq(Reports) /\ Tidy(r) /\ ~Holds(r, "TorqueOffConfirmed") /\ ~Holds(r, "EngageConfirmed")
  BY TidyTail DEF Bond, Tidy
<1>3. Holds(b, "TorqueOffConfirmed")
  BY <1>2, TailHolds
<1>4. /\ s.owed /\ d.pass = "confirmed" /\ d.ask = {} /\ d.txn = "none" /\ OnlyReleases(l)
  BY <1>3 DEF Bond, SweepsAlone, Sweeping
<1>5. d.believed = {} /\ d.torqued = {} /\ Wired(d)
  BY <1>4 DEF Bond, Wired
<1>6. ~Carries(l, "engage") /\ ~Carries(l, "aux")
  BY <1>4 DEF OnlyReleases, Carries
<1>7. /\ s \in Slots /\ s.phase \in {"RESTING", "PARKED"} /\ s.asked = 0
      /\ ~s.draining /\ s.limp = {}
  BY <1>4, SaneIs DEF Sane, Owing, OwesDegrade
<1>8. /\ t.owed = FALSE /\ t.phase = s.phase /\ t.asked = 0 /\ ~t.draining /\ t.limp = {}
  BY <1>4, <1>7 DEF Confirmed, Slots
<1> HIDE DEF t, r
<1>9. Loose(d, l, r)
  BY <1>2, <1>4, <1>5, <1>6 DEF Loose
<1>10. SweepsAlone(t, d, l, r)
  BY <1>2, <1>4 DEF SweepsAlone, Sweeping
<1>11. LastWord(t, d, l)
  <2>1. \A i \in 1..Len(l) : ~BeginsPass(d, l, i)
    <3> SUFFICES ASSUME NEW i \in 1..Len(l), BeginsPass(d, l, i) PROVE FALSE
      OBVIOUS
    <3>1. PICK k \in 1..(i - 1) : l[k].says = "engage"
      BY <1>4 DEF BeginsPass
    <3>2. k \in 1..Len(l)
      BY <3>1 DEF Bond
    <3> QED BY <1>6, <3>1, <3>2 DEF Carries
  <2> QED BY <2>1 DEF LastWord
<1>12. RestsLoose(t, d, l, r) /\ EngagesOne(t, d, l, r) /\ StaysFreed(t, d, l, r)
  BY <1>7, <1>8, <1>9 DEF RestsLoose, EngagesOne, StaysFreed, Freed, Rid
<1>13. OneCopy(t, "none", d, l) /\ NoneBehind(d, l) /\ AsksNext(t, "none", d, l)
  BY <1>4, <1>6 DEF OneCopy, NoneBehind, AsksNext, Carries, OnlyReleases
<1>14. Apt(t)
  BY <1>7, <1>8 DEF Apt
<1>15. Bond(t, "none", d, l, r)
  BY <1>2, <1>5, <1>10, <1>11, <1>12, <1>13, <1>14 DEF Bond
<1>16. TrulyHeard(s, t, d)
  BY <1>5, <1>7 DEF TrulyHeard
<1> QED BY <1>1, <1>15, <1>16 DEF r

LEMMA HeardEngagedKeeps ==
  ASSUME NEW s, Sane(s), NEW d, NEW l, NEW b, Bond(s, "none", d, l, b), b # <<>>,
         Head(b) = "EngageConfirmed"
  PROVE  LET t == Heard(s, Head(b))
         IN  Bond(t, "none", d, l, Tail(b)) /\ TrulyHeard(s, t, d)
<1> DEFINE n == [s EXCEPT !.asking = FALSE]
           t == Enter(n, "ACTIVE")
           r == Tail(b)
<1>1. Heard(s, Head(b)) = IF s.asking THEN t ELSE s
  BY DEF Heard, Answered, AnswerEngagement
<1>2. b \in Seq(Reports) /\ Holds(b, "EngageConfirmed")
  BY TailHolds DEF Bond, Tidy
<1>3. CASE ~s.asking
  <2>1. s.phase # "ENGAGING"
    BY <1>3 DEF Bond, Apt
  <2>2. Bond(s, "none", d, l, r)
    BY <2>1, TakenKeeps
  <2> HIDE DEF t
  <2> QED BY <1>1, <1>3, <2>1, <2>2 DEF TrulyHeard
<1>4. CASE s.asking
  <2>1. s \in Slots /\ s.phase = "ENGAGING" /\ ~s.owed
    BY <1>4, SaneIs
  <2>2. /\ n \in Slots /\ n.phase = s.phase /\ n.owed = s.owed /\ SameBus(s, n)
    BY <2>1 DEF Slots, SameBus
  <2> HIDE DEF n
  <2>3. Entered(n, "ACTIVE", t)
    BY <2>2, EnterIs DEF PhaseKinds
  <2> HIDE DEF t
  <2>4. /\ t.phase = "ACTIVE" /\ ~t.owed /\ t.asked = 0
        /\ t.aux = s.aux /\ t.draining = s.draining /\ t.seq = s.seq /\ t.limp = s.limp
    BY <2>1, <2>2, <2>3 DEF Entered, SameBus
  <2>5. InHand(s, d, l, b)
    BY <1>2, <2>1 DEF Bond, EngagesOne, Unasking, Loose
  <2>6. Heads \subseteq d.torqued /\ d.torqued \subseteq s.rows
    BY <1>2, <2>5 DEF InHand, Bond, Wired
  <2>7. ~Sweeping(d, b)
    BY <2>1 DEF Bond, SweepsAlone
  <2>8. \A x : Holds(r, x) => Holds(b, x)
    BY <1>2, TailHolds
  <2>9. Tidy(r)
    BY TidyTail DEF Bond
  <2> HIDE DEF r
  <2>10. SweepsAlone(t, d, l, r)
    BY <2>7, <2>8 DEF SweepsAlone, Sweeping
  <2>11. LastWord(t, d, l)
    BY <2>1 DEF Bond, LastWord
  <2>12. RestsLoose(t, d, l, r) /\ EngagesOne(t, d, l, r) /\ StaysFreed(t, d, l, r)
    BY <2>4 DEF RestsLoose, Down, EngagesOne, StaysFreed, Freed, Rid
  <2>13. OneCopy(t, "none", d, l) /\ AsksNext(t, "none", d, l)
    <3>1. RowOf(t) = RowOf(s)
      BY <2>4 DEF RowOf
    <3> QED BY <2>1, <2>4, <3>1 DEF Bond, OneCopy, AsksNext, Mine
  <2>14. Apt(t)
    BY <2>4 DEF Bond, Apt
  <2>15. Bond(t, "none", d, l, r)
    BY <2>9, <2>10, <2>11, <2>12, <2>13, <2>14 DEF Bond
  <2>16. TrulyHeard(s, t, d)
    BY <2>1, <2>6 DEF TrulyHeard
  <2> QED BY <1>1, <1>4, <2>15, <2>16 DEF r
<1> QED BY <1>3, <1>4

LEMMA HeardKeeps ==
  ASSUME NEW s, Sane(s), NEW d, NEW l, NEW b, Bond(s, "none", d, l, b), b # <<>>,
         Sane(Heard(s, Head(b)))
  PROVE  LET t == Heard(s, Head(b))
         IN  Bond(t, "none", d, l, Tail(b)) /\ TrulyHeard(s, t, d)
<1>1. Head(b) \in Reports
  BY TidyTail DEF Bond
<1>2. CASE Head(b) = "TorqueOffUnconfirmed"
  <2> DEFINE t == RecordFault(s, "TorqueOffUnconfirmed")
  <2>1. Heard(s, Head(b)) = t
    BY <1>2 DEF Heard, Answered
  <2>2. Bond(s, "none", d, l, Tail(b))
    BY <1>2, TakenKeeps
  <2>3. Steady(s, t)
    BY FaultSteady DEF FaultKinds
  <2> HIDE DEF t
  <2>4. Bond(t, "none", d, l, Tail(b))
    BY <2>1, <2>2, <2>3, SteadyKeeps
  <2>5. TrulyHeard(s, t, d)
    <3>1. t.owed => t.phase # "ACTIVE"
      BY <2>1, SaneIs
    <3> QED BY <2>3, <3>1 DEF TrulyHeard, Steady
  <2> QED BY <2>1, <2>4, <2>5
<1> QED BY <1>1, <1>2, HeardSweptKeeps, HeardEngagedKeeps DEF Reports

-----------------------------------------------------------------------------
(* A turn of the bus.                                                      *)

\* What a disarm takes for released once it has an answer.
Filed(s, prior) ==
  Freed(s) \cup IF /\ s.phase = "STOPPING" /\ s.seq.phase = "release"
                   /\ ~s.draining /\ prior = "ok"
                THEN {s.seq.at} ELSE {}

\* What a turn does that the tie is about: what it says is of the slot it leaves;
\* an engagement asks once, for a sweep with the head in it; the machine is down
\* only if it was, if nothing was asked of it, or if every servo was released.
Tends(s, prior, turn) ==
  LET t == turn.slot
  IN  t.owed \/
      /\ turn.cmd = "aux" => t.aux.on /\ t.aux.age = 0
      /\ turn.cmd = "engage" => t.phase = "ENGAGING" /\ ~Unasking(t)
      /\ t.phase = "ENGAGING" => /\ s.phase = "ENGAGING" /\ t.asking = s.asking
                                 /\ \/ t.asked = s.asked /\ t.rows = s.rows
                                    \/ s.asked = 0 /\ t.asked = 1
      /\ t.phase = "ACTIVE" => s.phase = "ACTIVE"
      /\ Down(t) => \/ Down(s)
                    \/ s.phase = "ENGAGING" /\ Unasking(s)
                    \/ s.phase = "STOPPING" /\ Rows \subseteq Filed(s, prior)
      /\ Freed(t) \subseteq Filed(s, prior)
      /\ Apt(t)

LEMMA RidLess ==
  ASSUME NEW rows, NEW fewer, fewer \subseteq rows, NEW d, NEW l, NEW b, Rid(rows, d, l, b)
  PROVE  Rid(fewer, d, l, b)
BY DEF Rid

LEMMA BudgetIs == AuxTimeout # 0 => EngageBudget > 0
<1> SUFFICES ASSUME AuxTimeout # 0 PROVE EngageBudget > 0
  OBVIOUS
<1>1. AuxTimeout \in Nat /\ AuxRetries \in Nat /\ AuxTimeout >= 1
  BY Spare
<1>2. AuxTimeout * (AuxRetries + 1) >= AuxRetries + 1
  BY <1>1
<1> QED BY <1>1, <1>2 DEF EngageBudget

LEMMA RidAll ==
  ASSUME NEW rows, Rows \subseteq rows, NEW d \in Drivers, NEW l, NEW b, Rid(rows, d, l, b)
  PROVE  Loose(d, l, b)
<1>1. 0 \in Rows
  BY SequencerConstants DEF SequencerConstants, Rows
<1> QED BY <1>1 DEF Rid, Loose, Drivers

\* A turn that so tends, taken where no transaction has a copy about, keeps the
\* two tied.
LEMMA TendsKeeps ==
  ASSUME Bearable, NEW s, Sane(s), ~s.owed, NEW c, NEW d, NEW l, NEW b, Bond(s, c, d, l, b),
         d.txn = "none", ~Carries(l, "aux"),
         NEW prior, Rid(Filed(s, prior), d, l, b),
         NEW turn, Sane(turn.slot), Tends(s, prior, turn),
         NEW a, a = turn.cmd \/ a \notin {"aux", "engage"}, turn.slot.owed => a # "engage"
  PROVE  Bond(turn.slot, a, d, l, b)
<1> DEFINE t == turn.slot
<1>1. CASE t.owed
  BY <1>1, OwingKeeps
<1>2. CASE ~t.owed
  <2>1. /\ turn.cmd = "aux" => t.aux.on /\ t.aux.age = 0
        /\ turn.cmd = "engage" => t.phase = "ENGAGING" /\ ~Unasking(t)
        /\ t.phase = "ENGAGING" => /\ s.phase = "ENGAGING" /\ t.asking = s.asking
                                   /\ \/ t.asked = s.asked /\ t.rows = s.rows
                                      \/ s.asked = 0 /\ t.asked = 1
        /\ Down(t) => \/ Down(s)
                      \/ s.phase = "ENGAGING" /\ Unasking(s)
                      \/ s.phase = "STOPPING" /\ Rows \subseteq Filed(s, prior)
        /\ Freed(t) \subseteq Filed(s, prior)
        /\ Apt(t)
    BY <1>2, Zenon DEF Tends
  <2> HIDE DEF t
  <2>2. SweepsAlone(t, d, l, b) /\ LastWord(t, d, l)
    BY DEF Bond, SweepsAlone, LastWord
  <2>3. RestsLoose(t, d, l, b)
    <3> SUFFICES ASSUME Down(t) PROVE Loose(d, l, b)
      BY DEF RestsLoose
    <3>1. CASE Down(s) \/ (s.phase = "ENGAGING" /\ Unasking(s))
      BY <3>1 DEF Bond, RestsLoose, EngagesOne
    <3>2. CASE Rows \subseteq Filed(s, prior)
      BY <3>2, RidAll DEF Bond, Wired
    <3> QED BY <2>1, <3>1, <3>2
  <2>4. EngagesOne(t, d, l, b)
    <3> SUFFICES ASSUME t.phase = "ENGAGING" PROVE EngagesOne(t, d, l, b)
      BY DEF EngagesOne
    <3>1. CASE t.asked = s.asked /\ t.rows = s.rows
      BY <2>1, <3>1 DEF Bond, EngagesOne, InHand, Unasking, SilentTooLong
    <3>2. CASE s.asked = 0 /\ t.asked = 1
      <4>1. Loose(d, l, b)
        BY <2>1, <3>2 DEF Bond, EngagesOne, Unasking
      <4>2. InHand(t, d, l, b)
        BY <4>1 DEF Loose, InHand, Carries
      <4> QED BY <4>1, <4>2 DEF EngagesOne
    <3> QED BY <2>1, <3>1, <3>2
  <2>5. StaysFreed(t, d, l, b)
    BY <2>1, RidLess DEF StaysFreed
  <2>6. OneCopy(t, a, d, l)
    <3>1. a = "aux" => t.aux.on /\ t.aux.age = 0
      BY <2>1 DEF t
    <3> QED BY <3>1 DEF OneCopy, Carries
  <2>7. AsksNext(t, a, d, l)
    <3>1. a = "engage" => t.phase = "ENGAGING" /\ ~Unasking(t)
      BY <2>1
    <3> QED BY <3>1 DEF AsksNext
  <2> QED BY <2>1, <2>2, <2>3, <2>4, <2>5, <2>6, <2>7 DEF Bond, t
<1> QED BY <1>1, <1>2

\* What changes only what is not said of the tie.
LEMMA TendsQuietly ==
  ASSUME NEW s, NEW t, SameLife(s, t), t.rows = s.rows, t.seq = s.seq, Apt(t),
         NEW says, says # "engage", says = "aux" => t.aux.on /\ t.aux.age = 0, NEW prior
  PROVE  Tends(s, prior, Turn(t, says))
<1> DEFINE turn == Turn(t, says)
           u == turn.slot
<1>1. u = t /\ turn.cmd = says
  BY DEF Turn
<1>2. Freed(t) \subseteq Filed(s, prior)
  BY DEF Filed, Freed, SameLife
<1>3. Down(t) => Down(s)
  BY DEF Down, SameLife
<1> HIDE DEF u, turn
<1>4. /\ turn.cmd = "aux" => u.aux.on /\ u.aux.age = 0
      /\ turn.cmd # "engage"
      /\ Freed(u) \subseteq Filed(s, prior)
      /\ Down(u) => Down(s)
      /\ Apt(u)
      /\ u.phase = s.phase /\ u.asking = s.asking /\ u.asked = s.asked /\ u.rows = s.rows
  BY <1>1, <1>2, <1>3 DEF SameLife
<1> QED BY <1>4, Zenon DEF Tends, u, turn

LEMMA TendsOn ==
  ASSUME NEW s, NEW t, SameLife(s, t), t.rows = s.rows, NEW prior, NEW given,
         Filed(t, prior) \subseteq Filed(s, given), NEW turn, Tends(t, prior, turn)
  PROVE  Tends(s, given, turn)
<1>1. Unasking(t) <=> Unasking(s)
  BY DEF Unasking, SilentTooLong, SameLife
<1>2. Down(t) <=> Down(s)
  BY DEF Down, SameLife
<1> DEFINE u == turn.slot
<1>3. CASE u.owed
  BY <1>3 DEF Tends
<1>4. CASE ~u.owed
  <2>1. /\ turn.cmd = "aux" => u.aux.on /\ u.aux.age = 0
        /\ turn.cmd = "engage" => u.phase = "ENGAGING" /\ ~Unasking(u)
        /\ u.phase = "ENGAGING" => /\ t.phase = "ENGAGING" /\ u.asking = t.asking
                                   /\ \/ u.asked = t.asked /\ u.rows = t.rows
                                      \/ t.asked = 0 /\ u.asked = 1
        /\ u.phase = "ACTIVE" => t.phase = "ACTIVE"
        /\ Down(u) => \/ Down(t)
                      \/ t.phase = "ENGAGING" /\ Unasking(t)
                      \/ t.phase = "STOPPING" /\ Rows \subseteq Filed(t, prior)
        /\ Freed(u) \subseteq Filed(t, prior)
        /\ Apt(u)
    BY <1>4, Zenon DEF Tends
  <2>2. t.phase = s.phase /\ t.asking = s.asking /\ t.asked = s.asked
    BY DEF SameLife
  <2>3. Freed(u) \subseteq Filed(s, given)
    BY <2>1
  <2>4. Rows \subseteq Filed(t, prior) => Rows \subseteq Filed(s, given)
    OBVIOUS
  <2> HIDE DEF u
  <2>5. u.phase = "ENGAGING" => /\ s.phase = "ENGAGING" /\ u.asking = s.asking
                                /\ \/ u.asked = s.asked /\ u.rows = s.rows
                                   \/ s.asked = 0 /\ u.asked = 1
    BY <2>1, <2>2
  <2>6. Down(u) => \/ Down(s)
                   \/ s.phase = "ENGAGING" /\ Unasking(s)
                   \/ s.phase = "STOPPING" /\ Rows \subseteq Filed(s, given)
    BY <1>1, <1>2, <2>1, <2>2, <2>4
  <2>7. u.phase = "ACTIVE" => s.phase = "ACTIVE"
    BY <2>1, <2>2
  <2> QED BY <2>1, <2>3, <2>5, <2>6, <2>7 DEF Tends, u
<1> QED BY <1>3, <1>4

-----------------------------------------------------------------------------
(* What each turn tends to.                                                *)

LEMMA IssueFresh ==
  ASSUME NEW s \in Slots, NEW row \in 0..N
  PROVE  Issue(s, row).aux.on = TRUE /\ Issue(s, row).aux.age = 0
BY DEF Issue, Slots

LEMMA PacedFresh ==
  ASSUME NEW s \in Slots, NEW snap \in Snaps
  PROVE  LET t == Paced(s, snap)
         IN  /\ PacedSays(snap) = "aux" => t.aux.on = TRUE /\ t.aux.age = 0
             /\ PacedSays(snap) \in {"aux", "none"}
             /\ t.seq = snap \/ t.seq = Blank
<1> DEFINE b == [s EXCEPT !.seq = snap]
           t == Paced(s, snap)
<1>1. b \in Slots /\ b.seq = snap
  BY DEF Slots
<1>2. CASE Transacts(snap)
  <2>1. t = Issue(b, NoRow)
    BY <1>2 DEF Paced, Transacts, Waits
  <2> HIDE DEF b, t
  <2>2. t.aux.on = TRUE /\ t.aux.age = 0 /\ t.seq = snap
    BY <1>1, <2>1, IssueFresh, IssueIs, Spare DEF SameButAux
  <2> QED BY <2>2 DEF PacedSays, t
<1>3. CASE ~Transacts(snap)
  <2>1. t.seq = snap \/ t.seq = Blank
    BY <1>3 DEF Paced, Slots
  <2> HIDE DEF t
  <2> QED BY <1>3, <2>1 DEF PacedSays, t
<1> QED BY <1>2, <1>3

\* A phase left for rest, or for a park nothing is owed in.
Sinks(s, t) == /\ t.phase \in {"RESTING", "PARKED"} /\ t.limp = s.limp
               /\ t.draining = FALSE /\ t.asked = 0
MaySink(s, prior) == \/ Down(s)
                     \/ s.phase = "ENGAGING" /\ Unasking(s)
                     \/ s.phase = "STOPPING" /\ Rows \subseteq Filed(s, prior)

LEMMA TendsDown ==
  ASSUME NEW s, Apt(s), NEW t, Sinks(s, t), NEW prior, MaySink(s, prior)
  PROVE  Tends(s, prior, Turn(t, "none"))
<1> DEFINE turn == Turn(t, "none")
<1>1. turn.slot = t /\ turn.cmd = "none"
  BY DEF Turn
<1>2. Freed(t) = {}
  BY DEF Freed, Sinks
<1>3. Apt(t)
  BY DEF Apt, Sinks
<1> HIDE DEF turn
<1> QED BY <1>1, <1>2, <1>3 DEF Tends, Sinks, MaySink, turn

\* A turn that leaves a release owed.
LEMMA TendsOwing ==
  ASSUME NEW s, NEW prior, NEW turn, turn.slot.owed
  PROVE  Tends(s, prior, turn)
BY DEF Tends

LEMMA TendsPaced ==
  ASSUME NEW s, Ready(s), Apt(s), NEW snap, NEW kind, Stands(snap, kind),
         snap.kind = "poll" => s.asked = 0, NEW prior,
         s.phase = "STOPPING" => snap.rows \subseteq Filed(s, prior)
  PROVE  Apt(Paced(s, snap)) /\ Tends(s, prior, Turn(Paced(s, snap), PacedSays(snap)))
<1> DEFINE t == Paced(s, snap)
           turn == Turn(t, PacedSays(snap))
           u == turn.slot
<1>0. s \in Slots /\ s.aux.on = FALSE /\ snap \in Snaps
  BY DEF Ready, Sane, Stands
<1>1. PacedAs(s, snap, t)
  BY <1>0, PacedIs
<1>2. /\ PacedSays(snap) = "aux" => t.aux.on = TRUE /\ t.aux.age = 0
      /\ PacedSays(snap) \in {"aux", "none"}
      /\ t.seq = snap \/ t.seq = Blank
  BY <1>0, PacedFresh
<1>3. u = t /\ turn.cmd = PacedSays(snap)
  BY DEF Turn
<1> HIDE DEF t, turn, u
<1>4. Apt(t)
  BY <1>1 DEF Ready, PacedAs, Apt, SameLife, SameRail
<1>5. Freed(t) \subseteq Filed(s, prior)
  <2>1. t.phase = s.phase
    BY <1>1 DEF PacedAs, SameLife
  <2>2. t.seq.rows = snap.rows \/ t.seq.rows = {}
    BY <1>2, BlankIs
  <2> QED BY <2>1, <2>2 DEF Freed
<1>6. Down(t) => Down(s)
  BY <1>1 DEF PacedAs, SameLife, Down
<1>7. /\ turn.cmd = "aux" => u.aux.on /\ u.aux.age = 0
      /\ turn.cmd # "engage"
      /\ Freed(u) \subseteq Filed(s, prior)
      /\ Down(u) => Down(s)
      /\ Apt(u)
      /\ u.phase = s.phase /\ u.asking = s.asking /\ u.asked = s.asked /\ u.rows = s.rows
  BY <1>1, <1>2, <1>3, <1>4, <1>5, <1>6 DEF PacedAs, SameLife, SameRail
<1>8. Tends(s, prior, turn)
  BY <1>7, Zenon DEF Tends, u
<1> QED BY <1>4, <1>8 DEF t, turn

LEMMA TendsCommission ==
  ASSUME NEW s, Ready(s), Live(s), Apt(s), s.phase = "STARTING", NEW prior \in Priors
  PROVE  Tends(s, prior, Commission(s, prior))
<1> DEFINE snap == Stepped(s, CommissionStart, prior)
           t == Paced(s, snap)
           m == MergeRail(t, snap.rail, Rows)
           rest == Enter(m, "RESTING")
           park == Enter(t, "PARKED")
<1>0. Sane(s) /\ s \in Slots /\ s.owed = FALSE /\ s.asked = 0 /\ s.draining = FALSE
  <2>1. Sane(s) /\ s \in Slots
    BY DEF Ready, Sane
  <2> QED BY <2>1, SaneIs DEF Ready
<1>1. Stands(snap, "commission")
  BY <1>0, SteppedIs, StartsAre
<1> HIDE DEF snap
<1>2. PacedAs(s, snap, t) /\ snap \in Snaps /\ snap.kind = "commission"
  BY <1>0, <1>1, PacedIs DEF Ready, Stands
<1>3. Commission(s, prior) =
        CASE Done(snap) -> Turn(rest, "none")
          [] Failed(snap) -> Turn(park, "none")
          [] OTHER -> Turn(t, PacedSays(snap))
  BY DEF Commission, snap
<1>4. Tends(s, prior, Turn(t, PacedSays(snap)))
  BY <1>0, <1>1, <1>2, TendsPaced
<1> HIDE DEF t
<1>5. Done(snap) => ~Failed(snap)
  BY DEF Done, Failed
<1>6. MaySink(s, prior)
  BY <1>0 DEF MaySink, Down
<1>7. t \in Slots /\ t.limp = s.limp /\ t.draining = FALSE /\ t.asked = 0
  BY <1>0, <1>2 DEF PacedAs, SameLife
<1>8. CASE Done(snap)
  <2>1. /\ m \in Slots /\ SameLife(t, m) /\ SameBus(t, m)
    BY <1>2, MergeRailIs DEF PacedAs, Snaps
  <2> HIDE DEF m
  <2>2. Entered(m, "RESTING", rest)
    BY <2>1, EnterIs DEF PhaseKinds
  <2> HIDE DEF rest
  <2>3. Sinks(s, rest)
    BY <1>7, <2>1, <2>2 DEF Entered, SameLife, SameBus, Sinks
  <2>4. Commission(s, prior) = Turn(rest, "none")
    BY <1>3, <1>5, <1>8
  <2> QED BY <1>6, <2>3, <2>4, TendsDown
<1>9. CASE Failed(snap)
  <2>1. Entered(t, "PARKED", park)
    BY <1>7, EnterIs DEF PhaseKinds
  <2> HIDE DEF park
  <2>2. Sinks(s, park)
    BY <1>7, <2>1 DEF Entered, SameBus, Sinks
  <2>3. Commission(s, prior) = Turn(park, "none")
    BY <1>3, <1>5, <1>9
  <2> QED BY <1>6, <2>2, <2>3, TendsDown
<1>10. CASE ~Done(snap) /\ ~Failed(snap)
  BY <1>3, <1>4, <1>10
<1> QED BY <1>8, <1>9, <1>10

LEMMA TendsRested ==
  ASSUME NEW s, Ready(s), Apt(s), s.phase = "ENGAGING", Unasking(s), NEW prior
  PROVE  Tends(s, prior, Rested(s))
<1> DEFINE b == [s EXCEPT !.asking = FALSE]
           t == Enter(b, "RESTING")
<1>0. s \in Slots /\ s.draining = FALSE
  BY DEF Ready, Sane
<1>1. b \in Slots /\ b.phase = s.phase /\ SameBus(s, b)
  BY <1>0 DEF Slots, SameBus
<1> HIDE DEF b
<1>2. Entered(b, "RESTING", t)
  BY <1>1, EnterIs DEF PhaseKinds
<1> HIDE DEF t
<1>3. Sinks(s, t) /\ MaySink(s, prior)
  BY <1>0, <1>1, <1>2 DEF Entered, SameBus, Sinks, MaySink
<1>4. Rested(s) = Turn(t, "none")
  BY DEF Rested, t, b
<1> QED BY <1>3, <1>4, TendsDown

LEMMA TendsAsk ==
  ASSUME Bearable, NEW s, Ready(s), Apt(s), s.phase = "ENGAGING", s.seq.kind # "poll",
         ~SilentTooLong(s), NEW prior
  PROVE  Tends(s, prior, Ask(s))
<1> DEFINE poll == Step(PollStart(Stale(s)), "nothing")
           rows == Rows \ Flagged(s)
           t == [s EXCEPT !.rows = rows, !.asked = 1]
<1>0. s \in Slots /\ Sane(s) /\ s.owed = FALSE /\ s.draining = FALSE
  BY DEF Ready, Sane
<1>1. CASE s.asked # 0
  <2>1. Ask(s) = Turn(s, "engage")
    BY <1>1 DEF Ask
  <2>2. ~Unasking(s) /\ Freed(s) \subseteq Filed(s, prior)
    BY <1>1 DEF Unasking, Filed
  <2> DEFINE turn == Turn(s, "engage")
  <2>3. turn.slot = s /\ turn.cmd = "engage"
    BY DEF Turn
  <2> HIDE DEF turn
  <2>4. ~Down(s)
    BY DEF Down
  <2>5. Tends(s, prior, turn)
    BY <2>2, <2>3, <2>4 DEF Tends
  <2> QED BY <2>1, <2>5 DEF turn
<1>2. CASE s.asked = 0 /\ Stale(s) # {}
  <2>1. Ask(s) = Turn(Paced(s, poll), PacedSays(poll))
    BY <1>2 DEF Ask
  <2>2. Stale(s) \in SUBSET Rows
    BY DEF Stale
  <2>3. Stands(poll, "poll")
    BY <2>2, OpensStand
  <2> HIDE DEF poll
  <2> QED BY <1>2, <2>1, <2>3, TendsPaced
<1>3. CASE s.asked = 0 /\ Stale(s) = {} /\ GatesRefuse(s)
  <2>1. Ask(s) = Rested(s)
    BY <1>3 DEF Ask
  <2> QED BY <1>3, <2>1, TendsRested DEF Unasking
<1>4. CASE s.asked = 0 /\ Stale(s) = {} /\ ~GatesRefuse(s)
  <2>1. Ask(s) = Turn(t, "engage")
    BY <1>4 DEF Ask
  <2>2. rows \in SUBSET Rows /\ Heads \subseteq rows
    BY <1>4 DEF GatesRefuse, Heads
  <2> HIDE DEF rows
  <2>3. /\ t.asked = 1 /\ t.rows = rows /\ t.phase = s.phase /\ t.asking = s.asking
        /\ SameBus(s, t)
    BY <1>0, <2>2 DEF Slots, SameBus
  <2> HIDE DEF t
  <2>4. ~Unasking(t)
    <3>1. EngageBudget > 0 /\ EngageBudget \in Nat
      BY BudgetIs, Spare DEF Bearable
    <3>2. ~(t.asked - 1 >= EngageBudget)
      BY <2>3, <3>1
    <3> QED BY <2>3, <3>2 DEF Unasking, SilentTooLong
  <2>5. Apt(t)
    BY <1>0, <2>2, <2>3 DEF Apt, SameBus
  <2>6. Freed(t) = {} /\ ~Down(t)
    BY <2>3 DEF Freed, Down
  <2> DEFINE turn == Turn(t, "engage")
  <2>7. turn.slot = t /\ turn.cmd = "engage"
    BY DEF Turn
  <2> HIDE DEF turn
  <2>8. Tends(s, prior, turn)
    BY <1>4, <2>3, <2>4, <2>5, <2>6, <2>7 DEF Tends
  <2> QED BY <2>1, <2>8 DEF turn
<1> QED BY <1>1, <1>2, <1>3, <1>4

LEMMA TendsEngage ==
  ASSUME Bearable, NEW s, Ready(s), Apt(s), s.phase = "ENGAGING", NEW prior \in Priors
  PROVE  Tends(s, prior, Engage(s, prior))
<1> DEFINE snap == Step(s.seq, prior)
           t == Paced(s, snap)
           m == MergeRail(t, snap.rail, snap.rows)
<1>0. s \in Slots /\ Sane(s) /\ s.owed = FALSE
  BY DEF Ready, Sane
<1>1. Engage(s, prior) =
        IF SilentTooLong(s) THEN Rested(s)
        ELSE IF s.seq.kind # "poll" THEN Ask(s)
        ELSE IF Done(snap) THEN Ask(m)
        ELSE IF Failed(snap) THEN Rested(t) ELSE Turn(t, PacedSays(snap))
  BY DEF Engage
<1>2. CASE SilentTooLong(s)
  BY <1>1, <1>2, TendsRested DEF Unasking
<1>3. CASE ~SilentTooLong(s) /\ s.seq.kind # "poll"
  BY <1>1, <1>3, TendsAsk
<1>4. CASE ~SilentTooLong(s) /\ s.seq.kind = "poll"
  <2>1. s.seq # Blank /\ s.asked = 0
    BY <1>4, BlankIs DEF Apt
  <2>2. Stands(snap, "poll")
    BY <1>0, <1>4, <2>1, StepStands DEF Sane
  <2> HIDE DEF snap
  <2>3. PacedAs(s, snap, t) /\ snap \in Snaps /\ snap.kind = "poll"
    BY <1>0, <2>2, PacedIs DEF Ready, Stands
  <2>4. Apt(t) /\ Tends(s, prior, Turn(t, PacedSays(snap)))
    BY <2>1, <2>2, TendsPaced
  <2> HIDE DEF t
  <2>5. Live(s)
    BY DEF Live
  <2>6. Follows(s, t) /\ SameLife(s, t) /\ t.rows = s.rows
    BY <2>1, <2>3, <2>5, PacedKeeps DEF PacedAs, SameRail
  <2>7. Done(snap) \/ Failed(snap) => Ready(t) /\ t.seq.kind = "none" /\ t.phase = "ENGAGING"
    <3>1. t.aux.on \in BOOLEAN
      BY <2>3 DEF PacedAs, Slots
    <3> QED BY <2>3, <2>6, <3>1 DEF PacedAs, Ready, Follows, Goes, SameLife
  <2>8. ASSUME NEW v, v.phase = "ENGAGING" PROVE Filed(v, prior) = {}
    BY <2>8 DEF Filed, Freed
  <2>9. CASE Done(snap)
    <3>1. /\ m \in Slots /\ SameLife(t, m) /\ SameBus(t, m) /\ SameHeld(t, m) /\ SameStow(t, m)
          /\ SameEngaged(t, m) /\ m.rows = t.rows
      BY <2>3, MergeRailIs DEF PacedAs, Snaps
    <3> HIDE DEF m
    <3>2. Follows(t, m)
      <4>1. Sane(t)
        BY <2>6 DEF Follows, Goes
      <4> QED BY <3>1, <4>1, FiledKeeps
    <3>3. /\ SameLife(s, m) /\ m.rows = s.rows /\ m.seq = t.seq
      BY <2>6, <3>1 DEF SameLife, SameBus
    <3>4. Ready(m) /\ m.seq.kind # "poll" /\ m.phase = "ENGAGING"
      BY <2>7, <2>9, <3>1, <3>2, <3>3 DEF Ready, Follows, Goes, SameLife, SameBus
    <3>5. Apt(m)
      BY <2>4, <3>1 DEF Apt, SameLife, SameBus
    <3>6. ~SilentTooLong(m)
      BY <2>1, <3>3 DEF SilentTooLong, SameLife
    <3>7. Tends(m, prior, Ask(m))
      BY <3>4, <3>5, <3>6, TendsAsk
    <3>8. Filed(m, prior) \subseteq Filed(s, prior)
      BY <2>8, <3>4
    <3>9. Tends(s, prior, Ask(m))
      BY <3>3, <3>7, <3>8, TendsOn
    <3> QED BY <1>1, <1>4, <2>9, <3>9
  <2>10. CASE ~Done(snap) /\ Failed(snap)
    <3>1. Unasking(t)
      BY <2>1, <2>6 DEF Unasking, SameLife
    <3>2. Tends(t, prior, Rested(t))
      BY <2>4, <2>7, <2>10, <3>1, TendsRested
    <3>3. Filed(t, prior) \subseteq Filed(s, prior)
      BY <2>7, <2>8, <2>10
    <3>4. Tends(s, prior, Rested(t))
      BY <2>6, <3>2, <3>3, TendsOn
    <3> QED BY <1>1, <1>4, <2>10, <3>4
  <2>11. CASE ~Done(snap) /\ ~Failed(snap)
    BY <1>1, <1>4, <2>4, <2>11
  <2> QED BY <2>9, <2>10, <2>11
<1> QED BY <1>2, <1>3, <1>4

\* A disarm takes for released the servo that has said so, and no other.
LEMMA DisarmFiles ==
  ASSUME NEW q, Runs(q), q.kind = "disarm", NEW prior \in Priors
  PROVE  Step(q, prior).rows \subseteq
           (IF q.phase = "release" THEN q.rows \cup (IF prior = "ok" THEN {q.at} ELSE {}) ELSE {})
<1> DEFINE l == Let(q)
           x == DisarmAbsorb(q, prior)
           t == DisarmEmit(x)
<1>1. t = Step(q, prior)
  BY DEF Step, DisarmNext
<1>2. PICK a, h, g : Fits(q, a, h, g)
  BY DEF Runs, Borne
<1>3. DisarmFits(q, a, g) /\ q \in Snaps
  BY <1>2, BlankIs DEF Fits, Runs
<1>4. /\ l \in Snaps /\ l.rows = q.rows /\ l.at = q.at /\ l.phase = q.phase
  BY <1>3, LetIs
<1>5. \/ q.phase = "dwell" /\ q.held = FALSE /\ q.rows = {}
      \/ q.phase = "verify" /\ q.held = TRUE /\ q.rows = {}
      \/ q.phase = "release" /\ q.held = TRUE /\ q.at < N
  BY <1>3 DEF DisarmFits, Runs, Done
<1>6. N \in Nat /\ q.at \in Nat /\ "release" \in Phases /\ "complete" \in Phases
  BY <1>3, SequencerConstants DEF SequencerConstants, Snaps, Phases
<1>7. ASSUME x \in Snaps PROVE t.rows = x.rows
  <2> HIDE DEF x
  <2> DEFINE v == Into(x, "verify")
  <2>1. v \in Snaps /\ v.rows = x.rows
    BY <1>7, IntoIs DEF Phases
  <2> HIDE DEF v
  <2>2. [v EXCEPT !.held = TRUE].rows = x.rows
    BY <2>1 DEF Snaps
  <2>3. [x EXCEPT !.held = TRUE].rows = x.rows /\ [x EXCEPT !.flag = FALSE].rows = x.rows
    BY <1>7 DEF Snaps
  <2> QED BY <2>2, <2>3 DEF DisarmEmit, v
<1> HIDE DEF l
<1>8. CASE q.phase = "dwell" /\ q.held = FALSE /\ q.rows = {}
  <2>1. x = q
    BY <1>8 DEF DisarmAbsorb
  <2>2. t.rows = {}
    BY <1>3, <1>7, <1>8, <2>1
  <2> HIDE DEF t
  <2> QED BY <1>1, <1>8, <2>2
<1>9. CASE q.phase = "verify" /\ q.held = TRUE /\ q.rows = {}
  <2>1. x = Onward(l, N, "release")
    BY <1>9 DEF DisarmAbsorb, l
  <2> HIDE DEF x
  <2>2. x \in Snaps /\ x.rows = {}
    BY <1>4, <1>6, <1>9, <2>1, OnwardIs
  <2>3. t.rows = {}
    BY <1>7, <2>2
  <2> HIDE DEF t
  <2> QED BY <1>1, <1>9, <2>3
<1>10. CASE q.phase = "release" /\ q.held = TRUE /\ q.at < N
  <2> DEFINE rows == IF prior = "ok" THEN q.rows \cup {q.at} ELSE q.rows
             f == [l EXCEPT !.rows = rows]
  <2>1. x = Onward(f, N, "complete")
    BY <1>4, <1>10 DEF DisarmAbsorb, ReleaseFiled, l
  <2>2. rows \in SUBSET Rows
    <3>1. q.at \in Rows /\ q.rows \in SUBSET Rows
      BY <1>3, <1>6, <1>10 DEF Rows, Snaps
    <3> QED BY <3>1
  <2> HIDE DEF rows
  <2>3. f \in Snaps /\ f.rows = rows
    BY <1>4, <2>2 DEF Snaps
  <2> HIDE DEF f, x
  <2>4. x \in Snaps /\ x.rows = rows
    BY <1>6, <2>1, <2>3, OnwardIs
  <2>5. t.rows = rows
    BY <1>7, <2>4
  <2> HIDE DEF t
  <2> QED BY <1>1, <1>10, <2>5 DEF rows
<1> QED BY <1>5, <1>8, <1>9, <1>10

\* What a let-down's step takes for released is what it had and was just told.
LEMMA DisarmRows ==
  ASSUME NEW s, Ready(s), s.phase = "STOPPING", NEW prior \in Priors
  PROVE  Stepped(s, DisarmStart, prior).rows \subseteq Filed(s, prior)
<1> DEFINE snap == Stepped(s, DisarmStart, prior)
<1>0. Sane(s) /\ s.draining = FALSE
  BY DEF Ready
<1>1. CASE s.seq.kind = "disarm"
  <2>1. snap = Step(s.seq, prior)
    BY <1>1, StartsAre DEF Stepped
  <2>2. Runs(s.seq)
    BY <1>0 DEF Sane
  <2> DEFINE took == IF prior = "ok" THEN {s.seq.at} ELSE {}
             had == IF s.seq.phase = "release" THEN s.seq.rows \cup took ELSE {}
  <2>3. snap.rows \subseteq had
    BY <1>1, <2>1, <2>2, DisarmFiles
  <2>4. had \subseteq Filed(s, prior)
    BY <1>0 DEF Filed, Freed
  <2> HIDE DEF had, snap
  <2> QED BY <2>3, <2>4 DEF snap
<1>2. CASE s.seq.kind # "disarm"
  <2> DEFINE fresh == Step(DisarmStart, "nothing")
  <2>1. snap = fresh
    BY <1>2, StartsAre DEF Stepped
  <2>2. DisarmFits(fresh, {}, {})
    BY DisarmOpens
  <2> HIDE DEF fresh, snap
  <2>3. fresh.rows = {}
    BY <2>2 DEF DisarmFits
  <2> QED BY <2>1, <2>3 DEF snap
<1> QED BY <1>1, <1>2

LEMMA TendsLettingGo ==
  ASSUME NEW s, Ready(s), Apt(s), s.phase = "STOPPING", NEW prior \in Priors
  PROVE  Tends(s, prior, LettingGo(s, prior))
<1> DEFINE snap == Stepped(s, DisarmStart, prior)
           t == Paced(s, snap)
           rest == Enter(t, "RESTING")
<1>0. /\ Sane(s) /\ s \in Slots /\ s.owed = FALSE /\ s.asked = 0 /\ Live(s)
      /\ s.draining = FALSE /\ s.stow.on = FALSE
  <2>1. Sane(s) /\ s \in Slots /\ s.owed = FALSE /\ Live(s) /\ s.draining = FALSE
    BY DEF Ready, Sane, Live
  <2> QED BY <2>1, SaneIs
<1>1. Stands(snap, "disarm")
  BY <1>0, SteppedIs, StartsAre
<1>2. snap.rows \subseteq Filed(s, prior)
  BY DisarmRows
<1> HIDE DEF snap
<1>3. PacedAs(s, snap, t) /\ snap.kind = "disarm"
  BY <1>0, <1>1, PacedIs DEF Ready, Stands
<1>4. Tends(s, prior, Turn(t, PacedSays(snap)))
  BY <1>1, <1>2, <1>3, TendsPaced
<1> HIDE DEF t
<1>5. Follows(s, t) /\ SameLife(s, t) /\ t.stow = s.stow
  BY <1>0, <1>3, PacedKeeps
<1>6. LettingGo(s, prior) =
        CASE Done(snap) /\ Unreleased(snap) # {} -> Unconfirmed(t)
          [] Done(snap) /\ Unreleased(snap) = {} -> Turn(rest, "none")
          [] OTHER -> Turn(t, PacedSays(snap))
  BY DEF LettingGo, t, snap
<1>7. CASE Done(snap) /\ Unreleased(snap) # {}
  <2>1. Unconfirmed(t).slot.owed = TRUE
    BY <1>0, <1>5, UnconfirmedParks DEF Follows, Goes, SameLife
  <2>2. Tends(s, prior, Unconfirmed(t))
    BY <2>1, TendsOwing
  <2> QED BY <1>6, <1>7, <2>2
<1>8. CASE Done(snap) /\ Unreleased(snap) = {}
  <2>1. Entered(t, "RESTING", rest)
    BY <1>3, EnterIs DEF PhaseKinds, PacedAs
  <2> HIDE DEF rest
  <2>2. Sinks(s, rest)
    BY <1>0, <1>3, <2>1 DEF Entered, PacedAs, SameLife, SameBus, Sinks
  <2>3. Rows \subseteq Filed(s, prior)
    BY <1>2, <1>8 DEF Unreleased
  <2>4. Tends(s, prior, Turn(rest, "none"))
    BY <2>2, <2>3, TendsDown DEF MaySink
  <2> QED BY <1>6, <1>8, <2>4
<1>9. CASE ~Done(snap)
  BY <1>4, <1>6, <1>9
<1> QED BY <1>7, <1>8, <1>9

LEMMA SettleFresh ==
  ASSUME NEW s \in Slots, NEW answer \in Priors, Resends(s, answer)
  PROVE  Settle(s, answer).aux.on = TRUE /\ Settle(s, answer).aux.age = 0
<1> DEFINE resent == [s.aux EXCEPT !.retries = s.aux.retries + 1, !.age = 0]
<1>1. Settle(s, answer) = [s EXCEPT !.aux = resent]
  <2>1. Settle(s, answer) = [s EXCEPT !.aux.retries = @ + 1, !.aux.age = 0]
    BY DEF Settle
  <2> QED BY <2>1 DEF Slots
<1>2. s.aux \in Flights
  BY DEF Slots, Flights
<1>3. s.aux.on = TRUE
  BY <1>2 DEF Resends, Settled, Flights, Priors, Results
<1>4. resent.on = TRUE /\ resent.age = 0
  BY <1>2, <1>3 DEF Flights
<1> HIDE DEF resent
<1>5. Settle(s, answer).aux = resent
  BY <1>1 DEF Slots
<1> QED BY <1>4, <1>5

LEMMA TendsRun ==
  ASSUME Bearable, NEW s, Sane(s), s.owed = FALSE, s.draining = FALSE, Apt(s),
         NEW answer \in Priors
  PROVE  Tends(s, answer, Run(s, answer))
<1> DEFINE out == Settled(s, answer)
           t == Settle(s, answer)
<1>0. s \in Slots /\ SameLife(s, s)
  BY DEF Sane, SameLife
<1>1. /\ t \in Slots /\ SameButAux(s, t)
      /\ out # "waiting" => t.aux.on = FALSE /\ out \in Priors
  BY <1>0, SettleIs
<1>2. Follows(s, t)
  BY SettleKeeps
<1>3. Resends(s, answer) => t.aux.on = TRUE /\ t.aux.age = 0
  BY <1>0, SettleFresh
<1>4. out = "ok" => answer = "ok"
  BY DEF Settled
<1> HIDE DEF t, out
<1>5. /\ SameLife(s, t) /\ t.rows = s.rows /\ t.seq = s.seq /\ t.limp = s.limp
      /\ t.draining = FALSE /\ t.saw = s.saw /\ t.owed = FALSE /\ t.phase = s.phase
  BY <1>1 DEF SameButAux, SameRail, SameHeld, SameLife
<1>6. Apt(t)
  BY <1>5 DEF Apt, SameLife
<1>7. ASSUME NEW says, says = "none" \/ (says = "aux" /\ Resends(s, answer))
      PROVE  Tends(s, answer, Turn(t, says))
  BY <1>3, <1>5, <1>6, <1>7, TendsQuietly
<1>8. CASE ~Live(s)
  <2>1. Run(s, answer) = Turn(s, "none")
    BY <1>8 DEF Run
  <2> QED BY <1>0, <2>1, TendsQuietly
<1>9. CASE Live(s) /\ out = "waiting"
  <2> DEFINE says == IF Resends(s, answer) THEN "aux" ELSE "none"
  <2>1. Run(s, answer) = Turn(t, says)
    BY <1>9 DEF Run, RunPhase, t, out
  <2> QED BY <1>7, <2>1
<1>10. CASE Live(s) /\ out = "nothing" /\ t.wait > 0
  <2>1. Run(s, answer) = Turn(t, "none")
    BY <1>10 DEF Run, RunPhase, t, out
  <2> QED BY <1>7, <2>1
<1>11. CASE Live(s) /\ out # "waiting" /\ ~(out = "nothing" /\ t.wait > 0)
  <2>1. Ready(t) /\ Live(t) /\ out \in Priors
    BY <1>1, <1>2, <1>5, <1>11 DEF Ready, Follows, Goes, Live
  <2>2. Run(s, answer) = CASE s.phase = "STARTING" -> Commission(t, out)
                           [] s.phase = "ENGAGING" -> Engage(t, out)
                           [] OTHER -> LettingGo(t, out)
    BY <1>11 DEF Run, RunPhase, t, out
  <2>3. Filed(t, out) \subseteq Filed(s, answer)
    BY <1>4, <1>5 DEF Filed, Freed
  <2>4. Tends(t, out, Run(s, answer))
    <3>1. CASE s.phase = "STARTING"
      BY <1>5, <1>6, <2>1, <2>2, <3>1, TendsCommission
    <3>2. CASE s.phase = "ENGAGING"
      <4>1. Run(s, answer) = Engage(t, out)
        BY <2>2, <3>2
      <4> QED BY <1>5, <1>6, <2>1, <3>2, <4>1, TendsEngage
    <3>3. CASE s.phase = "STOPPING"
      <4>1. Run(s, answer) = LettingGo(t, out)
        BY <2>2, <3>3
      <4> QED BY <1>5, <1>6, <2>1, <3>3, <4>1, TendsLettingGo
    <3> QED BY <1>11, <3>1, <3>2, <3>3 DEF Live
  <2> QED BY <1>5, <2>3, <2>4, TendsOn
<1> QED BY <1>8, <1>9, <1>10, <1>11

LEMMA TendsNextLimp ==
  ASSUME NEW s, Ready(s), Apt(s), NEW prior
  PROVE  Tends(s, prior, NextLimp(s))
<1> DEFINE row == Lowest(s.limp)
           u == Issue(s, row)
           t == [u EXCEPT !.draining = TRUE]
<1>0. s \in Slots /\ SameLife(s, s)
  BY DEF Ready, Sane, SameLife
<1>1. CASE s.limp = {}
  <2>1. NextLimp(s) = Turn(s, "none")
    BY <1>1 DEF NextLimp
  <2> QED BY <1>0, <2>1, TendsQuietly
<1>2. CASE s.limp # {}
  <2>0. s.limp \in SUBSET Rows
    BY <1>0 DEF Slots
  <2>1. row \in 0..N /\ row \in Antennas
    BY <1>2, <2>0, LowestIs DEF Apt
  <2>2. NextLimp(s) = Turn(t, "aux")
    BY <1>2 DEF NextLimp
  <2> HIDE DEF row
  <2>3. /\ u \in Slots /\ u.aux.on = TRUE /\ u.aux.row = row /\ SameButAux(s, u)
        /\ u.aux.age = 0
    BY <1>0, <2>1, IssueIs, IssueFresh
  <2> HIDE DEF u
  <2>4. /\ t.draining = TRUE /\ t.aux = u.aux /\ SameLife(u, t) /\ SameRail(u, t)
        /\ t.seq = u.seq /\ t.limp = u.limp
    BY <2>3 DEF Slots, SameLife, SameRail
  <2> HIDE DEF t
  <2>5. /\ SameLife(s, t) /\ t.rows = s.rows /\ t.seq = s.seq /\ t.limp = s.limp
        /\ t.aux.on = TRUE /\ t.aux.row = row /\ t.aux.age = 0
    BY <2>3, <2>4 DEF SameButAux, SameLife, SameRail
  <2>6. Apt(t)
    BY <2>1, <2>5 DEF Apt, SameLife
  <2> QED BY <2>2, <2>5, <2>6, TendsQuietly
<1> QED BY <1>1, <1>2

\* A degrade that goes wrong under a stow is judged by it, and parks otherwise.
LEMMA TendsUnconfirmed ==
  ASSUME NEW s, Ready(s), Apt(s), NEW prior
  PROVE  Tends(s, prior, Unconfirmed(s))
<1> DEFINE t == RecordFault(s, "TorqueOffUnconfirmed")
           u == ReRank(s, "offPark")
<1>0. Sane(s) /\ s \in Slots /\ s.owed = FALSE /\ s.stow.on \in BOOLEAN
  BY SaneIs DEF Ready
<1>1. CASE s.stow.on = FALSE
  <2>1. Unconfirmed(s).slot.owed
    BY <1>0, <1>1, UnconfirmedParks
  <2> QED BY <2>1, TendsOwing
<1>2. CASE s.stow.on
  <2>1. Response("TorqueOffUnconfirmed") = "offPark"
    BY DEF Response
  <2>2. t = u
    BY <1>0, <1>2, <2>1 DEF RecordFault, AnswerFault
  <2>3. SameLife(s, u) /\ SameRail(s, u) /\ SameBus(s, u)
    BY <1>0, ReRankIs DEF Endings
  <2>4. Unconfirmed(s) = Turn(t, IF t.owed THEN "release" ELSE "none")
    BY DEF Unconfirmed
  <2> HIDE DEF t, u
  <2>5. Unconfirmed(s) = Turn(u, "none")
    BY <1>0, <2>2, <2>3, <2>4 DEF SameLife
  <2>6. Apt(u)
    BY <2>3 DEF Apt, SameLife, SameRail, SameBus
  <2>7. u.rows = s.rows /\ u.seq = s.seq
    BY <2>3 DEF SameRail, SameBus
  <2> QED BY <2>3, <2>5, <2>6, <2>7, TendsQuietly
<1> QED BY <1>0, <1>1, <1>2

LEMMA TendsDegrade ==
  ASSUME NEW s, Sane(s), s.owed = FALSE, s.draining \/ ~s.aux.on, Apt(s),
         NEW answer \in Priors
  PROVE  Tends(s, answer, Degrade(s, answer))
<1> DEFINE out == IF s.draining THEN Settled(s, answer) ELSE "nothing"
           t == IF s.draining THEN Settle(s, answer) ELSE s
           done == [t EXCEPT !.draining = FALSE]
           less == [done EXCEPT !.limp = done.limp \ {s.aux.row}]
           says == IF Resends(s, answer) THEN "aux" ELSE "none"
<1>0. s \in Slots /\ s.draining \in BOOLEAN /\ s.aux.on \in BOOLEAN
  BY SaneIs
<1>1. /\ t \in Slots /\ SameButAux(s, t) /\ Follows(s, t)
      /\ out # "waiting" => t.aux.on = FALSE
      /\ out = "waiting" => s.draining /\ t.aux.on /\ t.aux.row = s.aux.row
  <2>1. SameButAux(s, s)
    BY DEF SameButAux, SameLife, SameRail, SameHeld, SameStow, SameEngaged
  <2> QED BY <1>0, <2>1, SettleIs, SettleKeeps, Stays DEF Priors
<1>2. t.limp \in SUBSET Rows
  BY <1>1 DEF Slots
<1>3. Degrade(s, answer) =
        CASE out = "waiting" -> Turn(t, says)
          [] out = "nothing" -> NextLimp(done)
          [] out = "ok" -> NextLimp(less)
          [] OTHER -> Unconfirmed(done)
  BY DEF Degrade
<1>4. done = [t EXCEPT !.draining = FALSE, !.limp = t.limp]
  BY <1>1 DEF Slots
<1>5. less = [t EXCEPT !.draining = FALSE, !.limp = t.limp \ {s.aux.row}]
  BY <1>1 DEF Slots
<1>6. /\ SameLife(s, t) /\ t.rows = s.rows /\ t.seq = s.seq /\ t.limp = s.limp
      /\ t.owed = FALSE /\ Sane(t)
  BY <1>1 DEF SameButAux, SameRail, SameLife, Follows, Goes
<1>7. Resends(s, answer) /\ s.draining => t.aux.age = 0
  BY <1>0, SettleFresh
<1>8. done.rows = t.rows /\ done.seq = t.seq /\ done.limp = t.limp
  BY <1>1 DEF Slots
<1>9. less.rows = t.rows /\ less.seq = t.seq /\ less.limp \subseteq t.limp
  BY <1>1 DEF Slots
<1>10. out \in Priors \cup {"waiting"}
  BY DEF Settled, Priors, Results
<1> HIDE DEF out, t, done, less, says
<1>11. CASE out = "waiting"
  <2>1. Degrade(s, answer) = Turn(t, says)
    BY <1>3, <1>11
  <2>2. says # "engage" /\ (says = "aux" => t.aux.on /\ t.aux.age = 0)
    BY <1>1, <1>7, <1>11 DEF says
  <2>3. Apt(t)
    BY <1>1, <1>6, <1>11 DEF Apt, SameLife, SameButAux
  <2> QED BY <1>6, <2>1, <2>2, <2>3, TendsQuietly
<1>12. ASSUME out # "waiting", NEW v, v = done \/ v = less
       PROVE  /\ Ready(v) /\ Apt(v) /\ SameLife(s, v) /\ v.rows = s.rows
              /\ Filed(v, "nothing") \subseteq Filed(s, answer)
  <2>1. \E limp \in SUBSET Rows : v = [t EXCEPT !.draining = FALSE, !.limp = limp]
    <3>1. t.limp \ {s.aux.row} \in SUBSET Rows
      BY <1>2
    <3> QED BY <1>2, <1>4, <1>5, <1>12, <3>1
  <2>2. PICK limp \in SUBSET Rows : v = [t EXCEPT !.draining = FALSE, !.limp = limp]
    BY <2>1
  <2> DEFINE w == [t EXCEPT !.draining = FALSE, !.limp = limp]
  <2>3. Ready(w) /\ SameLife(t, w)
    BY <1>1, <1>6, <1>12, StoppedIs
  <2> HIDE DEF w
  <2>4. Ready(v) /\ SameLife(s, v)
    BY <1>6, <2>2, <2>3 DEF SameLife, w
  <2>5. v.rows = s.rows /\ v.seq = s.seq /\ v.limp \subseteq s.limp
    BY <1>6, <1>8, <1>9, <1>12
  <2>6. Apt(v)
    BY <2>4, <2>5 DEF Apt, Ready, SameLife
  <2>7. Filed(v, "nothing") \subseteq Filed(s, answer)
    BY <2>4, <2>5 DEF Filed, Freed, SameLife
  <2> QED BY <2>4, <2>5, <2>6, <2>7
<1>13. CASE out = "nothing"
  <2>1. Degrade(s, answer) = NextLimp(done)
    BY <1>3, <1>13
  <2>2. /\ Ready(done) /\ Apt(done) /\ SameLife(s, done) /\ done.rows = s.rows
        /\ Filed(done, "nothing") \subseteq Filed(s, answer)
    BY <1>12, <1>13
  <2>3. Tends(done, "nothing", NextLimp(done))
    BY <2>2, TendsNextLimp
  <2> QED BY <2>1, <2>2, <2>3, TendsOn
<1>14. CASE out = "ok"
  <2>1. Degrade(s, answer) = NextLimp(less)
    BY <1>3, <1>14
  <2>2. /\ Ready(less) /\ Apt(less) /\ SameLife(s, less) /\ less.rows = s.rows
        /\ Filed(less, "nothing") \subseteq Filed(s, answer)
    BY <1>12, <1>14
  <2>3. Tends(less, "nothing", NextLimp(less))
    BY <2>2, TendsNextLimp
  <2> QED BY <2>1, <2>2, <2>3, TendsOn
<1>15. CASE out \notin {"waiting", "nothing", "ok"}
  <2>1. Degrade(s, answer) = Unconfirmed(done)
    BY <1>3, <1>15
  <2>2. /\ Ready(done) /\ Apt(done) /\ SameLife(s, done) /\ done.rows = s.rows
        /\ Filed(done, "nothing") \subseteq Filed(s, answer)
    BY <1>12, <1>15
  <2>3. Tends(done, "nothing", Unconfirmed(done))
    BY <2>2, TendsUnconfirmed
  <2> QED BY <2>1, <2>2, <2>3, TendsOn
<1> QED BY <1>11, <1>13, <1>14, <1>15

LEMMA TendsKept ==
  ASSUME NEW s, NEW prior, NEW turn, Tends(s, prior, turn)
  PROVE  Tends(s, prior, Kept(turn))
<1> DEFINE kept == Kept(turn)
<1>1. kept.slot = turn.slot /\ (kept.cmd = turn.cmd \/ kept.cmd = "keepalive" \/ kept = turn)
  BY DEF Kept, Turn
<1> HIDE DEF kept
<1>2. Tends(s, prior, kept)
  BY <1>1 DEF Tends
<1> QED BY <1>2 DEF kept

\* Only a disarm releases.
LEMMA OnlyDisarmsRelease ==
  ASSUME NEW q, Runs(q), q.kind # "disarm"
  PROVE  q.phase # "release"
<1>1. PICK a, h, g : Fits(q, a, h, g)
  BY DEF Runs, Borne
<1> QED BY <1>1, BlankIs DEF Fits, CommissionFits, InPresence, InIdentity, InProvision, InVoltage,
                             InHealth, InGains, IsCommissioned, PollFits

\* A session whose schedule has run out, in the turn that ends it.
LEMMA Ends ==
  ASSUME Bearable, NEW s, Sane(s), Apt(s), s.phase = "ACTIVE"
  PROVE  LET t == Enter(s, "STOPPING")
         IN  /\ Sane(t) /\ t.phase = "STOPPING" /\ t.owed = FALSE /\ Apt(t) /\ SameBus(s, t)
             /\ \A prior : Filed(t, prior) = {}
<1> DEFINE t == Enter(s, "STOPPING")
<1>1. /\ Goes(s, t) /\ t.phase = "STOPPING" /\ t.owed = FALSE
      /\ t.asked = 0 /\ SameBus(s, t)
  BY EndsIs
<1> HIDE DEF t
<1>2. s.seq.kind # "disarm" /\ Runs(s.seq)
  BY DEF Bearable, Sane, Disarming
<1>3. t.seq.phase # "release"
  BY <1>1, <1>2, OnlyDisarmsRelease DEF SameBus
<1>4. Apt(t)
  BY <1>1 DEF Apt, SameBus
<1>5. \A prior : Filed(t, prior) = {}
  BY <1>3 DEF Filed, Freed
<1> QED BY <1>1, <1>4, <1>5 DEF Goes, t

LEMMA TendsEnded ==
  ASSUME NEW s, s.phase = "ACTIVE", NEW t, t.phase = "STOPPING", NEW prior,
         Filed(t, prior) = {}, NEW turn, Tends(t, prior, turn)
  PROVE  Tends(s, prior, turn)
<1> DEFINE u == turn.slot
<1>1. CASE u.owed
  BY <1>1, TendsOwing
<1>2. CASE ~u.owed
  <2>1. /\ turn.cmd = "aux" => u.aux.on /\ u.aux.age = 0
        /\ turn.cmd = "engage" => u.phase = "ENGAGING" /\ ~Unasking(u)
        /\ u.phase # "ENGAGING" /\ u.phase # "ACTIVE"
        /\ Down(u) => \/ Down(t)
                      \/ t.phase = "ENGAGING" /\ Unasking(t)
                      \/ t.phase = "STOPPING" /\ Rows \subseteq Filed(t, prior)
        /\ Freed(u) \subseteq Filed(t, prior)
        /\ Apt(u)
    BY <1>2, Zenon DEF Tends
  <2>2. ~Down(t) /\ 0 \in Rows
    BY SequencerConstants DEF Down, SequencerConstants, Rows
  <2>3. ~Down(u)
    BY <2>1, <2>2
  <2>4. Freed(u) \subseteq Filed(s, prior)
    BY <2>1
  <2> HIDE DEF u
  <2> QED BY <2>1, <2>3, <2>4 DEF Tends, u
<1> QED BY <1>1, <1>2

LEMMA TendsBusTurn ==
  ASSUME Bearable, NEW s, Sane(s), s.owed = FALSE, Apt(s), NEW answer \in Priors
  PROVE  Tends(s, answer, BusTurn(s, answer))
<1> DEFINE t == EndedNow(s)
           turn == IF OwesDegrade(t) /\ (t.draining \/ ~t.aux.on) THEN Degrade(t, answer)
                   ELSE Run(t, answer)
<1>1. BusTurn(s, answer) = Kept(turn)
  BY DEF BusTurn
<1>2. ASSUME Sane(t), t.owed = FALSE, Apt(t) PROVE Tends(t, answer, turn)
  <2>1. t.draining \in BOOLEAN
    BY <1>2, SaneIs
  <2>2. CASE OwesDegrade(t) /\ (t.draining \/ ~t.aux.on)
    BY <1>2, <2>2, TendsDegrade
  <2>3. CASE ~(OwesDegrade(t) /\ (t.draining \/ ~t.aux.on))
    <3>1. t.draining = FALSE
      BY <2>1, <2>3 DEF OwesDegrade
    <3> QED BY <1>2, <2>3, <3>1, TendsRun
  <2> QED BY <2>2, <2>3
<1>3. CASE ~(s.phase = "ACTIVE" /\ s.left = 0)
  <2>1. t = s
    BY <1>3 DEF EndedNow
  <2>2. Tends(s, answer, turn)
    BY <1>2, <2>1
  <2> QED BY <1>1, <2>2, TendsKept
<1>4. CASE s.phase = "ACTIVE" /\ s.left = 0
  <2>1. t = Enter(s, "STOPPING")
    BY <1>4 DEF EndedNow
  <2>2. /\ Sane(t) /\ t.phase = "STOPPING" /\ t.owed = FALSE /\ Apt(t)
        /\ Filed(t, answer) = {}
    BY <1>4, <2>1, Ends
  <2>3. Tends(t, answer, turn)
    BY <1>2, <2>2
  <2> HIDE DEF t, turn
  <2>4. Tends(s, answer, turn)
    BY <1>4, <2>2, <2>3, TendsEnded
  <2> QED BY <1>1, <2>4, TendsKept
<1> QED BY <1>3, <1>4

\* A turn that waits on the transaction in flight says nothing of it.
LEMMA BusTurnWaits ==
  ASSUME NEW s, s.owed = FALSE, s.aux.on, ~Overdue(s), EndedNow(s).aux = s.aux
  PROVE  LET turn == BusTurn(s, "nothing")
         IN  turn.slot = EndedNow(s) /\ turn.cmd \in {"none", "keepalive"}
<1> DEFINE t == EndedNow(s)
           turn == IF OwesDegrade(t) /\ (t.draining \/ ~t.aux.on) THEN Degrade(t, "nothing")
                   ELSE Run(t, "nothing")
<1>1. BusTurn(s, "nothing") = Kept(turn)
  BY DEF BusTurn
<1>2. t.aux.on /\ ~Overdue(t)
  BY DEF Overdue
<1>3. Settled(t, "nothing") = "waiting" /\ ~Resends(t, "nothing")
  BY <1>2 DEF Settled, Resends
<1>4. Settle(t, "nothing") = t
  BY <1>3 DEF Settle
<1> HIDE DEF t
<1>5. turn = Turn(t, "none")
  <2>1. CASE OwesDegrade(t) /\ (t.draining \/ ~t.aux.on)
    <3>1. Degrade(t, "nothing") = Turn(t, "none")
      BY <1>2, <1>3, <1>4, <2>1 DEF Degrade
    <3> QED BY <2>1, <3>1
  <2>2. CASE ~(OwesDegrade(t) /\ (t.draining \/ ~t.aux.on))
    <3>1. Run(t, "nothing") = Turn(t, "none")
      BY <1>3, <1>4 DEF Run, RunPhase
    <3> QED BY <2>2, <3>1
  <2> QED BY <2>1, <2>2
<1> QED BY <1>1, <1>5 DEF Kept, Turn, t

LEMMA EndedKeeps ==
  ASSUME Bearable, NEW s, Sane(s), NEW c, NEW d, NEW l, NEW b, Bond(s, c, d, l, b),
         NEW a \in {"none", "keepalive"}
  PROVE  Bond(EndedNow(s), a, d, l, b) /\ EndedNow(s).aux = s.aux
<1>1. Bond(s, a, d, l, b)
  <2>1. OneCopy(s, a, d, l) /\ AsksNext(s, a, d, l)
    BY DEF Bond, OneCopy, AsksNext
  <2> QED BY <2>1 DEF Bond
<1>2. CASE ~(s.phase = "ACTIVE" /\ s.left = 0)
  BY <1>1, <1>2 DEF EndedNow
<1>3. CASE s.phase = "ACTIVE" /\ s.left = 0
  <2> DEFINE t == Enter(s, "STOPPING")
  <2>1. EndedNow(s) = t
    BY <1>3 DEF EndedNow
  <2>2. /\ t.phase = "STOPPING" /\ t.owed = FALSE /\ Apt(t) /\ SameBus(s, t)
        /\ Filed(t, "nothing") = {}
    BY <1>3, Ends DEF Bond
  <2> HIDE DEF t
  <2>3. ~s.owed
    BY <1>3, SaneIs
  <2>4. SweepsAlone(t, d, l, b) /\ LastWord(t, d, l)
    BY <1>1, <2>3 DEF Bond, SweepsAlone, LastWord
  <2>5. Freed(t) = {}
    BY <2>2 DEF Filed
  <2>6. RestsLoose(t, d, l, b) /\ EngagesOne(t, d, l, b) /\ StaysFreed(t, d, l, b)
    BY <2>2, <2>5 DEF RestsLoose, Down, EngagesOne, StaysFreed, Rid
  <2>7. OneCopy(t, a, d, l)
    <3>1. RowOf(t) = RowOf(s)
      BY <2>2 DEF RowOf, SameBus
    <3> QED BY <1>1, <2>2, <2>3, <3>1 DEF Bond, OneCopy, Mine, SameBus
  <2>8. AsksNext(t, a, d, l)
    BY DEF AsksNext
  <2> QED BY <1>1, <2>1, <2>2, <2>4, <2>6, <2>7, <2>8 DEF Bond, SameBus
<1> QED BY <1>2, <1>3

\* The outcome of a transaction handed over.
Cleared(d) == [d EXCEPT !.txn = "none", !.frees = {}, !.corr = 0]

LEMMA ClearedKeeps ==
  ASSUME NEW s, NEW c, NEW d, NEW l, NEW b, Bond(s, c, d, l, b)
  PROVE  /\ Bond(s, c, Cleared(d), l, b) /\ Cleared(d).txn = "none"
         /\ Cleared(d).torqued = d.torqued /\ Cleared(d).believed = d.believed
         /\ Cleared(d).ask = d.ask
<1> DEFINE e == Cleared(d)
<1>0. d \in Drivers
  BY DEF Bond, Wired
<1>1. /\ e \in Drivers /\ e.quiet = d.quiet /\ e.ask = d.ask /\ e.txn = "none"
      /\ e.pass = d.pass /\ e.latched = d.latched /\ e.believed = d.believed
      /\ e.torqued = d.torqued
  BY <1>0, Spare DEF Cleared, Drivers, Transactions
<1> HIDE DEF e
<1>2. Wired(e)
  BY <1>1 DEF Bond, Wired
<1>3. SweepsAlone(s, e, l, b) /\ LastWord(s, e, l)
  BY <1>1 DEF Bond, SweepsAlone, LastWord, Sweeping, BeginsPass
<1>4. RestsLoose(s, e, l, b) /\ EngagesOne(s, e, l, b) /\ StaysFreed(s, e, l, b)
  BY <1>1 DEF Bond, RestsLoose, EngagesOne, StaysFreed, Loose, InHand, Rid
<1>5. OneCopy(s, c, e, l) /\ NoneBehind(e, l) /\ AsksNext(s, c, e, l)
  BY <1>1 DEF Bond, OneCopy, NoneBehind, AsksNext
<1> QED BY <1>1, <1>2, <1>3, <1>4, <1>5 DEF Bond, e

\* Once a transaction's copy has run, what it answers is true of its row.
LEMMA AnswerRids ==
  ASSUME NEW s, ~s.owed, NEW c, NEW d, NEW l, Bond(s, c, d, l, <<>>),
         d.txn \in {"well", "badly"}, NEW answer, answer = "ok" => d.txn = "well"
  PROVE  Rid(Filed(s, answer), d, l, <<>>) /\ ~Carries(l, "aux")
<1>1. Wired(d) /\ NoneBehind(d, l) /\ OneCopy(s, c, d, l) /\ Rid(Freed(s), d, l, <<>>)
  BY DEF Bond, StaysFreed
<1>2. d.ask = {} /\ ~Carries(l, "engage") /\ ~Carries(l, "aux") /\ d.frees = RowOf(s)
  BY <1>1 DEF Wired, NoneBehind, OneCopy, Mine
<1>3. ~Holds(<<>>, "EngageConfirmed")
  BY DEF Holds
<1>4. d.believed \cap Filed(s, answer) = {}
  <2>1. CASE s.seq.phase = "release" /\ ~s.draining /\ answer = "ok"
    <3>1. d.frees = {s.seq.at} /\ d.frees \cap d.believed = {}
      BY <1>1, <1>2, <2>1 DEF RowOf, Wired
    <3> QED BY <1>1, <3>1 DEF Filed, Rid
  <2>2. CASE ~(s.seq.phase = "release" /\ ~s.draining /\ answer = "ok")
    <3>1. Filed(s, answer) = Freed(s)
      BY <2>2 DEF Filed
    <3> QED BY <1>1, <3>1 DEF Rid
  <2> QED BY <2>1, <2>2
<1> QED BY <1>2, <1>3, <1>4 DEF Rid

\* A turn of the bus, whatever it is answered.
LEMMA BusKeeps ==
  ASSUME Bearable, Sane(slot), Bond(slot, "none", drv, line, back), Bus
  PROVE  /\ Bond(slot', cmd', drv', line, back) /\ drv'.torqued = drv.torqued
         /\ UNCHANGED <<line, back>> /\ RunBus
<1>1. PICK answer \in AnswersNow :
         /\ IF Answers THEN answer = "ok" => drv.txn = "well" ELSE answer = "nothing"
         /\ answer = "nothing" => ~Answers \/ "stall" \in Faults
         /\ RunBusWith(answer)
         /\ drv' = IF Settles /\ (Answers => answer # "nothing")
                   THEN [drv EXCEPT !.txn = "none", !.frees = {}, !.corr = 0] ELSE drv
         /\ UNCHANGED <<line, back>>
  BY DEF Bus
<1>2. answer \in Priors
  BY DEF AnswersNow, Priors
<1> DEFINE turn == BusTurn(slot, answer)
<1>3. slot' = turn.slot /\ cmd' = turn.cmd
  BY <1>1 DEF RunBusWith
<1>4. Ran(slot, turn) /\ (slot.owed => turn.slot = slot)
  BY <1>2, BusTurnIs
<1>5. Tends(slot, answer, turn) \/ slot.owed
  BY <1>2, SaneIs, TendsBusTurn DEF Bond
<1>w. /\ slot.owed = FALSE /\ answer = "nothing" /\ slot.aux.on /\ ~Overdue(slot)
      /\ EndedNow(slot).aux = slot.aux
      => turn.slot = EndedNow(slot) /\ turn.cmd \in {"none", "keepalive"}
  BY BusTurnWaits
<1> HIDE DEF turn
<1>6. Sane(slot') /\ Sane(turn.slot) /\ (cmd' = "release" <=> slot'.owed)
  BY <1>3, <1>4 DEF Ran, Goes
<1> DEFINE d == drv'
<1>7. d = drv \/ d = Cleared(drv)
  BY <1>1 DEF Cleared
<1>8. Bond(slot, "none", d, line, back) /\ d.torqued = drv.torqued /\ d.believed = drv.believed
  BY <1>7, ClearedKeeps
<1>9. Bond(slot', cmd', d, line, back)
  <2>1. CASE slot.owed
    <3>1. slot'.owed /\ cmd' # "engage"
      BY <1>3, <1>4, <1>6, <2>1
    <3> HIDE DEF d
    <3> QED BY <1>6, <1>8, <3>1, OwingKeeps
  <2>2. CASE ~slot.owed /\ answer = "nothing"
    <3>1. CASE slot.aux.on /\ ~Overdue(slot)
      <4>1. Bond(EndedNow(slot), "none", d, line, back) /\ EndedNow(slot).aux = slot.aux
        BY <1>8, EndedKeeps
      <4>2. turn.slot = EndedNow(slot) /\ turn.cmd \in {"none", "keepalive"}
        BY <1>w, <2>2, <3>1, <4>1, SaneIs
      <4> HIDE DEF d
      <4> QED BY <1>3, <1>8, <4>2, EndedKeeps
    <3>2. CASE ~(slot.aux.on /\ ~Overdue(slot))
      <4>1. ~(slot.aux.on /\ slot.aux.age = 0)
        BY <3>2, Spare DEF Overdue
      <4>2. d.txn = "none" /\ ~Carries(line, "aux")
        BY <1>8, <2>2, <4>1 DEF Bond, OneCopy, Mine, Carries
      <4>3. Rid(Filed(slot, answer), d, line, back)
        <5>1. Filed(slot, answer) = Freed(slot)
          BY <2>2 DEF Filed
        <5> QED BY <1>8, <5>1 DEF Bond, StaysFreed
      <4> HIDE DEF d
      <4>4. Bond(turn.slot, cmd', d, line, back)
        BY <1>3, <1>5, <1>6, <1>8, <2>2, <4>2, <4>3, TendsKeeps
      <4> QED BY <1>3, <4>4
    <3> QED BY <3>1, <3>2
  <2>3. CASE ~slot.owed /\ answer # "nothing"
    <3>1. Answers /\ Settles
      BY <1>1, <2>3 DEF Answers
    <3>2. drv.txn \in {"well", "badly"} /\ back = <<>> /\ (answer = "ok" => drv.txn = "well")
      BY <1>1, <3>1 DEF Settles, Bearable
    <3>3. d = Cleared(drv)
      BY <1>1, <2>3, <3>1 DEF Cleared
    <3>4. Rid(Filed(slot, answer), drv, line, back) /\ ~Carries(line, "aux")
      BY <2>3, <3>2, AnswerRids
    <3>5. d.txn = "none" /\ d.believed = drv.believed /\ d.ask = drv.ask
      BY <3>3, ClearedKeeps
    <3>6. Rid(Filed(slot, answer), d, line, back)
      BY <3>4, <3>5 DEF Rid
    <3> HIDE DEF d
    <3>7. Bond(turn.slot, cmd', d, line, back)
      BY <1>3, <1>5, <1>6, <1>8, <2>3, <3>4, <3>5, <3>6, TendsKeeps
    <3> QED BY <1>3, <3>7
  <2> QED BY <2>1, <2>2, <2>3
<1> QED BY <1>1, <1>8, <1>9 DEF RunBus

\* The held script drained, which may open an engagement and take its first step.
LEMMA DrainKeeps ==
  ASSUME Bearable, SessionInv, Bond(slot, cmd, drv, line, back), DrainPending
  PROVE  Bond(slot', cmd', drv, line, back)
<1>1. CASE ~(slot.pending # NoScript /\ DrainsAt(slot))
  BY <1>1 DEF DrainPending
<1>2. CASE slot.pending # NoScript /\ DrainsAt(slot)
  <2> DEFINE turn == Drained(slot, replaced)
             p == [slot EXCEPT !.pending = NoScript]
             t == Decide(p, slot.pending, replaced)
  <2>1. slot' = turn.slot /\ cmd' = IF turn.cmd = "none" THEN cmd ELSE turn.cmd
    BY <1>2 DEF DrainPending
  <2>2. turn = IF slot.phase = "PARKED" THEN Turn(p, "none")
               ELSE IF t.phase = "ENGAGING" THEN Engage(t, "nothing") ELSE Turn(t, "none")
    BY DEF Drained
  <2>3. Sane(slot) /\ slot \in Slots /\ replaced \in BOOLEAN /\ slot.pending \in Held
    BY DEF SessionInv, Scalars, Sane, Slots, Held
  <2>4. Goes(slot, turn.slot) /\ turn.slot.owed = slot.owed
    BY <1>2, <2>3, DrainedIs
  <2> HIDE DEF turn
  <2>5. Follows(slot, p) /\ SameLife(slot, p) /\ SameBus(slot, p)
    BY <2>3, UnheldIs
  <2>6. p.rows = slot.rows
    BY <2>3 DEF Slots
  <2> HIDE DEF p
  <2>7. Sane(p) /\ Steady(slot, p)
    BY <2>5, <2>6, SameSteady DEF Follows, Goes
  <2>8. Spared(p, t) /\ Steady(p, t) /\ Follows(p, t)
    BY <2>3, <2>7, DecideIs, DecideSteady
  <2> HIDE DEF t
  <2>9. Sane(t) /\ Steady(slot, t)
    BY <2>5, <2>6, <2>7, <2>8, SteadyOn DEF SameLife, Follows, Goes
  <2>10. slot.phase # "ENGAGING" /\ cmd # "engage"
    BY <1>2 DEF DrainsAt, Bond, AsksNext
  <2>11. Bond(p, cmd, drv, line, back) /\ Bond(t, cmd, drv, line, back)
    BY <2>3, <2>7, <2>9, <2>10, SteadyKeeps
  <2>12. CASE slot.phase = "PARKED" \/ t.phase # "ENGAGING"
    BY <2>1, <2>2, <2>11, <2>12 DEF Turn
  <2>13. CASE slot.phase # "PARKED" /\ t.phase = "ENGAGING"
    <3>1. slot.phase = "RESTING" /\ slot.owed = FALSE /\ slot.aux.on = FALSE /\ slot.draining = FALSE
      <4>1. slot.phase = "RESTING"
        BY <2>5, <2>8, <2>10, <2>13 DEF Spared, SameLife
      <4> QED BY <1>2, <2>3, <4>1, SaneIs DEF DrainsAt
    <3>2. Ready(t) /\ t.phase = "ENGAGING"
      BY <2>5, <2>8, <2>9, <2>13, <3>1 DEF Ready, Spared, SameBus, SameLife
    <3>3. Tends(t, "nothing", Engage(t, "nothing"))
      BY <2>11, <3>2, TendsEngage DEF Bond, Priors
    <3>4. turn = Engage(t, "nothing")
      BY <2>2, <2>13
    <3>5. drv.txn = "none" /\ ~Carries(line, "aux") /\ cmd # "aux"
      BY <3>1 DEF Bond, OneCopy, Mine, Carries
    <3>6. Rid(Filed(t, "nothing"), drv, line, back)
      <4>1. Filed(t, "nothing") = Freed(t)
        BY DEF Filed
      <4> QED BY <2>11, <4>1 DEF Bond, StaysFreed
    <3>7. Sane(turn.slot) /\ ~turn.slot.owed
      BY <2>4, <3>1 DEF Goes
    <3>8. ~t.owed /\ Tends(t, "nothing", turn)
      BY <3>2, <3>3, <3>4 DEF Ready
    <3>9. cmd' = turn.cmd \/ cmd' \notin {"aux", "engage"}
      BY <2>1, <2>10, <3>5
    <3>10. Bond(turn.slot, cmd', drv, line, back)
      BY <2>9, <2>11, <3>5, <3>6, <3>7, <3>8, <3>9, TendsKeeps
    <3> QED BY <2>1, <3>10
  <2> QED BY <2>12, <2>13
<1> QED BY <1>1, <1>2

\* What a turn has to say, put in line.
LEMMA SaidKeeps ==
  ASSUME NEW s, NEW c, NEW d, NEW l, NEW b, Bond(s, c, d, l, b), s.owed <=> c = "release",
         NEW m \in Datagrams, m.says = c, m.corr = s.aux.corr,
         c = "engage" => m.rows = s.rows, c = "aux" => m.rows = RowOf(s)
  PROVE  Bond(s, "none", d, Append(l, m), b)
<1> DEFINE r == Append(l, m)
           n == Len(l) + 1
<1>0. l \in Seq(Datagrams)
  BY DEF Bond
<1>1. /\ r \in Seq(Datagrams) /\ Len(l) \in Nat /\ Len(r) = n
      /\ \A i \in 1..Len(l) : i \in 1..Len(r) /\ r[i] = l[i]
      /\ r[n] = m /\ n \in 1..Len(r)
      /\ \A i \in 1..Len(r) : i \in 1..Len(l) \/ i = n
  BY <1>0, AppendIs
<1>2. \A says : Carries(r, says) <=> Carries(l, says) \/ says = c
  BY <1>0, AppendCarries
<1> HIDE DEF r
<1>3. SweepsAlone(s, d, r, b)
  BY <1>1 DEF Bond, SweepsAlone, OnlyReleases
<1>4. LastWord(s, d, r)
  <2>1. ASSUME NEW i \in 1..Len(r), BeginsPass(d, r, i)
        PROVE  s.owed /\ \A j \in (i + 1)..Len(r) : r[j].says = "release"
    <3>1. CASE i = n
      BY <1>1, <2>1, <3>1 DEF BeginsPass
    <3>2. CASE i \in 1..Len(l)
      <4>1. BeginsPass(d, l, i)
        <5>1. \A k \in 1..(i - 1) : k \in 1..Len(l) /\ r[k] = l[k]
          BY <1>1, <3>2
        <5>2. r[i] = l[i]
          BY <1>1, <3>2
        <5> QED BY <2>1, <5>1, <5>2 DEF BeginsPass
      <4>2. s.owed /\ \A j \in (i + 1)..Len(l) : l[j].says = "release"
        BY <3>2, <4>1 DEF Bond, LastWord
      <4>3. ASSUME NEW j \in (i + 1)..Len(r) PROVE r[j].says = "release"
        <5>1. j = n \/ (j \in (i + 1)..Len(l) /\ j \in 1..Len(l))
          BY <1>1, <3>2 DEF n
        <5> QED BY <1>1, <4>2, <5>1
      <4> QED BY <4>2, <4>3
    <3> QED BY <1>1, <3>1, <3>2
  <2> QED BY <2>1 DEF LastWord
<1>5. RestsLoose(s, d, r, b) /\ StaysFreed(s, d, r, b)
  <2>1. c = "engage" => ~Down(s) /\ Freed(s) = {}
    BY DEF Bond, AsksNext, Down, Freed
  <2> QED BY <1>2, <2>1 DEF Bond, RestsLoose, StaysFreed, Loose, Rid
<1>6. EngagesOne(s, d, r, b)
  <2>1. Unasking(s) /\ s.phase = "ENGAGING" => Loose(d, r, b)
    BY <1>2 DEF Bond, EngagesOne, Loose, AsksNext
  <2>2. s.phase = "ENGAGING" /\ s.asked # 0 => InHand(s, d, r, b)
    BY <1>1 DEF Bond, EngagesOne, InHand
  <2> QED BY <2>1, <2>2 DEF EngagesOne
<1>7. OneCopy(s, "none", d, r)
  <2> SUFFICES ASSUME ~s.owed PROVE OneCopy(s, "none", d, r)
    BY DEF OneCopy
  <2>1. d.txn # "none" => Mine(s, d.corr, d.frees) /\ ~Carries(r, "aux")
    BY <1>2 DEF Bond, OneCopy
  <2>2. ASSUME NEW i \in 1..Len(r), r[i].says = "aux"
        PROVE  /\ Mine(s, r[i].corr, r[i].rows)
               /\ \A j \in 1..Len(r) : r[j].says = "aux" => i = j
    <3>1. CASE i = n
      <4>1. c = "aux" /\ s.aux.on /\ s.aux.age = 0 /\ ~Carries(l, "aux")
        BY <1>1, <2>2, <3>1 DEF Bond, OneCopy, Carries
      <4>2. Mine(s, r[i].corr, r[i].rows)
        BY <1>1, <3>1, <4>1 DEF Mine
      <4>3. \A j \in 1..Len(r) : r[j].says = "aux" => i = j
        BY <1>1, <3>1, <4>1 DEF Carries
      <4> QED BY <4>2, <4>3
    <3>2. CASE i \in 1..Len(l)
      <4>1. r[i] = l[i]
        BY <1>1, <3>2
      <4>2. /\ Mine(s, l[i].corr, l[i].rows) /\ c # "aux"
            /\ \A j \in 1..Len(l) : l[j].says = "aux" => i = j
        BY <2>2, <3>2, <4>1 DEF Bond, OneCopy
      <4> QED BY <1>1, <4>1, <4>2
    <3> QED BY <1>1, <3>1, <3>2
  <2> QED BY <2>1, <2>2 DEF OneCopy
<1>8. NoneBehind(d, r)
  <2>1. ASSUME NEW i \in 1..Len(r), NEW j \in 1..Len(r), i < j, r[i].says = "aux"
        PROVE  r[j].says # "engage"
    <3>1. i \in 1..Len(l) /\ r[i] = l[i]
      BY <1>1, <2>1
    <3>2. CASE j = n
      BY <1>1, <2>1, <3>1, <3>2 DEF Bond, AsksNext, Carries
    <3>3. CASE j \in 1..Len(l)
      <4>1. r[j] = l[j]
        BY <1>1, <3>3
      <4> QED BY <2>1, <3>1, <3>3, <4>1 DEF Bond, NoneBehind
    <3> QED BY <1>1, <3>2, <3>3
  <2>2. d.txn # "none" => ~Carries(r, "engage")
    BY <1>2 DEF Bond, NoneBehind, AsksNext
  <2> QED BY <2>1, <2>2 DEF NoneBehind
<1>9. AsksNext(s, "none", d, r)
  BY DEF AsksNext
<1> QED BY <1>1, <1>3, <1>4, <1>5, <1>6, <1>7, <1>8, <1>9 DEF Bond, r

\* A release in flight is of a servo there is.
LEMMA ReleasesARow ==
  ASSUME NEW s, Sane(s), Apt(s)
  PROVE  RowOf(s) \subseteq Rows
<1>1. s.draining => s.aux.row \in Rows
  BY SequencerConstants DEF Apt, SequencerConstants
<1>2. s.seq.phase = "release" => s.seq.at \in Rows
  <2> SUFFICES ASSUME s.seq.phase = "release" PROVE s.seq.at \in Rows
    OBVIOUS
  <2>1. s.seq.kind = "disarm" /\ Runs(s.seq) /\ s.seq \in Snaps
    BY OnlyDisarmsRelease DEF Sane, Slots
  <2>2. PICK a, h, g : Fits(s.seq, a, h, g)
    BY <2>1 DEF Runs, Borne
  <2>3. s.seq # Blank
    BY <2>1, BlankIs
  <2>4. s.seq.at < N /\ s.seq.at \in Nat /\ N \in Nat
    BY <2>1, <2>2, <2>3, SequencerConstants DEF Fits, DisarmFits, Snaps, SequencerConstants
  <2> QED BY <2>4 DEF Rows
<1> QED BY <1>1, <1>2 DEF RowOf

LEMMA PublishedSteady ==
  ASSUME SessionInv, PublishSchedule
  PROVE  Steady(slot, slot')
<1>1. CASE slot' = slot
  BY <1>1 DEF Steady
<1>2. CASE slot' = [slot EXCEPT !.engaged = Commanded(slot), !.news = FALSE]
  <2>1. slot \in Slots
    BY DEF SessionInv, Sane
  <2>2. SameLife(slot, slot') /\ SameBus(slot, slot') /\ slot'.rows = slot.rows
    BY <1>2, <2>1 DEF Slots, SameLife, SameBus
  <2> QED BY <2>2, SameSteady
<1> QED BY <1>1, <1>2 DEF PublishSchedule

LEMMA SendKeeps ==
  ASSUME SessionInv, Bond(slot, cmd, drv, line, back), Len(line) <= LineCap, Send
  PROVE  Bond(slot', "none", drv, line', back) /\ Len(line') <= LineCap
<1>0. /\ Sane(slot) /\ Sane(slot') /\ cmd \in Cmds /\ (slot.owed <=> cmd = "release")
      /\ slot \in Slots
  <2>1. SessionInv'
    BY PublishScheduleKeeps DEF Send
  <2> QED BY <2>1 DEF SessionInv, Scalars, Says, Send, PublishSchedule, Taking, Sane
<1> DEFINE m == [says |-> cmd, rows |-> DatagramRows, corr |-> slot.aux.corr]
<1>1. Bond(slot, "none", drv, line', back) /\ Len(line') <= LineCap
  <2>1. CASE cmd = "none"
    BY <2>1 DEF Send
  <2>2. CASE cmd # "none"
    <3>1. Len(line) < LineCap /\ line' = Append(line, m)
      BY <2>2 DEF Send
    <3>2. DatagramRows \in SUBSET Rows /\ slot.aux.corr \in 0..(CorrWrap - 1)
      <4>1. slot.rows \in SUBSET Rows /\ slot.aux.corr \in 0..(CorrWrap - 1)
        BY <1>0 DEF Slots
      <4>2. ReleasedRow \in SUBSET Rows
        BY <1>0, ReleasesARow DEF Bond, ReleasedRow, RowOf
      <4> QED BY <4>1, <4>2 DEF DatagramRows
    <3>3. m \in Datagrams
      BY <1>0, <2>2, <3>2 DEF Datagrams
    <3>4. /\ m.says = cmd /\ m.corr = slot.aux.corr
          /\ cmd = "engage" => m.rows = slot.rows
          /\ cmd = "aux" => m.rows = RowOf(slot)
      BY DEF DatagramRows, ReleasedRow, RowOf
    <3> HIDE DEF m
    <3>5. Bond(slot, "none", drv, Append(line, m), back)
      BY <1>0, <3>3, <3>4, SaidKeeps
    <3>6. Len(Append(line, m)) = Len(line) + 1 /\ Len(line) \in Nat /\ LineCap \in Nat
      BY <3>3, AppendIs, SessionDriverConstants DEF Bond, SessionDriverConstants
    <3> QED BY <3>1, <3>5, <3>6
  <2> QED BY <2>1, <2>2
<1>2. Steady(slot, slot')
  BY PublishedSteady DEF Send
<1> QED BY <1>0, <1>1, <1>2, SteadyKeeps

-----------------------------------------------------------------------------
(* Time passing for both.                                                  *)

LEMMA AgedHolds ==
  ASSUME NEW s, Sane(s)
  PROVE  LET t == Aged(s)
         IN  /\ t.phase = s.phase /\ t.owed = s.owed /\ t.asking = s.asking
             /\ t.asked = 0 <=> s.asked = 0
             /\ t.rows = s.rows /\ t.limp = s.limp /\ t.draining = s.draining
             /\ t.aux.on = s.aux.on /\ t.aux.row = s.aux.row
             /\ t.seq.kind = s.seq.kind /\ t.seq.phase = s.seq.phase /\ t.seq.rows = s.seq.rows
<1> DEFINE t == Aged(s)
           asked == IF s.asked = 0 THEN 0 ELSE AtMost(s.asked + 1, EngageBudget + 1)
           span == IF s.pending.span \in 1..SpanCap THEN s.pending.span - 1 ELSE s.pending.span
           pending == [s.pending EXCEPT !.span = span]
           left == Less(s.left)
           age == IF s.aux.on THEN AtMost(s.aux.age + 1, AuxTimeout + 1) ELSE 0
           aux == [s.aux EXCEPT !.age = age]
           seq == Older(s.seq)
           wait == Less(s.wait)
           stow == [s.stow EXCEPT !.left = Less(s.stow.left)]
           silence == IF s.started THEN AtMost(s.silence + 1, SilenceCap) ELSE 0
<1>0. s \in Slots
  BY DEF Sane
<1>1. t = [s EXCEPT !.asked = asked, !.pending = pending, !.left = left, !.aux = aux,
                    !.seq = seq, !.wait = wait, !.stow = stow, !.silence = silence]
  BY <1>0 DEF Aged, Slots
<1>2. aux.on = s.aux.on /\ aux.row = s.aux.row
  BY <1>0 DEF Slots
<1>3. seq.kind = s.seq.kind /\ seq.phase = s.seq.phase /\ seq.rows = s.seq.rows
  BY <1>0, OlderIs DEF Slots
<1>4. t.asked = 0 <=> s.asked = 0
  BY AgedIs
<1> HIDE DEF t, asked, pending, left, aux, seq, wait, stow, silence
<1>5. /\ t.phase = s.phase /\ t.owed = s.owed /\ t.asking = s.asking /\ t.rows = s.rows
      /\ t.limp = s.limp /\ t.draining = s.draining /\ t.aux = aux /\ t.seq = seq
  BY <1>0, <1>1, ZenonT(40) DEF Slots
<1> QED BY <1>2, <1>3, <1>4, <1>5 DEF t

\* Nothing is in flight while time passes, so an engagement whose word has gone
\* unanswered for the whole of its budget has asked nothing of the driver.
LEMMA TickBothKeeps ==
  ASSUME Bearable, SessionInv, Bond(slot, "none", drv, line, back), TickBoth
  PROVE  Bond(slot', "none", drv', line, back) /\ drv'.torqued = drv.torqued
<1> DEFINE t == slot'
           e == drv'
           quiet == AtMost(drv.quiet + 1, HoldTimeout + 1)
           pass == IF drv.pass = "begun" THEN "reading" ELSE drv.pass
<1>0. /\ Sane(slot) /\ drv \in Drivers /\ line = <<>> /\ back = <<>> /\ drv.ask = {}
      /\ drv.txn = "none" /\ ~(WordOwed /\ Expired(e))
  BY DEF SessionInv, Bond, Wired, TickBoth, Prompt, Bearable
<1>1. e = [drv EXCEPT !.quiet = quiet, !.pass = pass]
  BY <1>0 DEF TickBoth, Drivers
<1>2. quiet \in 0..(HoldTimeout + 1) /\ pass \in Passes
  BY <1>0, DriverNumbers DEF AtMost, Drivers, Passes
<1>3. /\ pass = "none" <=> drv.pass = "none"
      /\ pass = "confirmed" <=> drv.pass = "confirmed"
      /\ pass \in {"begun", "reading", "overdue"} <=> drv.pass \in {"begun", "reading", "overdue"}
  OBVIOUS
<1> HIDE DEF quiet, pass
<1>4. /\ e \in Drivers /\ e.quiet = quiet /\ e.pass = pass /\ e.ask = drv.ask /\ e.txn = drv.txn
      /\ e.latched = drv.latched /\ e.believed = drv.believed /\ e.torqued = drv.torqued
  BY <1>0, <1>1, <1>2 DEF Drivers
<1>5. /\ t.phase = slot.phase /\ t.owed = slot.owed /\ t.asking = slot.asking
      /\ t.asked = 0 <=> slot.asked = 0
      /\ t.rows = slot.rows /\ t.limp = slot.limp /\ t.draining = slot.draining
      /\ t.aux.on = slot.aux.on /\ t.aux.row = slot.aux.row
      /\ t.seq.kind = slot.seq.kind /\ t.seq.phase = slot.seq.phase
      /\ t.seq.rows = slot.seq.rows
  <2>1. t = Aged(slot)
    BY DEF TickBoth, Tick
  <2> QED BY <1>0, <2>1, AgedHolds
<1> HIDE DEF t, e
<1>6. /\ \A says : ~Carries(line, says)
      /\ \A event : ~Holds(back, event)
      /\ Len(line) = 0 /\ 1..Len(line) = {}
  BY <1>0 DEF Carries, Holds
<1>7. e.believed # {} => e.quiet <= HoldTimeout
  <2>1. CASE WordOwed
    BY <1>0, <1>2, <1>4, <2>1, DriverNumbers DEF Expired
  <2>2. CASE ~WordOwed
    <3>1. Down(slot)
      BY <1>0, <2>2, SaneIs DEF WordOwed, Down, PhaseKinds
    <3>2. e.believed = {}
      BY <1>4, <3>1 DEF Bond, RestsLoose, Loose
    <3> QED BY <3>2
  <2> QED BY <2>1, <2>2
<1>8. Wired(e)
  BY <1>0, <1>3, <1>4, <1>7 DEF Bond, Wired
<1>9. SweepsAlone(t, e, line, back) /\ LastWord(t, e, line)
  <2>1. SweepsAlone(t, e, line, back)
    BY <1>3, <1>4, <1>5, <1>6 DEF Bond, SweepsAlone, Sweeping
  <2>2. LastWord(t, e, line)
    BY <1>6 DEF LastWord
  <2> QED BY <2>1, <2>2
<1>10. RestsLoose(t, e, line, back) /\ StaysFreed(t, e, line, back)
  <2>1. Down(t) <=> Down(slot)
    BY <1>5 DEF Down
  <2>2. Freed(t) = Freed(slot)
    BY <1>5 DEF Freed
  <2> QED BY <1>4, <2>1, <2>2 DEF Bond, RestsLoose, StaysFreed, Loose, Rid
<1>11. EngagesOne(t, e, line, back)
  <2> SUFFICES ASSUME t.phase = "ENGAGING"
               PROVE  Loose(e, line, back) /\ InHand(t, e, line, back)
    BY DEF EngagesOne
  <2>1. drv.believed = {}
    <3>1. CASE slot.asked = 0
      BY <1>5, <3>1 DEF Bond, EngagesOne, Unasking, Loose
    <3>2. CASE slot.asked # 0
      BY <1>5, <1>6, <3>2 DEF Bond, EngagesOne, InHand
    <3> QED BY <3>1, <3>2
  <2> QED BY <1>0, <1>4, <1>6, <2>1 DEF Loose, InHand
<1>12. OneCopy(t, "none", e, line) /\ NoneBehind(e, line) /\ AsksNext(t, "none", e, line)
  BY <1>0, <1>4, <1>6 DEF OneCopy, NoneBehind, AsksNext
<1>13. Apt(t)
  BY <1>5 DEF Bond, Apt
<1> QED BY <1>4, <1>8, <1>9, <1>10, <1>11, <1>12, <1>13 DEF Bond, t, e

-----------------------------------------------------------------------------
(* What holds of the two, and of every step they take.                     *)

\* The datagram an execution has written and not yet sent.
Unsaid == IF stage \in {"driven", "drained"} THEN cmd ELSE "none"

BothInv == /\ SessionInv /\ Bond(slot, Unsaid, drv, line, back)
           /\ Len(line) <= LineCap /\ Len(back) <= LineCap

\* What a step may say of the machine.
Truly == TrulyHeard(slot, slot', drv)

LEMMA BothStart == InitBoth => BothInv
<1> SUFFICES ASSUME InitBoth PROVE BothInv
  OBVIOUS
<1>1. SessionInv
  BY InitKeeps DEF InitBoth
<1>2. /\ line = <<>> /\ back = <<>> /\ Len(line) = 0 /\ Len(back) = 0
      /\ \A says : ~Carries(line, says)
      /\ \A event : ~Holds(back, event)
      /\ 1..Len(line) = {} /\ 1..Len(back) = {}
  BY DEF InitBoth, Carries, Holds
<1>3. /\ drv \in Drivers /\ drv.torqued = {} /\ drv.believed = {} /\ drv.latched = FALSE
      /\ drv.pass = "none" /\ drv.ask = {} /\ drv.txn = "none"
  BY DriverNumbers, Spare DEF InitBoth, Drivers, Passes, Transactions
<1>4. /\ slot.phase = "STARTING" /\ slot.owed = FALSE /\ slot.asking = FALSE /\ slot.asked = 0
      /\ slot.limp = {} /\ slot.draining = FALSE /\ Unsaid = "none"
  BY DEF InitBoth, Init, Unsaid
<1>5. Wired(drv) /\ Tidy(back) /\ line \in Seq(Datagrams)
  BY <1>2, <1>3 DEF Wired, Tidy
<1>6. SweepsAlone(slot, drv, line, back) /\ LastWord(slot, drv, line)
  BY <1>2, <1>3 DEF SweepsAlone, Sweeping, LastWord
<1>7. RestsLoose(slot, drv, line, back) /\ EngagesOne(slot, drv, line, back)
  BY <1>2, <1>3, <1>4 DEF RestsLoose, Loose, EngagesOne
<1>8. StaysFreed(slot, drv, line, back)
  BY <1>3, <1>4 DEF StaysFreed, Freed, Rid
<1>9. OneCopy(slot, "none", drv, line) /\ NoneBehind(drv, line)
      /\ AsksNext(slot, "none", drv, line)
  BY <1>2, <1>3 DEF OneCopy, NoneBehind, AsksNext
<1>10. Apt(slot)
  BY <1>4 DEF Apt
<1>11. LineCap \in Nat
  BY SessionDriverConstants DEF SessionDriverConstants
<1> QED BY <1>1, <1>2, <1>4, <1>5, <1>6, <1>7, <1>8, <1>9, <1>10, <1>11 DEF BothInv, Bond

LEMMA ReportsAre ==
  /\ Reports \subseteq Events
  /\ \A b \in Seq(Reports) : b \in Seq(Events)
<1>1. Reports \subseteq Events
  BY DEF Reports, Events
<1>2. ASSUME NEW b \in Seq(Reports) PROVE b \in Seq(Events)
  BY <1>1
<1> QED BY <1>1, <1>2

\* Whatever the two of them do, the session does what it may do by itself.
LEMMA BothMoves ==
  ASSUME back \in Seq(Events), [NextBoth]_both
  PROVE  [Next]_vars /\ back' \in Seq(Events)
<1>1. CASE Answer
  <2>1. Head(back) \in Events /\ Tail(back) \in Seq(Events)
    BY <1>1, TailIs DEF Answer
  <2> QED BY <1>1, <2>1 DEF Answer, Next, Messages
<1>2. CASE Bus
  BY <1>2 DEF Bus, Next, Turns, RunBus
<1>3. CASE Send
  BY <1>3 DEF Send, Next, Turns
<1>4. CASE /\ ~Answer /\ ~Bus /\ ~Send
           /\ SessionSteps
  BY <1>4 DEF SessionSteps, Alone, Next, Messages, Turns, World
<1>5. CASE Cycle
  <2>1. UNCHANGED vars
    BY <1>5 DEF Cycle
  <2>2. PICK says : back' = IF says \in Events THEN Append(back, says) ELSE back
    BY <1>5 DEF Cycle
  <2>3. back' \in Seq(Events)
    BY <2>2
  <2> QED BY <2>1, <2>3
<1>6. CASE Hear \/ Lose \/ Goal
  BY <1>6 DEF Hear, Lose, Goal
<1>7. CASE TickBoth
  BY <1>7 DEF TickBoth, Next, World
<1>8. CASE UNCHANGED both
  BY <1>8 DEF both, vars
<1> QED BY <1>1, <1>2, <1>3, <1>4, <1>5, <1>6, <1>7, <1>8 DEF NextBoth, SessionSteps

\* A slot that stays in its phase, and owes what it owed, says nothing untrue.
LEMMA QuietlyTrue ==
  ASSUME slot'.phase = slot.phase, slot'.owed = slot.owed
  PROVE  Truly
BY DEF Truly, TrulyHeard

LEMMA SteadyStep ==
  ASSUME BothInv, SessionInv', Steady(slot, slot'), UNCHANGED <<line, back, drv>>,
         Unsaid = "none", Unsaid' = "none"
  PROVE  BothInv' /\ Truly
<1>1. Sane(slot) /\ Sane(slot')
  BY DEF BothInv, SessionInv
<1>2. Bond(slot', "none", drv, line, back)
  BY <1>1, SteadyKeeps DEF BothInv
<1>3. Truly
  <2>1. slot'.owed => slot'.phase # "ACTIVE"
    BY <1>1, SaneIs
  <2> QED BY <2>1 DEF Steady, Truly, TrulyHeard
<1> QED BY <1>2, <1>3 DEF BothInv

\* The steps the session takes by itself.
LEMMA AloneKeeps ==
  ASSUME BothInv, SessionInv', UNCHANGED <<line, back, drv>>,
         \/ Wake \/ RunWindDown
         \/ \E kind \in Raises : TakeRaise(kind)
         \/ \E row \in Rows, status \in Statuses : TakeReading(row, status)
         \/ \E script \in Scripts : TakeScript(script)
         \/ \E row \in Rows : GoStale(row)
  PROVE  BothInv' /\ Truly
<1>0. Sane(slot) /\ slot \in Slots /\ replaced \in BOOLEAN
  BY DEF BothInv, SessionInv, Scalars, Sane
<1>1. Unsaid = "none" /\ Unsaid' = "none"
  BY DEF Unsaid, Wake, RunWindDown, TakeRaise, TakeReading, TakeScript, GoStale, Taking
<1>2. CASE Wake
  <2>1. Clocks(slot, NoteStart(slot)) /\ NoteStart(slot) \in Slots
    BY <1>0, NoteStartIs DEF Clocks
  <2>2. ASSUME NEW age \in Ages PROVE Clocks(slot, NoteSample(NoteStart(slot), age))
    BY <2>1, NoteSampleIs, ClocksOn
  <2>3. Steady(slot, slot')
    BY <1>0, <1>2, <2>1, <2>2, WatchedSteady DEF Wake
  <2> QED BY <1>1, <2>3, SteadyStep
<1>3. CASE RunWindDown
  <2>1. slot' = slot => Steady(slot, slot')
    BY DEF Steady
  <2>2. Steady(slot, slot')
    BY <1>0, <1>3, <2>1, WindDownSteady DEF RunWindDown
  <2> QED BY <1>1, <2>2, SteadyStep
<1>4. ASSUME NEW kind \in Raises, TakeRaise(kind) PROVE BothInv' /\ Truly
  <2>1. kind \in FaultKinds
    BY SessionConstants DEF SessionConstants
  <2>2. Steady(slot, slot')
    BY <1>0, <1>4, <2>1, FaultSteady DEF TakeRaise
  <2> QED BY <1>1, <2>2, SteadyStep
<1>5. ASSUME NEW row \in Rows, NEW status \in Statuses, TakeReading(row, status)
      PROVE  BothInv' /\ Truly
  <2>1. Steady(slot, slot')
    BY <1>0, <1>5, ReadingSteady DEF TakeReading
  <2> QED BY <1>1, <2>1, SteadyStep
<1>6. ASSUME NEW script \in Scripts, TakeScript(script) PROVE BothInv' /\ Truly
  <2>1. script \in Held
    <3>1. Spans \subseteq 0..Stepless /\ MaxScript \in Nat
      BY SessionConstants DEF SessionConstants
    <3>2. script.id \in 1..MaxScript /\ script.span \in Spans
          /\ script = [id |-> script.id, span |-> script.span]
      BY DEF Scripts
    <3>3. script.id \in 0..MaxScript
      BY <3>1, <3>2
    <3>4. script.span \in 0..Stepless
      BY <3>1, <3>2
    <3> QED BY <3>2, <3>3, <3>4 DEF Held
  <2>2. Steady(slot, slot')
    BY <1>0, <1>6, <2>1, DecideSteady DEF TakeScript
  <2> QED BY <1>1, <2>2, SteadyStep
<1>7. ASSUME NEW row \in Rows, GoStale(row) PROVE BothInv' /\ Truly
  <2>1. SameLife(slot, slot') /\ SameBus(slot, slot') /\ slot'.rows = slot.rows
    BY <1>0, <1>7 DEF GoStale, Slots, SameLife, SameBus
  <2> QED BY <1>1, <2>1, SameSteady, SteadyStep
<1> QED BY <1>2, <1>3, <1>4, <1>5, <1>6, <1>7

LEMMA AnswerKeeps ==
  ASSUME BothInv, SessionInv', Answer
  PROVE  BothInv' /\ Truly
<1>1. /\ slot' = Heard(slot, Head(back)) /\ back' = Tail(back) /\ back # <<>>
      /\ UNCHANGED <<line, drv>> /\ Unsaid = "none" /\ Unsaid' = "none"
  BY DEF Answer, TakeEvent, Taking, Unsaid
<1>2. Sane(slot) /\ Sane(slot') /\ Bond(slot, "none", drv, line, back)
  BY <1>1 DEF BothInv, SessionInv
<1> DEFINE t == Heard(slot, Head(back))
<1>3. Bond(t, "none", drv, line, Tail(back)) /\ TrulyHeard(slot, t, drv)
  BY <1>1, <1>2, HeardKeeps
<1>4. Len(back') <= LineCap
  <2>1. back \in Seq(Reports) /\ Len(back) <= LineCap /\ LineCap \in Nat
    BY <1>2, SessionDriverConstants DEF Bond, Tidy, BothInv, SessionDriverConstants
  <2>2. Len(back') = Len(back) - 1 /\ Len(back) \in Nat
    BY <1>1, <2>1, TailIs
  <2> QED BY <2>1, <2>2
<1> HIDE DEF t
<1>5. slot' = t
  BY <1>1 DEF t
<1> QED BY <1>1, <1>3, <1>4, <1>5 DEF BothInv, Truly

LEMMA BusStep ==
  ASSUME Bearable, BothInv, SessionInv', Bus
  PROVE  BothInv' /\ Truly
<1>1. Unsaid = "none" /\ Unsaid' = cmd'
  BY DEF Bus, RunBusWith, Taking, Unsaid
<1>2. Sane(slot) /\ Bond(slot, "none", drv, line, back)
  BY <1>1 DEF BothInv, SessionInv
<1>3. Bond(slot', cmd', drv', line, back) /\ UNCHANGED <<line, back>> /\ RunBus
  BY <1>2, BusKeeps
<1>4. Truly
  <2>1. PICK answer \in AnswersNow : slot' = BusTurn(slot, answer).slot
    BY <1>3 DEF RunBus, RunBusWith
  <2>2. answer \in Priors
    BY DEF AnswersNow, Priors
  <2>3. slot.owed => slot' = slot
    BY <1>2, <2>1, <2>2, BusTurnIs
  <2>4. slot.owed \in BOOLEAN /\ Sane(slot') /\ (slot'.owed => slot'.phase # "ACTIVE")
    <3>1. Sane(slot')
      BY DEF SessionInv
    <3> QED BY <1>2, <3>1, SaneIs
  <2> DEFINE turn == BusTurn(slot, answer)
  <2>5. ~slot.owed => Tends(slot, answer, turn)
    BY <1>2, <2>2, <2>4, TendsBusTurn DEF Bond
  <2> HIDE DEF turn
  <2>6. ~slot.owed => turn.slot.owed \/ (turn.slot.phase = "ACTIVE" => slot.phase = "ACTIVE")
    BY <2>5, Zenon DEF Tends
  <2>7. slot' = turn.slot
    BY <2>1 DEF turn
  <2> QED BY <2>3, <2>4, <2>6, <2>7 DEF Truly, TrulyHeard
<1> QED BY <1>1, <1>3, <1>4 DEF BothInv

LEMMA DrainStep ==
  ASSUME Bearable, BothInv, SessionInv', Alone(DrainPending)
  PROVE  BothInv' /\ Truly
<1>1. Unsaid = cmd /\ Unsaid' = cmd' /\ UNCHANGED <<line, back, drv>> /\ DrainPending
  BY DEF Alone, DrainPending, Taking, Unsaid
<1>2. SessionInv /\ Bond(slot, cmd, drv, line, back)
  BY <1>1 DEF BothInv
<1>3. Bond(slot', cmd', drv, line, back)
  BY <1>1, <1>2, DrainKeeps
<1>4. Truly
  <2>1. CASE ~(slot.pending # NoScript /\ DrainsAt(slot))
    BY <1>1, <2>1, QuietlyTrue DEF DrainPending
  <2>2. CASE slot.pending # NoScript /\ DrainsAt(slot)
    <3> DEFINE turn == Drained(slot, replaced)
    <3>1. slot' = turn.slot
      BY <1>1, <2>2 DEF DrainPending
    <3>2. Sane(slot) /\ replaced \in BOOLEAN
      BY <1>2 DEF SessionInv, Scalars
    <3>3. turn.slot.owed = slot.owed /\ (slot.phase # "RESTING" => turn.slot.phase = slot.phase)
      BY <2>2, <3>2, DrainedIs
    <3> HIDE DEF turn
    <3> QED BY <3>1, <3>3 DEF Truly, TrulyHeard
  <2> QED BY <2>1, <2>2
<1> QED BY <1>1, <1>3, <1>4 DEF BothInv

LEMMA SendStep ==
  ASSUME BothInv, SessionInv', Send
  PROVE  BothInv' /\ Truly
<1>1. Unsaid = cmd /\ Unsaid' = "none" /\ UNCHANGED <<back, drv>> /\ PublishSchedule
  BY DEF Send, PublishSchedule, Taking, Unsaid
<1>2. SessionInv /\ Bond(slot, cmd, drv, line, back) /\ Len(line) <= LineCap
  BY <1>1 DEF BothInv
<1>3. Bond(slot', "none", drv, line', back) /\ Len(line') <= LineCap
  BY <1>2, SendKeeps
<1>4. slot'.phase = slot.phase /\ slot'.owed = slot.owed
  <2>1. slot \in Slots
    BY <1>2 DEF SessionInv, Sane
  <2> QED BY <1>1, <2>1 DEF PublishSchedule, Slots
<1> QED BY <1>1, <1>3, <1>4, QuietlyTrue DEF BothInv

\* The driver's steps, and the network's.
LEMMA DriverStepKeeps ==
  ASSUME Bearable, BothInv, SessionInv', Cycle \/ Hear \/ Lose \/ Goal \/ TickBoth
  PROVE  BothInv' /\ Truly
<1>0. /\ Sane(slot) /\ line \in Seq(Datagrams) /\ LineCap \in Nat /\ Len(line) <= LineCap
      /\ Bond(slot, Unsaid, drv, line, back)
  BY SessionDriverConstants DEF BothInv, SessionInv, Bond, SessionDriverConstants
<1>1. CASE Cycle
  <2>1. /\ Bond(slot, Unsaid, drv', line, back')
        /\ UNCHANGED <<vars, line>> /\ Len(back') <= LineCap
    BY <1>0, <1>1, CycleKeeps
  <2>2. slot' = slot /\ Unsaid' = Unsaid
    BY <2>1 DEF vars, Unsaid
  <2> QED BY <2>1, <2>2, QuietlyTrue DEF BothInv
<1>2. ASSUME line # <<>> PROVE Len(Tail(line)) <= LineCap
  <2>1. Len(Tail(line)) = Len(line) - 1 /\ Len(line) \in Nat
    BY <1>0, <1>2, TailIs
  <2> QED BY <1>0, <2>1
<1>3. CASE Hear
  <2>1. slot' = slot /\ Unsaid' = Unsaid /\ back' = back /\ line # <<>> /\ line' = Tail(line)
        /\ drv' = Accept(drv, Head(line))
    BY <1>3 DEF Hear, vars, Unsaid
  <2>2. Bond(slot, Unsaid, Accept(drv, Head(line)), Tail(line), back)
    BY <1>0, <2>1, HearKeeps
  <2> QED BY <1>2, <2>1, <2>2, QuietlyTrue DEF BothInv
<1>4. CASE Lose
  <2>1. slot' = slot /\ Unsaid' = Unsaid /\ back' = back /\ line # <<>> /\ line' = Tail(line)
        /\ drv' = drv
    BY <1>4 DEF Lose, vars, Unsaid
  <2>2. Bond(slot, Unsaid, drv, Tail(line), back)
    BY <1>0, <2>1, LoseKeeps
  <2> QED BY <1>2, <2>1, <2>2, QuietlyTrue DEF BothInv
<1>5. CASE Goal
  <2>1. slot' = slot /\ Unsaid' = Unsaid /\ back' = back /\ line' = line
        /\ drv' = Refreshed(drv)
    BY <1>5 DEF Goal, vars, Unsaid, Refreshed
  <2>2. Bond(slot, Unsaid, Refreshed(drv), line, back)
    BY <1>0, RefreshKeeps
  <2> QED BY <2>1, <2>2, QuietlyTrue DEF BothInv
<1>6. CASE TickBoth
  <2>1. Unsaid = "none" /\ Unsaid' = "none" /\ UNCHANGED <<line, back>>
    BY <1>6 DEF TickBoth, Tick, Unsaid
  <2>2. Bond(slot', "none", drv', line, back)
    BY <1>0, <1>6, <2>1, TickBothKeeps DEF BothInv
  <2>3. slot'.phase = slot.phase /\ slot'.owed = slot.owed
    BY <1>0, <1>6, AgedHolds DEF TickBoth, Tick
  <2> QED BY <2>1, <2>2, <2>3, QuietlyTrue DEF BothInv
<1> QED BY <1>1, <1>3, <1>4, <1>5, <1>6

\* Every step keeps the two tied, and says of the machine what is so.
LEMMA BothKeep ==
  ASSUME Bearable, BothInv, [NextBoth]_both
  PROVE  BothInv' /\ Truly
<1>1. SessionInv'
  <2>1. back \in Seq(Events)
    BY ReportsAre DEF BothInv, Bond, Tidy
  <2>2. [Next]_vars
    BY <2>1, BothMoves
  <2> QED BY <2>2, NextKeeps DEF BothInv
<1>2. CASE Answer
  BY <1>1, <1>2, AnswerKeeps
<1>3. CASE Bus
  BY <1>1, <1>3, BusStep
<1>4. CASE Send
  BY <1>1, <1>4, SendStep
<1>5. CASE Alone(DrainPending)
  BY <1>1, <1>5, DrainStep
<1>6. CASE /\ SessionSteps
           /\ ~Answer /\ ~Bus /\ ~Send /\ ~Alone(DrainPending)
  <2>1. /\ UNCHANGED <<line, back, drv>>
        /\ \/ Wake \/ RunWindDown
           \/ \E kind \in Raises : TakeRaise(kind)
           \/ \E row \in Rows, status \in Statuses : TakeReading(row, status)
           \/ \E script \in Scripts : TakeScript(script)
           \/ \E row \in Rows : GoStale(row)
    BY <1>6 DEF SessionSteps, Alone
  <2> QED BY <1>1, <2>1, AloneKeeps
<1>7. CASE Cycle \/ Hear \/ Lose \/ Goal \/ TickBoth
  BY <1>1, <1>7, DriverStepKeeps
<1>8. CASE UNCHANGED both
  <2>1. UNCHANGED <<slot, stage, cmd, line, back, drv>>
    BY <1>8 DEF both, vars
  <2>2. Unsaid' = Unsaid
    BY <2>1 DEF Unsaid
  <2> QED BY <1>1, <2>1, <2>2, QuietlyTrue DEF BothInv
<1> QED BY <1>2, <1>3, <1>4, <1>5, <1>6, <1>7, <1>8 DEF NextBoth

LEMMA BothInvariant ==
  ASSUME Bearable
  PROVE  SpecBoth => []BothInv
<1>1. BothInv /\ [NextBoth]_both => BothInv'
  BY BothKeep
<1> QED BY <1>1, BothStart, PTL DEF SpecBoth

-----------------------------------------------------------------------------
(* What the two of them promise.                                           *)

\* With a driver behind it the session is the session still: what it reads off
\* the driver's line is what Session lets anybody say, so whatever SessionProofs
\* proves of it is true of it here, whatever befalls the two of them
\* (session_cog.rs, execute_session; driver_event).
THEOREM BothIsASession == SpecBoth => Spec
<1> DEFINE Told == back \in Seq(Events)
<1>1. InitBoth => Told
  BY DEF InitBoth
<1>2. Told /\ [NextBoth]_both => Told' /\ [Next]_vars
  BY BothMoves
<1>3. InitBoth => Init
  BY DEF InitBoth
<1> QED BY <1>1, <1>2, <1>3, PTL DEF SpecBoth, Spec

\* What is on its way and what the driver keeps of it stay what they are said to
\* be, while nothing befalls the two but lost datagrams and releases that do not
\* take (session_cmd, driver_event; tick.rs).
THEOREM BothTypes ==
  ASSUME Faults \subseteq {"lost", "sweep"}, "late" \notin Hazards, AuxTimeout # 0
  PROVE  SpecBoth => []TypeBoth
<1>1. Bearable
  BY DEF Bearable
<1>2. BothInv => TypeBoth
  <2>1. BothInv => back \in Seq(Remarks)
    <3>1. Reports \subseteq Remarks
      BY DEF Reports, Remarks, Events
    <3>2. \A b \in Seq(Reports) : b \in Seq(Remarks)
      BY <3>1
    <3> QED BY <3>2 DEF BothInv, Bond, Tidy
  <2> QED BY <2>1 DEF BothInv, Bond, Wired, TypeBoth
<1> QED BY <1>1, <1>2, BothInvariant, PTL

\* A machine at rest that owes nothing is limp, for any number of servos, any
\* budgets and lines of any length, however many datagrams are lost and releases
\* do not take, and whatever scripts, readings, faults and silences arrive
\* (session.clk, RESTING; session_cog.rs, answer_engagement; torque.rs, step).
\* The session must give an engagement some time: one given up in the tick it was
\* asked for leaves its ask in line behind it.
THEOREM RestingIsLimp ==
  ASSUME Faults \subseteq {"lost", "sweep"}, "late" \notin Hazards, AuxTimeout # 0
  PROVE  SpecBoth => []RestIsLimp
<1>1. Bearable
  BY DEF Bearable
<1>2. BothInv => RestIsLimp
  <2> SUFFICES ASSUME BothInv, slot.phase = "RESTING", ~slot.owed PROVE drv.torqued = {}
    BY DEF RestIsLimp
  <2>1. Loose(drv, line, back)
    BY DEF BothInv, Bond, RestsLoose, Down
  <2> QED BY <2>1 DEF BothInv, Bond, Wired, Loose
<1> QED BY <1>1, <1>2, BothInvariant, PTL

\* A release is no longer owed only once the machine holds nothing, though what
\* says so was read off it before and has been in line since (session_ladder.rs,
\* confirmed; torque.rs, step).
THEOREM OffBeforeForgotten ==
  ASSUME Faults \subseteq {"lost", "sweep"}, "late" \notin Hazards, AuxTimeout # 0
  PROVE  SpecBoth => OffWhenTold
<1>1. Bearable
  BY DEF Bearable
<1>2. BothInv /\ [NextBoth]_both => [slot.owed /\ ~slot'.owed => drv.torqued = {}]_both
  BY <1>1, BothKeep DEF Truly, TrulyHeard
<1> QED BY <1>1, <1>2, BothInvariant, PTL DEF SpecBoth, OffWhenTold

\* A session goes under command of a machine that holds its whole head and no row
\* that was not asked for (session_cog.rs, answer_engagement; engage.rs, step).
THEOREM CommandIsHeld ==
  ASSUME Faults \subseteq {"lost", "sweep"}, "late" \notin Hazards, AuxTimeout # 0
  PROVE  SpecBoth => ActiveIsHeld
<1>1. Bearable
  BY DEF Bearable
<1>2. BothInv /\ [NextBoth]_both =>
        [slot.phase = "ENGAGING" /\ slot'.phase = "ACTIVE" =>
           Heads \subseteq drv.torqued /\ drv.torqued \subseteq slot.rows]_both
  BY <1>1, BothKeep DEF Truly, TrulyHeard
<1> QED BY <1>1, <1>2, BothInvariant, PTL DEF SpecBoth, ActiveIsHeld
=============================================================================
