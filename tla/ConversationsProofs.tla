------------------------ MODULE ConversationsProofs ------------------------
(***************************************************************************)
(* Proofs about the conversations, for any number of servos, cells and     *)
(* profile registers, whatever the bus answers.                            *)
(***************************************************************************)
EXTENDS Conversations, SequencersProofs

ConversationInv == TypeOK /\ Fits(snap, asked, heard, good)

\* The wait a conversation asks for is one of the two it may.
LEMMA WaitIs ==
  ASSUME NEW s
  PROVE  (IF Waits(s) THEN WaitOf(s) ELSE 0) \in 0..(VoltageWait + Dwell)
BY SequencerConstants DEF SequencerConstants, WaitOf

LEMMA Begins == Init => ConversationInv
<1> SUFFICES ASSUME Init PROVE ConversationInv
  OBVIOUS
<1>1. 0 \in 0..(VoltageWait + Dwell)
  BY SequencerConstants DEF SequencerConstants
<1> QED BY <1>1, BlankIs DEF Init, ConversationInv, TypeOK, Fits

LEMMA Opened ==
  ASSUME Opens
  PROVE  ConversationInv'
<1> DEFINE Fresh(s) == /\ s \in Snaps
                       /\ \/ s.kind = "commission" /\ CommissionFits(s, {}, {})
                          \/ s.kind = "poll" /\ PollFits(s, {})
                          \/ s.kind = "disarm" /\ DisarmFits(s, {}, {})
<1>1. PICK s : Fresh(s) /\ Taken(s) /\ asked' = {} /\ heard' = {} /\ good' = {}
  <2>1. CASE Open(CommissionStart)
    BY <2>1, CommissionOpens DEF Open
  <2>2. CASE \E rows \in SUBSET Rows : Open(PollStart(rows))
    BY <2>2, PollOpens DEF Open
  <2>3. CASE Open(DisarmStart)
    BY <2>3, DisarmOpens DEF Open
  <2> QED BY <2>1, <2>2, <2>3 DEF Opens
<1>2. snap' = s /\ wait' \in 0..(VoltageWait + Dwell)
  BY <1>1, WaitIs DEF Taken
<1> QED BY <1>1, <1>2 DEF ConversationInv, TypeOK, Fits

LEMMA Answered ==
  ASSUME ConversationInv, NEW result \in Results, Answer(result)
  PROVE  ConversationInv'
<1> DEFINE t == Step(snap, result)
<1>1. /\ snap \in Snaps /\ snap.held = TRUE /\ good \subseteq heard /\ heard \subseteq asked
  BY DEF ConversationInv, TypeOK, Answer, Transacts, Snaps
<1>2. snap' = t /\ wait' \in 0..(VoltageWait + Dwell)
  BY WaitIs DEF Answer, Taken
<1>3. Noted(<<snap.phase, snap.at>>, result, asked, heard, good, asked', heard', good')
  BY <1>1 DEF Answer, Noted, Here
<1>4. good' \subseteq heard' /\ heard' \subseteq asked'
  BY <1>3 DEF Noted
<1>5. t \in Snaps /\ Fits(t, asked', heard', good')
  BY <1>1, <1>3, AnsweredFits DEF ConversationInv
<1> HIDE DEF t
<1> QED BY <1>2, <1>4, <1>5 DEF ConversationInv, TypeOK

LEMMA Resumed ==
  ASSUME ConversationInv, Resume
  PROVE  ConversationInv'
<1>1. /\ snap \in Snaps /\ snap.held = FALSE /\ ~Done(snap) /\ ~Failed(snap)
      /\ good \subseteq heard /\ heard \subseteq asked /\ snap # Blank
  BY DEF ConversationInv, TypeOK, Resume, Waits, Snaps
<1>2. /\ snap' = Step(snap, "nothing") /\ wait' \in 0..(VoltageWait + Dwell)
      /\ asked' = asked /\ heard' = heard /\ good' = good
  BY WaitIs DEF Resume, Taken
<1>3. Step(snap, "nothing") \in Snaps /\ Fits(Step(snap, "nothing"), asked, heard, good)
  BY <1>1, ResumedFits DEF ConversationInv, Done, Failed
<1> QED BY <1>1, <1>2, <1>3 DEF ConversationInv, TypeOK

LEMMA Ticked ==
  ASSUME ConversationInv, Tick
  PROVE  ConversationInv'
<1> DEFINE t == Older(snap)
<1>1. /\ snap \in Snaps /\ snap # Blank /\ good \subseteq heard /\ heard \subseteq asked
      /\ wait \in 0..(VoltageWait + Dwell)
  BY DEF ConversationInv, TypeOK, Tick
<1>2. snap' = t /\ asked' = asked /\ heard' = heard /\ good' = good
  BY DEF Tick
<1>3. wait' \in 0..(VoltageWait + Dwell)
  BY <1>1, SequencerConstants DEF Tick, SequencerConstants
<1>4. t \in Snaps /\ Fits(t, asked, heard, good)
  BY <1>1, OlderIs, OlderFits DEF ConversationInv
<1> HIDE DEF t
<1> QED BY <1>1, <1>2, <1>3, <1>4 DEF ConversationInv, TypeOK

LEMMA Kept ==
  ASSUME ConversationInv, [Next]_vars
  PROVE  ConversationInv'
<1>1. CASE Opens
  BY <1>1, Opened
<1>2. CASE Answers
  BY <1>2, Answered DEF Answers
<1>3. CASE Resume
  BY <1>3, Resumed
<1>4. CASE Tick
  BY <1>4, Ticked
<1>5. CASE Close
  <2>1. 0 \in 0..(VoltageWait + Dwell)
    BY SequencerConstants DEF SequencerConstants
  <2> QED BY <1>5, <2>1, BlankIs DEF Close, ConversationInv, TypeOK, Fits
<1>6. CASE UNCHANGED vars
  BY <1>6 DEF vars, ConversationInv, TypeOK
<1> QED BY <1>1, <1>2, <1>3, <1>4, <1>5, <1>6 DEF Next

\* However many servos, cells and registers there are and whatever the bus
\* answers, what the cursor claims of the sweeps behind it is on the record.
THEOREM ConversationsAreSound == Spec => []ConversationInv
<1> QED BY Begins, Kept, PTL DEF Spec

\* The snapshot and the record beside it are of their types: the cursor never
\* leaves the numbers and the rows a conversation names stay on the machine.
THEOREM ConversationTypes == Spec => []TypeOK
<1>1. ConversationInv => TypeOK
  BY DEF ConversationInv
<1> QED BY <1>1, ConversationsAreSound, PTL

\* No register of a servo is configured before every servo has answered for
\* itself, every checked register reads as written down and the rail is up.
THEOREM ConfiguresTheKnown == Spec => []ConfiguresOnlyWhatItKnows
<1>1. ConversationInv => ConfiguresOnlyWhatItKnows
  <2> SUFFICES ASSUME ConversationInv, snap.kind = "commission",
                      snap.phase \in {"gains", "complete"}
               PROVE  Configurable(heard, good)
    BY DEF ConfiguresOnlyWhatItKnows, Commissioning, Configurable, Known, Checked
  <2>1. CommissionFits(snap, heard, good)
    BY BlankIs DEF ConversationInv, Fits
  <2> QED BY <2>1 DEF CommissionFits, InPresence, InIdentity, InProvision, InVoltage, InHealth,
                      InGains, IsCommissioned
<1> QED BY <1>1, ConversationsAreSound, PTL

\* Done is said of a conversation only when all of it was said, a poll's sparse
\* rows and a disarm's unmeasurable servos included.
THEOREM DoneMeansAll == Spec => []DoneIsWhole
<1>1. ConversationInv => DoneIsWhole
  <2> SUFFICES ASSUME ConversationInv, snap.phase = "complete" PROVE DoneIsWhole
    BY DEF DoneIsWhole, Done
  <2>1. CASE snap.kind = "commission" /\ CommissionFits(snap, heard, good)
    <3>1. Steps("gains", Writes) \subseteq good
      BY <2>1 DEF CommissionFits, InPresence, InIdentity, InProvision, InVoltage, InHealth,
                  InGains, IsCommissioned
    <3> QED BY <2>1, <3>1 DEF DoneIsWhole, Commissioning
  <2>2. CASE snap.kind = "poll" /\ PollFits(snap, heard)
    <3>1. HeardOf("voltage", snap, heard) /\ HeardOf("health", snap, heard)
      BY <2>2 DEF PollFits
    <3>2. {"voltage", "health"} \X snap.rows \subseteq heard
      BY <3>1 DEF HeardOf
    <3> QED BY <2>2, <3>2 DEF DoneIsWhole, Commissioning
  <2>3. CASE snap.kind = "disarm" /\ DisarmFits(snap, asked, good)
    <3>1. Steps("verify", N) \cup Steps("release", N) \subseteq asked
      BY <2>3 DEF DisarmFits
    <3> QED BY <2>3, <3>1 DEF DoneIsWhole, Commissioning
  <2> QED BY <2>1, <2>2, <2>3, BlankIs DEF ConversationInv, Fits
<1> QED BY <1>1, ConversationsAreSound, PTL

\* The rows a disarm reports released are those whose servo confirmed it.
THEOREM ReleasedMeansConfirmed == Spec => []ReleasedIsConfirmed
<1>1. ConversationInv => ReleasedIsConfirmed
  BY BlankIs DEF ConversationInv, Fits, ReleasedIsConfirmed, DisarmFits
<1> QED BY <1>1, ConversationsAreSound, PTL
=============================================================================
