--------------------------- MODULE Conversations ---------------------------
(***************************************************************************)
(* The three conversations run against a bus that answers anything: one is *)
(* opened, its transactions are answered one at a time, its waits run out, *)
(* and it ends.  What was asked and what came of it is kept beside the     *)
(* snapshot, so that what an ended conversation claims can be held against *)
(* what the servos were really told.                                       *)
(***************************************************************************)
EXTENDS Sequencers

VARIABLES snap,    \* the conversation under way, Blank between two
          wait,    \* the wait it asked for
          asked,   \* the steps it has put on the bus: phase and cursor
          heard,   \* those of them last answered with a value
          good     \* those of them last answered with the value wanted
vars == <<snap, wait, asked, heard, good>>

Here == <<snap.phase, snap.at>>
Ended == Done(snap) \/ Failed(snap)

TypeOK == /\ snap \in Snaps
          /\ wait \in 0..(VoltageWait + Dwell)
          /\ good \subseteq heard /\ heard \subseteq asked

Init == snap = Blank /\ wait = 0 /\ asked = {} /\ heard = {} /\ good = {}

Taken(s) == /\ snap' = s
            /\ wait' = IF Waits(s) THEN WaitOf(s) ELSE 0

Open(start) == /\ snap = Blank
               /\ asked' = {} /\ heard' = {} /\ good' = {}
               /\ Taken(Step(start, "nothing"))

Answer(result) ==
  /\ Transacts(snap)
  /\ asked' = asked \cup {Here}
  /\ heard' = IF result \in {"ok", "odd"} THEN heard \cup {Here} ELSE heard \ {Here}
  /\ good' = IF result = "ok" THEN good \cup {Here} ELSE good \ {Here}
  /\ Taken(Step(snap, result))

Resume == /\ snap # Blank /\ Waits(snap) /\ wait = 0
          /\ Taken(Step(snap, "nothing"))
          /\ UNCHANGED <<asked, heard, good>>

Tick == /\ snap # Blank /\ ~Ended
        /\ \/ wait > 0 \/ Older(snap) # snap
        /\ wait' = IF wait > 0 THEN wait - 1 ELSE 0
        /\ snap' = Older(snap)
        /\ UNCHANGED <<asked, heard, good>>

Close == Ended /\ snap' = Blank /\ wait' = 0 /\ asked' = {} /\ heard' = {} /\ good' = {}

Opens == \/ Open(CommissionStart)
         \/ \E rows \in SUBSET Rows : Open(PollStart(rows))
         \/ Open(DisarmStart)

Answers == \E result \in Results : Answer(result)

Next == Opens \/ Answers \/ Resume \/ Tick \/ Close

Spec == Init /\ [][Next]_vars

\* The driver answers every request within its budget or the session gives it
\* up for unanswered, and the clock runs.
Fairness == WF_vars(Answers) /\ WF_vars(Resume) /\ WF_vars(Tick)
FairSpec == Spec /\ Fairness

-----------------------------------------------------------------------------
Commissioning == snap.kind = "commission"

\* A commissioning that configures the servos has had every one of them answer
\* for itself, every register it checks read as written down, the whole rail up
\* in one sweep and every error byte read; no gain and no profile goes out to a
\* machine any of those is missing from (arm.rs, absorb's order of phases).
ConfiguresOnlyWhatItKnows ==
  Commissioning /\ snap.phase \in {"gains", "complete"} =>
    /\ Steps("presence", N) \cup Steps("health", N) \subseteq heard
    /\ Steps("identity", N) \cup Steps("voltage", N) \subseteq good
    /\ {<<"provision", c>> : c \in CheckedCells} \subseteq good

\* A conversation that ends done has said everything it had to say: a
\* commissioning every write of it, a poll both readings of each row it was
\* named, a disarm a release of every servo, measured or not.
DoneIsWhole ==
  Done(snap) =>
    CASE Commissioning -> Steps("gains", Writes) \subseteq good
      [] snap.kind = "poll" -> {"voltage", "health"} \X snap.rows \subseteq heard
      [] OTHER -> Steps("verify", N) \cup Steps("release", N) \subseteq asked

\* What a disarm calls released is what a servo confirmed, no more and no less:
\* the session ends the release on this set alone (conclude_release).
ReleasedIsConfirmed ==
  snap.kind = "disarm" => snap.rows = {r \in Rows : <<"release", r>> \in good}

\* Whatever the bus answers, a conversation ends: the rail is waited for within
\* its budget, and no sweep goes back to where it has been but that one.
EveryConversationEnds == snap # Blank ~> Ended
=============================================================================
