----------------------------- MODULE MoverProofs -----------------------------
(***************************************************************************)
(* Proofs about the mover, for every library, reach of a clip and schedule. *)
(* The invariant relates a machine s to the history h kept beside it, so    *)
(* that a sample can be followed from the machine it arms to the one it     *)
(* leaves.                                                                  *)
(***************************************************************************)
EXTENDS Mover, TLAPS

Typed(s, h) == /\ s \in Movers /\ h \in Histories
               /\ s.mode = "Moving" => s.dest \in Points

\* The mover's own record of the steps is what the schedule asked for.
Agrees(s, h) == h.prev = s.desired /\ (h.news <=> ~s.answered)

Aim(s) == IF s.mode = "Moving" THEN s.dest ELSE s.last
HeadingOf(s) == IF s.base # Nowhere THEN s.base.to ELSE Aim(s)

\* The step last dispatched is where the base was sent, and where it is going.
Going(s, h) == s.armed /\ h.sent # Nowhere => h.sent = Place(s.desired) /\ h.sent = HeadingOf(s)

\* The stream is the base and what rides on it.
Tied(s, h) == /\ ~h.leapt
              /\ s.base # Nowhere /\ ~h.adrift => s.last = s.base.at + h.clip

Published(s) == s.goal # Nowhere =>
                  s.mode # "Faulted" /\ s.goal.at = s.last /\ s.goal.masked = s.masked

Started(s, h) == Typed(s, h) /\ Agrees(s, h) /\ Going(s, h) /\ Tied(s, h)
Sound(s, h) == Started(s, h) /\ Published(s)

MoverInv == Sound(m, seen) /\ sched \in Schedules

-----------------------------------------------------------------------------
\* Poses stand between the ends of the line, and nowhere is no point of it.
LEMMA Line == /\ Low \in Int /\ High \in Int /\ Amp \in Nat
              /\ Points \subseteq Int /\ Places \subseteq Points
              /\ Nowhere \notin Points /\ Nowhere \notin Places
              /\ Places \subseteq Low..High /\ Low \in Points
              /\ "none" \notin Ids /\ "keep" \notin Ids /\ Poses \subseteq Ids
<1>1. /\ Low \in Int /\ High \in Int /\ Amp \in Nat /\ Low <= High
      /\ Nowhere \notin Int
      /\ "none" \notin Ids /\ "keep" \notin Ids /\ Poses \subseteq Ids
  BY MoverAssumption DEF MoverAssumption
<1>2. Places \subseteq Low..High
  BY MoverAssumption DEF MoverAssumption, Places
<1>3. Low..High \subseteq Points /\ Points \subseteq Int /\ Low \in Points
  BY <1>1 DEF Points
<1> QED BY <1>1, <1>2, <1>3

\* A pose of the library is a place, and any other name none.
LEMMA PlaceIs == \A id : Place(id) \in Places \cup {Nowhere}
BY DEF Place, Places, Poses

\* A base of the cog's own is never taken for none.
LEMMA BaseIs == Nowhere \notin Bases /\ Nowhere \notin [at : Points, masked : BOOLEAN]
<1>1. Nowhere \notin [at : Int, to : Int] /\ Nowhere \notin [at : Int, masked : BOOLEAN]
  BY MoverAssumption DEF MoverAssumption
<1> QED BY <1>1, Line DEF Bases

\* A point a period, and no further than where it is going.
LEMMA TowardIs ==
  ASSUME NEW from \in Points, NEW to \in Points
  PROVE  Toward(from, to) \in Points /\ Abs(Toward(from, to) - from) <= 1
<1>1. Low \in Int /\ High \in Int /\ Amp \in Nat
  BY Line
<1> QED BY <1>1 DEF Toward, Points, Abs

\* No distance is less than none.
LEMMA AbsIs == Abs(0) = 0 /\ \A n \in Int : Abs(n) \in Nat
BY DEF Abs

-----------------------------------------------------------------------------
(* The tick.                                                                *)

Kinds == {"none", "hold", "move", "track"}
Commands == [kind : Kinds, to : Int \cup {Nowhere}]

\* A command the tick can take: what it moves to or holds at is on the line.
Takes(command, answer) ==
  /\ command \in Commands
  /\ command.kind = "move" => command.to \in Points
  /\ command.kind = "track" => command.to \in Points \/ answer = "refused"

\* What the tick has no say in.
Kept(s, t) == /\ t.base = s.base /\ t.desired = s.desired /\ t.armed = s.armed
              /\ t.answered = s.answered

\* A move in flight goes on, ends or is dropped.
LEMMA MovedIs ==
  ASSUME NEW s \in Movers, s.mode = "Moving" => s.dest \in Points, NEW answer
  PROVE  /\ Moved(s, answer) \in Movers
         /\ Moved(s, answer).mode = "Moving" => Moved(s, answer).dest \in Points
         /\ Abs(Moved(s, answer).last - s.last) <= 1
         /\ Kept(s, Moved(s, answer))
         /\ answer = "granted" => Aim(Moved(s, answer)) = Aim(s)
<1> DEFINE t == Moved(s, answer)
<1>0. Abs(s.last - s.last) <= 1
  <2>1. s.last \in Int
    BY Line DEF Movers
  <2> QED BY <2>1 DEF Abs
<1>1. CASE s.mode # "Moving"
  <2>1. t = s
    BY <1>1 DEF Moved
  <2> QED BY <1>0, <1>1, <2>1 DEF Kept
<1>2. CASE s.mode = "Moving" /\ answer = "aborted"
  <2>1. t = [s EXCEPT !.mode = "Holding", !.dest = Nowhere]
    BY <1>2 DEF Moved, Hold
  <2> HIDE DEF t
  <2>2. t \in Movers /\ t.mode # "Moving" /\ t.last = s.last /\ Kept(s, t)
    BY <2>1 DEF Movers, Kept
  <2> QED BY <1>0, <1>2, <2>2 DEF t
<1>3. CASE s.mode = "Moving" /\ answer # "aborted"
  <2> DEFINE at == Toward(s.last, s.dest)
  <2>1. at \in Points /\ Abs(at - s.last) <= 1
    BY <1>3, TowardIs DEF Movers
  <2>2. \/ at # s.dest /\ t = [s EXCEPT !.last = at]
        \/ at = s.dest /\ t = [s EXCEPT !.last = at, !.mode = "Holding", !.dest = Nowhere]
    BY <1>3 DEF Moved, Hold, Movers
  <2> HIDE DEF at, t
  <2>3. t \in Movers /\ (t.mode = "Moving" => t.dest \in Points) /\ t.last = at
    BY <1>3, <2>1, <2>2 DEF Movers
  <2>4. Kept(s, t)
    BY <2>2 DEF Movers, Kept
  <2>5. Aim(t) = Aim(s)
    BY <1>3, <2>2 DEF Aim, Movers
  <2> QED BY <2>1, <2>3, <2>4, <2>5 DEF t
<1> QED BY <1>1, <1>2, <1>3

\* Where a command leaves the machine, if the tick comes to it.
Commanded(s, t, command, answer) ==
  /\ command.kind = "track" /\ answer # "refused" => t.last = command.to
  /\ command.kind # "track" \/ answer = "refused" => Abs(t.last - s.last) <= 1
  /\ answer = "granted" /\ command.kind = "none" => Aim(t) = Aim(s)
  /\ answer = "granted" /\ command.kind = "move" => Aim(t) = command.to

\* A command taken, refused or not given.
LEMMA TakenIs ==
  ASSUME NEW s \in Movers, s.mode = "Moving" => s.dest \in Points,
         NEW command, NEW answer, Takes(command, answer)
  PROVE  /\ TakeCommand(s, command, answer) \in Movers
         /\ TakeCommand(s, command, answer).mode = "Moving"
              => TakeCommand(s, command, answer).dest \in Points
         /\ Kept(s, TakeCommand(s, command, answer))
         /\ Commanded(s, TakeCommand(s, command, answer), command, answer)
<1> DEFINE t == TakeCommand(s, command, answer)
<1>0. s.last \in Int /\ Abs(s.last - s.last) <= 1
  <2>1. s.last \in Int
    BY Line DEF Movers
  <2> QED BY <2>1 DEF Abs
<1>1. CASE command.kind = "none" \/ (command.kind # "hold" /\ answer = "refused")
  <2>0. command.kind \in Kinds
    BY DEF Takes, Commands
  <2>1. t = Moved(s, answer)
    BY <1>1, <2>0 DEF TakeCommand, Kinds
  <2> QED BY <1>1, <2>1, MovedIs DEF Commanded
<1>2. CASE command.kind = "hold"
  <2>1. t = Hold(s)
    BY <1>2 DEF TakeCommand
  <2> HIDE DEF t
  <2>2. t \in Movers /\ t.mode # "Moving" /\ t.last = s.last /\ Kept(s, t)
    BY <2>1 DEF Hold, Movers, Kept
  <2> QED BY <1>0, <1>2, <2>2 DEF t, Commanded
<1>3. CASE command.kind = "move" /\ answer # "refused"
  <2>1. t = [s EXCEPT !.mode = "Moving", !.dest = command.to]
    BY <1>3 DEF TakeCommand
  <2> HIDE DEF t
  <2>2. /\ t \in Movers /\ t.mode = "Moving" /\ t.dest = command.to /\ command.to \in Points
        /\ t.last = s.last /\ Kept(s, t)
    BY <1>3, <2>1 DEF Movers, Kept, Takes
  <2> QED BY <1>0, <1>3, <2>2 DEF t, Commanded, Aim
<1>4. CASE command.kind = "track" /\ answer # "refused"
  <2>1. t = [s EXCEPT !.last = command.to, !.mode = "Holding", !.dest = Nowhere]
    BY <1>4 DEF TakeCommand, Hold, Movers
  <2> HIDE DEF t
  <2>2. /\ t \in Movers /\ t.mode # "Moving" /\ t.last = command.to /\ Kept(s, t)
    BY <1>4, <2>1 DEF Movers, Kept, Takes
  <2> QED BY <1>4, <2>2 DEF t, Commanded
<1>5. command.kind \in Kinds
  BY DEF Takes, Commands
<1> QED BY <1>1, <1>2, <1>3, <1>4, <1>5 DEF Kinds

\* The whole tick: one that returns early leaves the setpoint alone.
LEMMA TickIs ==
  ASSUME NEW s \in Movers, s.mode = "Moving" => s.dest \in Points,
         NEW command, NEW reading, NEW answer, Takes(command, answer)
  PROVE  /\ MotionTick(s, command, reading, answer) \in Movers
         /\ MotionTick(s, command, reading, answer).mode = "Moving"
              => MotionTick(s, command, reading, answer).dest \in Points
         /\ Kept(s, MotionTick(s, command, reading, answer))
         /\ Returns(s, reading) => MotionTick(s, command, reading, answer).last = s.last
         /\ ~Returns(s, reading)
              => Commanded(s, MotionTick(s, command, reading, answer), command, answer)
<1> DEFINE t == MotionTick(s, command, reading, answer)
<1>1. CASE s.mode = "Faulted"
  <2>1. t = s
    BY <1>1 DEF MotionTick
  <2> QED BY <1>1, <2>1 DEF Returns, Kept
<1>2. CASE s.mode # "Faulted" /\ reading = "lost"
  <2>1. t = [s EXCEPT !.mode = "Faulted"]
    BY <1>2 DEF MotionTick, Raised
  <2> HIDE DEF t
  <2>2. t \in Movers /\ t.mode # "Moving" /\ t.last = s.last /\ Kept(s, t)
    BY <2>1 DEF Movers, Kept
  <2> QED BY <1>2, <2>2 DEF t, Returns
<1>3. CASE s.mode # "Faulted" /\ reading = "obstructed"
  <2>1. t = [s EXCEPT !.mode = "Holding", !.dest = Nowhere]
    BY <1>3 DEF MotionTick, Raised, Hold
  <2> HIDE DEF t
  <2>2. t \in Movers /\ t.mode # "Moving" /\ t.last = s.last /\ Kept(s, t)
    BY <2>1 DEF Movers, Kept
  <2> QED BY <1>3, <2>2 DEF t, Returns
<1>4. CASE s.mode # "Faulted" /\ reading \notin {"lost", "obstructed"}
  <2> DEFINE u == [s EXCEPT !.masked = @ \/ reading = "degraded"]
  <2>1. t = TakeCommand(u, command, answer)
    BY <1>4 DEF MotionTick
  <2>2. /\ u \in Movers /\ u.mode = s.mode /\ u.dest = s.dest /\ u.last = s.last
        /\ Kept(s, u)
    BY DEF Movers, Kept
  <2>3. ~Returns(s, reading)
    BY <1>4 DEF Returns
  <2> HIDE DEF u
  <2>4. /\ TakeCommand(u, command, answer) \in Movers
        /\ TakeCommand(u, command, answer).mode = "Moving"
             => TakeCommand(u, command, answer).dest \in Points
        /\ Kept(u, TakeCommand(u, command, answer))
        /\ Commanded(u, TakeCommand(u, command, answer), command, answer)
    BY <2>2, TakenIs
  <2>5. Aim(u) = Aim(s)
    BY <2>2 DEF Aim
  <2> QED BY <2>1, <2>2, <2>3, <2>4, <2>5 DEF Commanded, Kept
<1> QED BY <1>1, <1>2, <1>3, <1>4

-----------------------------------------------------------------------------
(* What the schedule asks for, as the mover and the history hear it.        *)

\* A step the mover leaves out of its machine.
Untouched(s, t) == /\ t.mode = s.mode /\ t.dest = s.dest /\ t.last = s.last
                   /\ t.base = s.base /\ t.armed = s.armed

LEMMA DispatchIs ==
  ASSUME NEW s \in Movers, NEW step \in Steps
  PROVE  /\ Dispatched(s, step) \in Movers
         /\ Untouched(s, Dispatched(s, step))
         /\ Fresh(s, step) \in Places \cup {Nowhere}
         /\ Asks(s, step) => /\ Dispatched(s, step).desired = step
                             /\ Dispatched(s, step).answered = TRUE
                             /\ Fresh(s, step) = Place(step)
         /\ ~Asks(s, step) => Dispatched(s, step) = s /\ Fresh(s, step) = Nowhere
<1>1. CASE Asks(s, step)
  <2> DEFINE t == Dispatched(s, step)
  <2>1. t = [s EXCEPT !.desired = step, !.answered = TRUE] /\ Fresh(s, step) = Place(step)
    BY <1>1 DEF Dispatched, Fresh
  <2>2. step \in Ids
    BY <1>1 DEF Asks
  <2> HIDE DEF t
  <2>3. t \in Movers /\ Untouched(s, t) /\ t.desired = step /\ t.answered = TRUE
    BY <2>1, <2>2 DEF Movers, Untouched
  <2> QED BY <1>1, <2>1, <2>3, PlaceIs DEF t
<1>2. CASE ~Asks(s, step)
  <2>1. Dispatched(s, step) = s /\ Fresh(s, step) = Nowhere
    BY <1>2 DEF Dispatched, Fresh
  <2> QED BY <1>2, <2>1 DEF Untouched
<1> QED BY <1>1, <1>2

\* The history hears what the mover hears.
LEMMA HeardIs ==
  ASSUME NEW s \in Movers, NEW h \in Histories, Agrees(s, h), NEW step \in Steps,
         NEW stops \in BOOLEAN
  PROVE  /\ Heard(h, step, stops) \in Histories
         /\ Agrees(Dispatched(s, step), Heard(h, step, stops))
         /\ Heard(h, step, stops).leapt = h.leapt
         /\ stops => Heard(h, step, stops).sent = Nowhere
         /\ ~stops /\ Fresh(s, step) # Nowhere
              => /\ Heard(h, step, stops).sent = Fresh(s, step)
                 /\ Place(Dispatched(s, step).desired) = Fresh(s, step)
         /\ ~stops /\ Fresh(s, step) = Nowhere /\ Heard(h, step, stops).sent # Nowhere
              => /\ Heard(h, step, stops).sent = h.sent
                 /\ Dispatched(s, step).desired = s.desired
<1> DEFINE asked == step \in Ids /\ (h.news \/ step # h.prev)
           g == Heard(h, step, stops)
<1>1. asked <=> Asks(s, step)
  BY DEF Asks, Agrees
<1>2. g = [h EXCEPT !.sent = IF stops THEN Nowhere ELSE IF asked THEN Place(step) ELSE h.sent,
                    !.prev = IF step \in Ids THEN step ELSE h.prev,
                    !.news = h.news /\ ~asked]
  BY DEF Heard, Histories
<1>3. Place(step) \in Places \cup {Nowhere} /\ asked \in BOOLEAN
  BY PlaceIs
<1>4. (h.news /\ ~asked) \in BOOLEAN
  OBVIOUS
<1> HIDE DEF g, asked
<1>5. /\ g \in Histories /\ g.leapt = h.leapt
      /\ g.sent = IF stops THEN Nowhere ELSE IF asked THEN Place(step) ELSE h.sent
      /\ g.prev = IF step \in Ids THEN step ELSE h.prev
      /\ g.news = (h.news /\ ~asked)
  BY <1>2, <1>3, <1>4 DEF Histories
<1>6. Agrees(Dispatched(s, step), g)
  <2>1. CASE asked
    <3>1. step \in Ids
      BY <2>1 DEF asked
    <3> QED BY <1>1, <1>5, <2>1, <3>1, DispatchIs DEF Agrees
  <2>2. CASE ~asked
    <3>1. g.prev = h.prev
      BY <1>5, <2>2 DEF asked
    <3> QED BY <1>1, <1>5, <2>2, <3>1, DispatchIs DEF Agrees
  <2> QED BY <2>1, <2>2
<1> QED BY <1>1, <1>5, <1>6, DispatchIs DEF g

\* What an execution publishes is what the sample taken last left.
LEMMA GoalIs ==
  ASSUME NEW t \in Movers
  PROVE  /\ Goal(t) \in Movers /\ Published(Goal(t)) /\ Untouched(t, Goal(t))
         /\ Goal(t).desired = t.desired /\ Goal(t).answered = t.answered
<1> DEFINE u == Goal(t)
           goal == IF t.mode = "Faulted" THEN Nowhere ELSE [at |-> t.last, masked |-> t.masked]
<1>1. u = [t EXCEPT !.goal = goal]
  BY DEF Goal
<1>2. goal \in [at : Points, masked : BOOLEAN] \cup {Nowhere}
  BY DEF Movers
<1>3. goal # Nowhere => t.mode # "Faulted" /\ goal.at = t.last /\ goal.masked = t.masked
  OBVIOUS
<1> HIDE DEF u, goal
<1>4. /\ u \in Movers /\ Untouched(t, u) /\ u.desired = t.desired /\ u.answered = t.answered
      /\ u.goal = goal /\ u.masked = t.masked
  BY <1>1, <1>2 DEF Movers, Untouched
<1> QED BY <1>3, <1>4 DEF u, Published, Untouched

-----------------------------------------------------------------------------
(* One sample.                                                              *)

\* No move is longer than the reach it is given, and the history says so.
LEMMA LeapsIs ==
  ASSUME NEW g \in Histories, ~g.leapt, NEW from \in Points, NEW to \in Points,
         NEW reach \in Int, Abs(to - from) <= reach
  PROVE  Leaps(g, from, to, reach) = g
<1>1. ~(Abs(to - from) > reach)
  <2>1. Abs(to - from) \in Int
    BY AbsIs, Line
  <2> QED BY <2>1
<1> QED BY <1>1 DEF Leaps, Histories

\* What an unridden sample asks of the tick.
LEMMA CommandIs ==
  ASSUME NEW s \in Movers, s.mode = "Moving" => s.dest \in Points,
         NEW fresh \in Places \cup {Nowhere}, NEW keep \in BOOLEAN, NEW answer
  PROVE  /\ s.base = Nowhere => /\ Takes(Posture(s, fresh, keep), answer)
                                /\ Posture(s, fresh, keep).kind # "track"
         /\ s.base # Nowhere => /\ Takes(HandBack(s, fresh, keep), answer)
                                /\ HandBack(s, fresh, keep).kind # "track"
<1>1. Takes(NoCommand, answer) /\ Takes(HoldCommand, answer)
  BY DEF NoCommand, HoldCommand, Takes, Commands, Kinds
<1>2. \A p \in Points : Takes(MoveTo(p), answer)
  BY Line DEF MoveTo, Takes, Commands, Kinds
<1>3. \A p : MoveTo(p).kind = "move"
  BY DEF MoveTo
<1>4. NoCommand.kind = "none" /\ HoldCommand.kind = "hold"
  BY DEF NoCommand, HoldCommand
<1>5. fresh # Nowhere => fresh \in Points
  BY Line
<1>6. Place(s.desired) # Nowhere => Place(s.desired) \in Points
  BY Line, PlaceIs
<1>7. s.base # Nowhere => s.base.at \in Points
  BY DEF Movers, Bases
<1>8. Takes(Posture(s, fresh, keep), answer) /\ Posture(s, fresh, keep).kind # "track"
  BY <1>1, <1>2, <1>3, <1>4, <1>5 DEF Posture
<1>9. ASSUME s.base # Nowhere
      PROVE  Takes(HandBack(s, fresh, keep), answer) /\ HandBack(s, fresh, keep).kind # "track"
  BY <1>1, <1>2, <1>3, <1>4, <1>5, <1>6, <1>7, <1>9 DEF HandBack
<1> QED BY <1>8, <1>9

\* Where no window is, the tick has the base, and is sent where the schedule says.
LEMMA UnriddenIs ==
  ASSUME NEW s \in Movers, s.mode = "Moving" => s.dest \in Points,
         NEW fresh \in Places \cup {Nowhere}, NEW keep \in BOOLEAN, NEW reading, NEW answer
  PROVE  /\ Unridden(s, fresh, keep, reading, answer) \in Movers
         /\ Unridden(s, fresh, keep, reading, answer).mode = "Moving"
              => Unridden(s, fresh, keep, reading, answer).dest \in Points
         /\ Unridden(s, fresh, keep, reading, answer).base = Nowhere
         /\ Unridden(s, fresh, keep, reading, answer).desired = s.desired
         /\ Unridden(s, fresh, keep, reading, answer).answered = s.answered
         /\ Unridden(s, fresh, keep, reading, answer).armed = s.armed
         /\ Abs(Unridden(s, fresh, keep, reading, answer).last - s.last) <= 1
         /\ ~keep /\ answer = "granted" /\ ~Returns(s, reading)
              => /\ fresh # Nowhere => Aim(Unridden(s, fresh, keep, reading, answer)) = fresh
                 /\ fresh = Nowhere /\ s.base = Nowhere
                      => Aim(Unridden(s, fresh, keep, reading, answer)) = Aim(s)
                 /\ fresh = Nowhere /\ s.base # Nowhere /\ Place(s.desired) # Nowhere
                      => Aim(Unridden(s, fresh, keep, reading, answer)) = Place(s.desired)
<1> DEFINE command == IF s.base = Nowhere THEN Posture(s, fresh, keep) ELSE HandBack(s, fresh, keep)
           t == MotionTick(s, command, reading, answer)
           u == Unridden(s, fresh, keep, reading, answer)
<1>1. u = [t EXCEPT !.base = Nowhere]
  BY DEF Unridden
<1>2. Takes(command, answer) /\ command.kind # "track"
  BY CommandIs
<1>3. ~keep => /\ fresh # Nowhere => command = MoveTo(fresh)
               /\ fresh = Nowhere /\ s.base = Nowhere => command = NoCommand
               /\ fresh = Nowhere /\ s.base # Nowhere /\ Place(s.desired) # Nowhere
                    => command = MoveTo(Place(s.desired))
  BY DEF Posture, HandBack
<1>4. /\ \A p : MoveTo(p).kind = "move" /\ MoveTo(p).to = p
      /\ NoCommand.kind = "none"
  BY DEF MoveTo, NoCommand
<1> HIDE DEF command
<1>5. /\ t \in Movers /\ (t.mode = "Moving" => t.dest \in Points) /\ Kept(s, t)
      /\ Returns(s, reading) => t.last = s.last
      /\ ~Returns(s, reading) => Commanded(s, t, command, answer)
  BY <1>2, TickIs
<1> HIDE DEF t, u
<1>6. /\ u \in Movers /\ u.mode = t.mode /\ u.dest = t.dest /\ u.last = t.last /\ u.base = Nowhere
      /\ u.desired = t.desired /\ u.answered = t.answered /\ u.armed = t.armed
  BY <1>1, <1>5 DEF Movers
<1>7. Aim(u) = Aim(t)
  BY <1>6 DEF Aim
<1>8. Abs(t.last - s.last) <= 1
  <2>1. CASE Returns(s, reading)
    <3>1. s.last \in Int /\ t.last = s.last
      BY <1>5, <2>1, Line DEF Movers
    <3> QED BY <3>1 DEF Abs
  <2>2. CASE ~Returns(s, reading)
    BY <1>2, <1>5, <2>2 DEF Commanded
  <2> QED BY <2>1, <2>2
<1>9. ASSUME ~keep, answer = "granted", ~Returns(s, reading)
      PROVE  /\ fresh # Nowhere => Aim(u) = fresh
             /\ fresh = Nowhere /\ s.base = Nowhere => Aim(u) = Aim(s)
             /\ fresh = Nowhere /\ s.base # Nowhere /\ Place(s.desired) # Nowhere
                  => Aim(u) = Place(s.desired)
  BY <1>3, <1>4, <1>5, <1>7, <1>9 DEF Commanded
<1> QED BY <1>5, <1>6, <1>8, <1>9 DEF u, Kept

\* A sample no window covers.
LEMMA ClearIsSound ==
  ASSUME NEW s, NEW h, Started(s, h), s.armed, NEW step \in Steps, NEW reading, NEW answer,
         NEW next,
         next = Goal(Unridden(Dispatched(s, step), Fresh(s, step), step = "keep", reading, answer))
  PROVE  Sound(next, WatchedClear(h, s, next, step, reading, answer))
<1> DEFINE a == Dispatched(s, step)
           fresh == Fresh(s, step)
           keep == step = "keep"
           stops == step = "keep" \/ Returns(s, reading) \/ answer # "granted"
           g == Heard(h, step, stops)
           t == Unridden(a, fresh, keep, reading, answer)
           heard == [g EXCEPT !.adrift = FALSE, !.clip = 0]
<1>1. s \in Movers /\ h \in Histories /\ (s.mode = "Moving" => s.dest \in Points) /\ ~h.leapt
  BY DEF Started, Typed, Tied
<1>2. a \in Movers /\ Untouched(s, a) /\ fresh \in Places \cup {Nowhere}
  BY <1>1, DispatchIs
<1>3. stops \in BOOLEAN /\ keep \in BOOLEAN
  BY DEF Returns
<1>4. /\ g \in Histories /\ Agrees(a, g) /\ ~g.leapt
      /\ stops => g.sent = Nowhere
      /\ ~stops /\ fresh # Nowhere => g.sent = fresh /\ Place(a.desired) = fresh
      /\ ~stops /\ fresh = Nowhere /\ g.sent # Nowhere
           => g.sent = h.sent /\ a.desired = s.desired
  <2>1. Agrees(s, h)
    BY DEF Started
  <2> HIDE DEF stops
  <2> QED BY <1>1, <1>3, <2>1, HeardIs
<1>5. Aim(a) = Aim(s) /\ (a.mode = "Moving" => a.dest \in Points) /\ a.last = s.last
      /\ a.base = s.base /\ a.armed = TRUE /\ (Returns(a, reading) <=> Returns(s, reading))
  BY <1>1, <1>2 DEF Untouched, Aim, Returns, Movers
<1>6. next = Goal(t) /\ WatchedClear(h, s, next, step, reading, answer)
                          = Leaps(heard, s.last, next.last, 1)
  BY DEF WatchedClear
<1>7. ~stops => ~keep /\ answer = "granted" /\ ~Returns(s, reading)
  OBVIOUS
<1> HIDE DEF a, fresh, keep, g, stops
<1>8. /\ t \in Movers /\ (t.mode = "Moving" => t.dest \in Points) /\ t.base = Nowhere
      /\ t.desired = a.desired /\ t.answered = a.answered /\ t.armed = TRUE
      /\ Abs(t.last - s.last) <= 1
      /\ ~stops => /\ fresh # Nowhere => Aim(t) = fresh
                   /\ fresh = Nowhere /\ s.base = Nowhere => Aim(t) = Aim(s)
                   /\ fresh = Nowhere /\ s.base # Nowhere /\ Place(a.desired) # Nowhere
                        => Aim(t) = Place(a.desired)
  BY <1>2, <1>3, <1>5, <1>7, UnriddenIs
<1> HIDE DEF t
<1>9. /\ next \in Movers /\ Published(next) /\ Untouched(t, next)
      /\ next.desired = a.desired /\ next.answered = a.answered
  BY <1>6, <1>8, GoalIs
<1>10. /\ heard \in Histories /\ ~heard.leapt /\ ~heard.adrift /\ heard.sent = g.sent
       /\ heard.prev = g.prev /\ heard.news = g.news
  <2>1. 0 \in 0..Amp /\ FALSE \in BOOLEAN
    BY Line
  <2>2. heard \in Histories
    BY <1>4, <2>1 DEF Histories
  <2>3. /\ heard.leapt = g.leapt /\ heard.adrift = FALSE /\ heard.sent = g.sent
        /\ heard.prev = g.prev /\ heard.news = g.news
    BY <1>4 DEF Histories
  <2> QED BY <1>4, <2>2, <2>3
<1> HIDE DEF heard
<1>11. Leaps(heard, s.last, next.last, 1) = heard
  BY <1>1, <1>8, <1>9, <1>10, LeapsIs DEF Movers, Untouched
<1>12. Aim(next) = Aim(t) /\ next.base = Nowhere /\ (next.mode = "Moving" => next.dest \in Points)
  BY <1>8, <1>9 DEF Untouched, Aim
<1>13. Agrees(next, heard)
  BY <1>4, <1>9, <1>10 DEF Agrees
<1>14. ASSUME heard.sent # Nowhere
       PROVE  heard.sent = Place(next.desired) /\ heard.sent = HeadingOf(next)
  <2>1. ~stops /\ g.sent # Nowhere
    BY <1>4, <1>10, <1>14
  <2>2. HeadingOf(next) = Aim(t)
    BY <1>12 DEF HeadingOf
  <2>3. CASE fresh # Nowhere
    BY <1>4, <1>8, <1>9, <1>10, <2>1, <2>2, <2>3
  <2>4. CASE fresh = Nowhere
    <3>1. h.sent = Place(s.desired) /\ h.sent = HeadingOf(s) /\ g.sent = h.sent
          /\ a.desired = s.desired
      BY <1>4, <2>1, <2>4 DEF Started, Going
    <3>2. heard.sent = h.sent
      BY <1>10, <3>1
    <3>3. next.desired = s.desired
      BY <1>8, <1>9, <3>1
    <3>4. Aim(t) = HeadingOf(s)
      <4>1. CASE s.base = Nowhere
        BY <1>8, <2>1, <2>4, <4>1 DEF HeadingOf
      <4>2. CASE s.base # Nowhere
        BY <1>8, <2>1, <2>4, <3>1, <4>2
      <4> QED BY <4>1, <4>2
    <3> QED BY <2>2, <3>1, <3>2, <3>3, <3>4
  <2> QED BY <2>3, <2>4
<1> QED BY <1>6, <1>9, <1>10, <1>11, <1>12, <1>13, <1>14
        DEF Sound, Started, Typed, Going, Tied

\* A base taken over or anchored anew leaves the stream where it stands, one
\* carried on goes a point, and one planned goes where it is sent.
LEMMA RiddenIs ==
  ASSUME NEW s \in Movers, NEW fresh \in Places \cup {Nowhere}, NEW window \in Windows,
         window.vacated => s.base # Nowhere, NEW answer,
         Ridden(s, fresh, window, answer).at \in Points
  PROVE  /\ Ridden(s, fresh, window, answer) \in Bases
         /\ s.base = Nowhere => Ridden(s, fresh, window, answer).at = s.last
         /\ window.vacated => Ridden(s, fresh, window, answer).at = Uncomposed(s, window)
         /\ s.base # Nowhere /\ ~window.vacated
              => Abs(Ridden(s, fresh, window, answer).at - s.base.at) <= 1
         /\ answer # "unplanned"
              => /\ fresh # Nowhere => Ridden(s, fresh, window, answer).to = fresh
                 /\ fresh = Nowhere /\ (s.base = Nowhere \/ window.vacated)
                      /\ Place(s.desired) # Nowhere
                      => Ridden(s, fresh, window, answer).to = Place(s.desired)
                 /\ fresh = Nowhere /\ s.base # Nowhere /\ ~window.vacated
                      => Ridden(s, fresh, window, answer).to = s.base.to
<1> DEFINE b == Ridden(s, fresh, window, answer)
           anchored == Anchored(s, window)
           to == IF fresh # Nowhere THEN fresh ELSE Resumes(s, window)
<1>0. /\ Low \in Int /\ High \in Int /\ Amp \in Nat /\ Points \subseteq Int /\ Nowhere \notin Points
      /\ Places \subseteq Points
  BY Line
<1>1. /\ s.last \in Points /\ (s.base # Nowhere => s.base \in Bases)
      /\ window.clip \in Int /\ window.vacated \in BOOLEAN
  BY <1>0 DEF Movers, Windows
<1>2. \A n \in Int : Toward(n, n) = n
  BY DEF Toward
<1>3. Place(s.desired) \in Places \cup {Nowhere}
  BY PlaceIs
<1>4. Held(s.last) \in [at : Int, to : Int] /\ Held(s.last).at = s.last /\ Held(s.last).to = s.last
  BY <1>0, <1>1 DEF Held
<1>5. b = IF to = Nowhere \/ answer = "unplanned"
          THEN [anchored EXCEPT !.at = Toward(anchored.at, anchored.to)]
          ELSE [anchored EXCEPT !.to = to]
  BY DEF Ridden, Stepped
<1>6. CASE s.base = Nowhere
  <2>1. anchored = Held(s.last) /\ ~window.vacated
    BY <1>6 DEF Anchored
  <2>2. to = (IF fresh # Nowhere THEN fresh
              ELSE IF Place(s.desired) # Nowhere THEN Place(s.desired) ELSE s.last)
    BY <1>6 DEF Resumes
  <2>3. to \in Points /\ to # Nowhere
    BY <1>0, <1>1, <1>3, <2>2
  <2> HIDE DEF anchored, to, b
  <2>4. /\ b.at = s.last /\ b \in Bases
        /\ answer # "unplanned" => b.to = to
    <3>1. CASE answer = "unplanned"
      <4>1. b = [at |-> s.last, to |-> s.last]
        BY <1>0, <1>1, <1>2, <1>5, <2>1, <3>1 DEF Held
      <4> QED BY <1>1, <3>1, <4>1 DEF Bases
    <3>2. CASE answer # "unplanned"
      <4>1. b = [at |-> s.last, to |-> to]
        BY <1>5, <2>1, <2>3, <3>2 DEF Held
      <4> QED BY <1>1, <2>3, <3>2, <4>1 DEF Bases
    <3> QED BY <3>1, <3>2
  <2> QED BY <1>6, <2>1, <2>2, <2>4 DEF b
<1>7. CASE s.base # Nowhere /\ window.vacated
  <2>1. anchored = Held(Uncomposed(s, window))
    BY <1>7 DEF Anchored
  <2>2. to = (IF fresh # Nowhere THEN fresh
              ELSE IF Place(s.desired) # Nowhere THEN Place(s.desired) ELSE s.base.to)
    BY <1>7 DEF Resumes
  <2>3. to \in Points /\ to # Nowhere
    BY <1>0, <1>1, <1>3, <1>7, <2>2 DEF Bases
  <2>4. b.at \in Points
    OBVIOUS
  <2> HIDE DEF anchored, to, b
  <2> DEFINE n == Uncomposed(s, window)
  <2>5. n \in Int
    <3>1. s.last \in Int /\ window.clip \in Int /\ s.base.at \in Int
      BY <1>0, <1>1, <1>7 DEF Bases
    <3> QED BY <3>1 DEF Uncomposed
  <2> HIDE DEF n
  <2>6. /\ b.at = n /\ b \in Bases
        /\ answer # "unplanned" => b.to = to
    <3>1. CASE answer = "unplanned"
      <4>1. b = [at |-> n, to |-> n]
        BY <1>2, <1>5, <2>1, <2>5, <3>1 DEF Held, n
      <4> QED BY <2>4, <3>1, <4>1 DEF Bases
    <3>2. CASE answer # "unplanned"
      <4>1. b = [at |-> n, to |-> to]
        BY <1>5, <2>1, <2>3, <3>2 DEF Held, n
      <4> QED BY <2>3, <2>4, <3>2, <4>1 DEF Bases
    <3> QED BY <3>1, <3>2
  <2> QED BY <1>7, <2>2, <2>6 DEF b, n
<1>8. CASE s.base # Nowhere /\ ~window.vacated
  <2>1. anchored = s.base /\ s.base \in Bases
    BY <1>1, <1>8 DEF Anchored
  <2>2. to = (IF fresh # Nowhere THEN fresh ELSE Nowhere)
    BY <1>8 DEF Resumes
  <2>3. fresh # Nowhere => to \in Points
    BY <1>0, <2>2
  <2>4. s.base.at \in Points /\ s.base.to \in Points
    BY <2>1 DEF Bases
  <2> DEFINE on == Toward(s.base.at, s.base.to)
  <2>5. on \in Points /\ Abs(on - s.base.at) <= 1 /\ Abs(s.base.at - s.base.at) <= 1
    <3>0. s.base.at \in Int
      BY <1>0, <2>4
    <3>1. Abs(s.base.at - s.base.at) <= 1
      BY <3>0 DEF Abs
    <3> QED BY <2>4, <3>1, TowardIs
  <2> HIDE DEF anchored, to, b, on
  <2>6. /\ b \in Bases /\ Abs(b.at - s.base.at) <= 1
        /\ answer # "unplanned" => b.to = IF fresh # Nowhere THEN to ELSE s.base.to
    <3>1. CASE to = Nowhere \/ answer = "unplanned"
      <4>1. b = [at |-> on, to |-> s.base.to]
        BY <1>5, <2>1, <3>1 DEF Bases, on
      <4> QED BY <1>0, <2>2, <2>3, <2>4, <2>5, <3>1, <4>1 DEF Bases
    <3>2. CASE to # Nowhere /\ answer # "unplanned"
      <4>1. b = [at |-> s.base.at, to |-> to] /\ fresh # Nowhere
        BY <1>5, <2>1, <2>2, <3>2 DEF Bases
      <4> QED BY <2>3, <2>4, <2>5, <3>2, <4>1 DEF Bases
    <3> QED BY <3>1, <3>2
  <2> QED BY <1>8, <2>2, <2>6 DEF b
<1> QED BY <1>1, <1>6, <1>7, <1>8

\* A clip adds a whole amount, and none that is negative.
LEMMA ClipIs == \A n \in 0..Amp : n \in Int /\ n >= 0
BY Line

LEMMA WindowIs ==
  ASSUME NEW window \in Windows
  PROVE  /\ window.clip \in 0..Amp /\ window.clip \in Int /\ window.clip >= 0
         /\ window.vacated \in BOOLEAN /\ window.plays \in BOOLEAN
         /\ window.posed \in BOOLEAN
<1>1. window \in [clip : 0..Amp, plays : BOOLEAN, vacated : BOOLEAN, posed : BOOLEAN]
  BY DEF Windows
<1> QED BY <1>1, ClipIs

\* What a composed setpoint leaves, and what a returned or refused one does.
LEMMA OverlaidIs ==
  ASSUME NEW s \in Movers, s.mode = "Moving" => s.dest \in Points,
         NEW base \in Bases, NEW window \in Windows, NEW reading, NEW answer,
         answer = "refused" \/ base.at + window.clip \in Points
  PROVE  /\ Overlaid(s, base, window, reading, answer) \in Movers
         /\ Overlaid(s, base, window, reading, answer).mode = "Moving"
              => Overlaid(s, base, window, reading, answer).dest \in Points
         /\ Overlaid(s, base, window, reading, answer).base = base
         /\ Overlaid(s, base, window, reading, answer).desired = s.desired
         /\ Overlaid(s, base, window, reading, answer).answered = s.answered
         /\ Overlaid(s, base, window, reading, answer).armed = s.armed
         /\ Returns(s, reading) \/ answer = "refused"
              => Abs(Overlaid(s, base, window, reading, answer).last - s.last) <= 1
         /\ ~(Returns(s, reading) \/ answer = "refused")
              => Overlaid(s, base, window, reading, answer).last = base.at + window.clip
<1> DEFINE command == Track(base.at + window.clip)
           t == MotionTick(s, command, reading, answer)
           latched == window.plays /\ answer = "refused" /\ ~Returns(s, reading)
           u == Overlaid(s, base, window, reading, answer)
<1>1. u = [t EXCEPT !.base = base, !.latched = latched]
  BY DEF Overlaid
<1>2. Takes(command, answer) /\ command.kind = "track" /\ command.to = base.at + window.clip
  <2>1. base.at \in Int /\ window.clip \in Int
    BY Line, WindowIs DEF Bases
  <2>2. base.at + window.clip \in Int
    BY <2>1
  <2> QED BY <2>2 DEF Track, Takes, Commands, Kinds
<1>3. latched \in BOOLEAN
  <2>1. window.plays \in BOOLEAN
    BY WindowIs
  <2> QED BY <2>1
<1> HIDE DEF command, latched
<1>4. /\ t \in Movers /\ (t.mode = "Moving" => t.dest \in Points) /\ Kept(s, t)
      /\ Returns(s, reading) => t.last = s.last
      /\ ~Returns(s, reading) => Commanded(s, t, command, answer)
  BY <1>2, TickIs
<1> HIDE DEF t, u
<1>5. /\ u \in Movers /\ u.mode = t.mode /\ u.dest = t.dest /\ u.last = t.last /\ u.base = base
      /\ u.desired = t.desired /\ u.answered = t.answered /\ u.armed = t.armed
  BY <1>1, <1>3, <1>4 DEF Movers
<1>6. ASSUME Returns(s, reading) \/ answer = "refused"
      PROVE  Abs(t.last - s.last) <= 1
  <2>1. CASE Returns(s, reading)
    <3>1. s.last \in Int /\ t.last = s.last
      BY <1>4, <2>1, Line DEF Movers
    <3> QED BY <3>1 DEF Abs
  <2>2. CASE ~Returns(s, reading) /\ answer = "refused"
    BY <1>4, <2>2 DEF Commanded
  <2> QED BY <1>6, <2>1, <2>2
<1>7. ~(Returns(s, reading) \/ answer = "refused") => t.last = base.at + window.clip
  BY <1>2, <1>4 DEF Commanded
<1> QED BY <1>4, <1>5, <1>6, <1>7 DEF u, Kept

\* A sample a window covers.
LEMMA RiddenIsSound ==
  ASSUME NEW s, NEW h, Started(s, h), s.armed, NEW step \in Steps, NEW window \in Windows,
         window.vacated => s.base # Nowhere, NEW reading, NEW answer, NEW base, NEW next,
         base = Ridden(Dispatched(s, step), Fresh(s, step), window, answer),
         base.at \in Points, answer = "refused" \/ base.at + window.clip \in Points,
         next = Goal(Overlaid(Dispatched(s, step), base, window, reading, answer))
  PROVE  Sound(next, WatchedRidden(h, s, next, step, window, reading, answer))
<1> DEFINE a == Dispatched(s, step)
           fresh == Fresh(s, step)
           stops == answer = "unplanned"
           g == Heard(h, step, stops)
           unheard == Returns(s, reading) \/ answer = "refused"
           t == Overlaid(a, base, window, reading, answer)
           heard == [g EXCEPT !.adrift = unheard, !.clip = window.clip]
           after == WatchedRidden(h, s, next, step, window, reading, answer)
<1>1. s \in Movers /\ h \in Histories /\ (s.mode = "Moving" => s.dest \in Points) /\ ~h.leapt
  BY DEF Started, Typed, Tied
<1>2. a \in Movers /\ Untouched(s, a) /\ fresh \in Places \cup {Nowhere}
  BY <1>1, DispatchIs
<1>3. stops \in BOOLEAN /\ unheard \in BOOLEAN
  BY DEF Returns
<1>4. /\ g \in Histories /\ Agrees(a, g) /\ ~g.leapt
      /\ stops => g.sent = Nowhere
      /\ ~stops /\ fresh # Nowhere => g.sent = fresh /\ Place(a.desired) = fresh
      /\ ~stops /\ fresh = Nowhere /\ g.sent # Nowhere
           => g.sent = h.sent /\ a.desired = s.desired
  <2>1. Agrees(s, h)
    BY DEF Started
  <2> HIDE DEF stops
  <2> QED BY <1>1, <1>3, <2>1, HeardIs
<1>5. (a.mode = "Moving" => a.dest \in Points) /\ a.last = s.last
      /\ a.base = s.base /\ a.armed = TRUE /\ (Returns(a, reading) <=> Returns(s, reading))
  BY <1>1, <1>2 DEF Untouched, Returns, Movers
<1>6. next = Goal(t) /\ base = Ridden(a, fresh, window, answer)
  OBVIOUS
<1>7. /\ window.clip \in 0..Amp /\ window.clip \in Int /\ window.vacated \in BOOLEAN
      /\ s.last \in Int /\ s.last \in Points /\ h.clip \in Int /\ base.at \in Int
      /\ s.base # Nowhere => s.base.at \in Int
  <2>1. window.clip \in 0..Amp /\ window.clip \in Int /\ window.vacated \in BOOLEAN
    BY WindowIs
  <2>2. s.last \in Int /\ s.last \in Points /\ base.at \in Int
    BY <1>1, Line DEF Movers
  <2>3. h.clip \in Int
    BY <1>1, ClipIs DEF Histories
  <2>4. s.base # Nowhere => s.base.at \in Int
    BY <1>1, Line DEF Movers, Bases
  <2> QED BY <2>1, <2>2, <2>3, <2>4
<1> HIDE DEF a, fresh, g
<1>18. Uncomposed(a, window) = Uncomposed(s, window)
  BY <1>5 DEF Uncomposed
<1>8. /\ base \in Bases
      /\ s.base = Nowhere => base.at = s.last
      /\ window.vacated => base.at = Uncomposed(s, window)
      /\ s.base # Nowhere /\ ~window.vacated => Abs(base.at - s.base.at) <= 1
      /\ ~stops
           => /\ fresh # Nowhere => base.to = fresh
              /\ fresh = Nowhere /\ (s.base = Nowhere \/ window.vacated)
                   /\ Place(a.desired) # Nowhere => base.to = Place(a.desired)
              /\ fresh = Nowhere /\ s.base # Nowhere /\ ~window.vacated
                   => base.to = s.base.to
  BY <1>2, <1>5, <1>6, <1>18, RiddenIs
<1>9. /\ t \in Movers /\ (t.mode = "Moving" => t.dest \in Points) /\ t.base = base
      /\ t.desired = a.desired /\ t.answered = a.answered /\ t.armed = TRUE
      /\ unheard => Abs(t.last - s.last) <= 1
      /\ ~unheard => t.last = base.at + window.clip
  BY <1>2, <1>5, <1>8, OverlaidIs
<1> HIDE DEF t
<1>10. /\ next \in Movers /\ Published(next) /\ Untouched(t, next)
       /\ next.desired = a.desired /\ next.answered = a.answered
  BY <1>6, <1>9, GoalIs
<1>11. /\ heard \in Histories /\ ~heard.leapt /\ heard.adrift = unheard /\ heard.sent = g.sent
       /\ heard.prev = g.prev /\ heard.news = g.news /\ heard.clip = window.clip
  <2> HIDE DEF unheard
  <2>1. heard \in Histories
    BY <1>3, <1>4, <1>7 DEF Histories
  <2>2. /\ heard.leapt = g.leapt /\ heard.adrift = unheard /\ heard.sent = g.sent
        /\ heard.prev = g.prev /\ heard.news = g.news /\ heard.clip = window.clip
    BY <1>4 DEF Histories
  <2> QED BY <1>4, <2>1, <2>2
<1>12. next.last = t.last /\ next.last \in Points /\ next.last \in Int
  BY <1>10, Line DEF Untouched, Movers
<1>13. after = heard
  <2>1. CASE unheard
    <3>1. after = Leaps(heard, s.last, next.last, 1)
      BY <1>3, <2>1 DEF WatchedRidden, g
    <3> HIDE DEF heard, after
    <3> QED BY <1>7, <1>9, <1>11, <1>12, <2>1, <3>1, LeapsIs
  <2>2. CASE ~unheard /\ s.base = Nowhere
    <3>1. after = Leaps(heard, s.last, next.last, window.clip)
      BY <1>3, <2>2 DEF WatchedRidden, g
    <3>2. next.last = s.last + window.clip
      BY <1>8, <1>9, <1>12, <2>2
    <3>3. Abs(next.last - s.last) <= window.clip
      <4>1. window.clip >= 0 /\ window.clip \in Int /\ s.last \in Int
        BY <1>7, WindowIs
      <4> QED BY <3>2, <4>1 DEF Abs
    <3> HIDE DEF heard, after
    <3> QED BY <1>7, <1>11, <1>12, <3>1, <3>3, LeapsIs
  <2>3. CASE ~unheard /\ s.base # Nowhere /\ window.vacated /\ ~window.posed
    <3>1. after = Leaps(heard, s.last, next.last, 0)
      BY <1>3, <2>3 DEF WatchedRidden, g
    <3>2. base.at = s.last - window.clip /\ next.last = base.at + window.clip
      BY <1>8, <1>9, <1>12, <2>3 DEF Uncomposed
    <3>3. Abs(next.last - s.last) <= 0
      <4>1. window.clip \in Int /\ s.last \in Int
        BY <1>7
      <4> QED BY <3>2, <4>1 DEF Abs
    <3> HIDE DEF heard, after
    <3> QED BY <1>7, <1>11, <1>12, <3>1, <3>3, LeapsIs
  <2>4. CASE ~unheard /\ s.base # Nowhere /\ (window.vacated => window.posed) /\ ~h.adrift
    <3> DEFINE own == IF window.vacated THEN 0 ELSE 1
               reach == own + Abs(window.clip - h.clip)
    <3>1. after = Leaps(heard, s.last, next.last, reach)
      BY <1>3, <2>4 DEF WatchedRidden, g
    <3>2. /\ s.last = s.base.at + h.clip /\ next.last = base.at + window.clip
          /\ s.base.at \in Int /\ base.at \in Int /\ window.clip \in Int /\ h.clip \in Int
      BY <1>7, <1>9, <1>12, <2>4 DEF Started, Tied
    <3>3. Abs(base.at - s.base.at) <= own
      <4>1. CASE window.vacated
        <5>1. base.at = s.base.at
          BY <1>8, <2>4, <4>1 DEF Uncomposed
        <5> QED BY <3>2, <4>1, <5>1 DEF Abs
      <4>2. CASE ~window.vacated
        BY <1>8, <2>4, <4>2
      <4> QED BY <4>1, <4>2
    <3>4. own \in Int /\ Abs(window.clip - h.clip) \in Nat
      <4>1. window.clip - h.clip \in Int
        BY <3>2
      <4> QED BY <4>1, AbsIs
    <3> HIDE DEF own, heard, after
    <3>5. Abs(next.last - s.last) <= reach
      BY <3>2, <3>3, <3>4 DEF Abs
    <3>6. reach \in Int
      BY <3>4
    <3> HIDE DEF reach
    <3> QED BY <1>7, <1>11, <1>12, <3>1, <3>5, <3>6, LeapsIs
  <2>5. CASE ~unheard /\ s.base # Nowhere /\ (window.vacated => window.posed) /\ h.adrift
    BY <1>3, <2>5 DEF WatchedRidden, g
  <2> QED BY <2>1, <2>2, <2>3, <2>4, <2>5
<1>14. next.base = base /\ base # Nowhere /\ next.armed = TRUE
       /\ (next.mode = "Moving" => next.dest \in Points)
  BY <1>8, <1>9, <1>10, BaseIs DEF Untouched
<1>15. ASSUME heard.sent # Nowhere
       PROVE  heard.sent = Place(next.desired) /\ heard.sent = HeadingOf(next)
  <2>1. ~stops /\ g.sent # Nowhere
    BY <1>4, <1>11, <1>15
  <2>2. HeadingOf(next) = base.to
    BY <1>14 DEF HeadingOf
  <2> HIDE DEF stops, heard
  <2>3. CASE fresh # Nowhere
    BY <1>4, <1>8, <1>10, <1>11, <2>1, <2>2, <2>3
  <2>4. CASE fresh = Nowhere
    <3>1. h.sent = Place(s.desired) /\ h.sent = HeadingOf(s) /\ g.sent = h.sent
          /\ a.desired = s.desired
      BY <1>4, <2>1, <2>4 DEF Started, Going
    <3>2. heard.sent = h.sent
      BY <1>11, <3>1
    <3>3. next.desired = s.desired
      BY <1>10, <3>1
    <3>4. base.to = HeadingOf(s)
      <4>1. CASE s.base = Nowhere \/ window.vacated
        BY <1>8, <2>1, <2>4, <3>1, <4>1
      <4>2. CASE s.base # Nowhere /\ ~window.vacated
        BY <1>8, <2>1, <2>4, <4>2 DEF HeadingOf
      <4> QED BY <1>7, <4>1, <4>2
    <3> QED BY <2>2, <3>1, <3>2, <3>3, <3>4
  <2> QED BY <2>3, <2>4
<1>16. Agrees(next, heard)
  BY <1>4, <1>10, <1>11 DEF Agrees
<1>17. ~heard.adrift => next.last = next.base.at + heard.clip
  BY <1>9, <1>11, <1>12, <1>14
<1> HIDE DEF heard, after
<1> QED BY <1>10, <1>11, <1>13, <1>14, <1>15, <1>16, <1>17
        DEF after, Sound, Started, Typed, Going, Tied

-----------------------------------------------------------------------------
(* Every step.                                                              *)

LEMMA MoverInit == Init => MoverInv
<1> SUFFICES ASSUME Init PROVE MoverInv
  OBVIOUS
<1>1. m \in Movers
  BY Line DEF Init, Movers
<1>2. seen \in Histories
  <2>1. 0 \in 0..Amp
    BY Line
  <2> QED BY <2>1 DEF Init, Histories
<1>3. sched \in Schedules
  BY DEF Init, Schedules
<1>4. Agrees(m, seen) /\ Going(m, seen) /\ Tied(m, seen) /\ Published(m) /\ m.mode # "Moving"
  BY DEF Init, Agrees, Going, Tied, Published
<1> QED BY <1>1, <1>2, <1>3, <1>4 DEF MoverInv, Sound, Started, Typed

\* An execution begins: the machine is as it was left, and publishes nothing yet.
LEMMA WakeIs ==
  ASSUME MoverInv, NEW schedule \in Schedules, NEW news \in BOOLEAN, Wake(schedule, news)
  PROVE  MoverInv'
<1> DEFINE screens == schedule.engaged /\ schedule.windows /\ (news \/ ~m.screened)
           answered == m.answered /\ ~news
           screened == screens \/ (m.screened /\ ~news)
           latched == m.latched /\ ~screens
           heard == seen.news \/ news
<1>1. /\ m \in Movers /\ seen \in Histories /\ (m.mode = "Moving" => m.dest \in Points)
      /\ Agrees(m, seen) /\ Going(m, seen) /\ Tied(m, seen)
  BY DEF MoverInv, Sound, Started, Typed
<1>2. /\ m' = [m EXCEPT !.answered = answered, !.screened = screened, !.latched = latched,
                        !.goal = Nowhere]
      /\ seen' = [seen EXCEPT !.news = heard]
      /\ sched' = schedule
  BY DEF Wake
<1>3. m.answered \in BOOLEAN /\ seen.news \in BOOLEAN
  BY <1>1 DEF Movers, Histories
<1>4. /\ answered \in BOOLEAN /\ screened \in BOOLEAN /\ latched \in BOOLEAN /\ heard \in BOOLEAN
      /\ ((seen.news <=> ~m.answered) => (heard <=> ~answered))
  <2>1. m.screened \in BOOLEAN /\ m.latched \in BOOLEAN
    BY <1>1 DEF Movers
  <2> QED BY <1>3, <2>1
<1> HIDE DEF screens, answered, screened, latched, heard
<1>5. /\ m' \in Movers /\ m'.mode = m.mode /\ m'.dest = m.dest /\ m'.last = m.last
      /\ m'.base = m.base /\ m'.desired = m.desired /\ m'.armed = m.armed
      /\ m'.answered = answered /\ m'.goal = Nowhere
  <2>1. m' \in Movers
    BY <1>1, <1>2, <1>4, ZenonT(120) DEF Movers
  <2>2. /\ m'.mode = m.mode /\ m'.dest = m.dest /\ m'.last = m.last /\ m'.base = m.base
        /\ m'.desired = m.desired /\ m'.armed = m.armed /\ m'.goal = Nowhere
    BY <1>1, <1>2 DEF Movers
  <2>3. m'.answered = answered
    BY <1>1, <1>2, Zenon DEF Movers
  <2> QED BY <2>1, <2>2, <2>3
<1>6. /\ seen' \in Histories /\ seen'.sent = seen.sent /\ seen'.prev = seen.prev
      /\ seen'.news = heard /\ seen'.clip = seen.clip /\ seen'.adrift = seen.adrift
      /\ seen'.leapt = seen.leapt
  BY <1>1, <1>2, <1>4 DEF Histories
<1>7. Typed(m', seen')
  BY <1>1, <1>5, <1>6 DEF Typed
<1>8. Agrees(m', seen')
  BY <1>1, <1>4, <1>5, <1>6 DEF Agrees
<1>9. HeadingOf(m') = HeadingOf(m)
  BY <1>5 DEF HeadingOf, Aim
<1>10. Going(m', seen') /\ Tied(m', seen') /\ Published(m')
  BY <1>1, <1>5, <1>6, <1>9 DEF Going, Tied, Published
<1> QED BY <1>2, <1>7, <1>8, <1>10 DEF MoverInv, Sound, Started

\* A history that is let go of promises nothing.
LEMMA UnwatchedIs ==
  ASSUME NEW h \in Histories, ~h.leapt
  PROVE  /\ Unwatched(h) \in Histories /\ Unwatched(h).sent = Nowhere
         /\ Unwatched(h).prev = "none" /\ Unwatched(h).news = h.news /\ ~Unwatched(h).leapt
<1>1. 0 \in 0..Amp
  BY Line
<1>2. Unwatched(h) \in Histories
  BY <1>1 DEF Unwatched, Histories
<1>3. /\ Unwatched(h).sent = Nowhere /\ Unwatched(h).prev = "none"
      /\ Unwatched(h).news = h.news /\ Unwatched(h).leapt = h.leapt
  BY DEF Unwatched, Histories
<1> QED BY <1>2, <1>3

\* The machine a sample finds, or arms where it was read.
LEMMA StartsIs ==
  ASSUME MoverInv, NEW s \in Starts
  PROVE  Started(s, Watcher) /\ s.armed
<1>1. /\ m \in Movers /\ seen \in Histories /\ ~seen.leapt /\ Agrees(m, seen)
      /\ Started(m, seen)
  BY DEF MoverInv, Sound, Started, Typed, Tied
<1>2. CASE m.armed
  BY <1>1, <1>2 DEF Starts, Watcher
<1>3. CASE ~m.armed
  <2> DEFINE h == Unwatched(seen)
  <2>1. PICK where \in Places : s = Armed(m, where)
    BY <1>3 DEF Starts
  <2>2. s = [m EXCEPT !.armed = TRUE, !.desired = "none", !.base = Nowhere, !.mode = "Holding",
                      !.dest = Nowhere, !.last = where, !.masked = FALSE]
    BY <2>1 DEF Armed
  <2>3. where \in Points
    BY Line
  <2>4. /\ s \in Movers /\ s.mode = "Holding" /\ s.base = Nowhere /\ s.desired = "none"
        /\ s.armed = TRUE /\ s.answered = m.answered
    BY <1>1, <2>2, <2>3 DEF Movers
  <2>5. /\ h \in Histories /\ h.sent = Nowhere /\ h.prev = "none" /\ h.news = seen.news
        /\ ~h.leapt
    BY <1>1, UnwatchedIs
  <2>6. Watcher = h
    BY <1>3 DEF Watcher
  <2> HIDE DEF h
  <2>7. Agrees(s, h)
    BY <1>1, <2>4, <2>5 DEF Agrees
  <2> QED BY <2>4, <2>5, <2>6, <2>7 DEF Started, Typed, Going, Tied
<1> QED BY <1>2, <1>3

\* Samples of a machine nobody engages.
LEMMA DisengagedIs == MoverInv /\ SampleDisengaged => MoverInv'
<1> SUFFICES ASSUME MoverInv, SampleDisengaged PROVE MoverInv'
  OBVIOUS
<1>1. /\ m \in Movers /\ seen \in Histories /\ (m.mode = "Moving" => m.dest \in Points)
      /\ Agrees(m, seen) /\ ~seen.leapt /\ Published(m) /\ sched \in Schedules
  BY DEF MoverInv, Sound, Started, Typed, Tied
<1>2. /\ m' = [m EXCEPT !.armed = FALSE, !.desired = "none", !.latched = FALSE, !.base = Nowhere]
      /\ seen' = Unwatched(seen) /\ sched' = sched
  BY DEF SampleDisengaged, Sampling, Disengaged
<1>3. /\ m' \in Movers /\ m'.mode = m.mode /\ m'.dest = m.dest /\ m'.last = m.last
      /\ m'.base = Nowhere /\ m'.desired = "none" /\ m'.armed = FALSE
      /\ m'.answered = m.answered /\ m'.goal = m.goal /\ m'.masked = m.masked
  BY <1>1, <1>2 DEF Movers
<1>4. /\ seen' \in Histories /\ seen'.sent = Nowhere /\ seen'.prev = "none"
      /\ seen'.news = seen.news /\ ~seen'.leapt
  BY <1>1, <1>2, UnwatchedIs
<1>5. Agrees(m', seen')
  BY <1>1, <1>3, <1>4 DEF Agrees
<1>6. Published(m')
  BY <1>1, <1>3 DEF Published
<1> QED BY <1>1, <1>2, <1>3, <1>4, <1>5, <1>6 DEF MoverInv, Sound, Started, Typed, Going, Tied

\* A sample of an engaged machine.
LEMMA SampleIs == MoverInv /\ Sample => MoverInv'
<1> SUFFICES ASSUME MoverInv, Sample PROVE MoverInv'
  OBVIOUS
<1>1. PICK s \in Starts, step \in Steps : \E reading \in Readings(s) :
        \/ \E answer \in {"granted", "aborted"} \cup Refusals(s, reading) :
             SampleClear(s, step, reading, answer)
        \/ \E window \in Riding(s),
              answer \in {"granted", "unplanned"} \cup Refusals(s, reading) :
             SampleRidden(s, step, window, reading, answer)
  BY DEF Sample
<1>2. PICK reading \in Readings(s) :
        \/ \E answer : SampleClear(s, step, reading, answer)
        \/ \E window \in Riding(s) : \E answer : SampleRidden(s, step, window, reading, answer)
  BY <1>1
<1>3. Started(s, Watcher) /\ s.armed
  BY StartsIs
<1>4. ASSUME NEW answer, SampleClear(s, step, reading, answer)
      PROVE  MoverInv'
  <2>1. /\ m' = Goal(Unridden(Dispatched(s, step), Fresh(s, step), step = "keep", reading, answer))
        /\ seen' = WatchedClear(Watcher, s, m', step, reading, answer)
        /\ sched' = sched
    BY <1>4 DEF SampleClear, Sampling
  <2>2. Sound(m', seen')
    BY <1>3, <2>1, ClearIsSound
  <2> QED BY <2>1, <2>2 DEF MoverInv
<1>5. ASSUME NEW window \in Riding(s), NEW answer,
             SampleRidden(s, step, window, reading, answer)
      PROVE  MoverInv'
  <2> DEFINE base == Ridden(Dispatched(s, step), Fresh(s, step), window, answer)
  <2>1. window \in Windows /\ (window.vacated => s.base # Nowhere)
    BY DEF Riding
  <2>2. /\ base.at \in Points /\ (answer = "refused" \/ base.at + window.clip \in Points)
        /\ m' = Goal(Overlaid(Dispatched(s, step), base, window, reading, answer))
        /\ seen' = WatchedRidden(Watcher, s, m', step, window, reading, answer)
        /\ sched' = sched
    BY <1>5 DEF SampleRidden, Sampling
  <2>3. base = Ridden(Dispatched(s, step), Fresh(s, step), window, answer)
    OBVIOUS
  <2> HIDE DEF base
  <2>4. Sound(m', seen')
    BY <1>3, <2>1, <2>2, <2>3, RiddenIsSound
  <2> QED BY <2>2, <2>4 DEF MoverInv
<1> QED BY <1>2, <1>4, <1>5

LEMMA MoverStep == MoverInv /\ [Next]_vars => MoverInv'
<1> SUFFICES ASSUME MoverInv, [Next]_vars PROVE MoverInv'
  OBVIOUS
<1>1. CASE Execute
  BY <1>1, WakeIs DEF Execute
<1>2. CASE ExecuteSettled
  <2>1. sched \in Schedules
    BY DEF MoverInv
  <2> QED BY <1>2, <2>1, WakeIs DEF ExecuteSettled
<1>3. ASSUME NEW pose \in Poses, NEW ridden \in BOOLEAN, Settle(pose, ridden)
      PROVE  MoverInv'
  <2>1. [engaged |-> TRUE, windows |-> ridden] \in Schedules
    BY DEF Schedules
  <2> QED BY <1>3, <2>1, WakeIs DEF Settle
<1>4. CASE UNCHANGED vars
  BY <1>4 DEF vars, MoverInv, Sound, Started, Typed, Agrees, Going, Tied, Published, HeadingOf, Aim
<1> QED BY <1>1, <1>2, <1>3, <1>4, DisengagedIs, SampleIs DEF Next

\* Every state of the mover, under whatever schedule, clip, reading and refusal.
THEOREM MoverIsSound == Spec => []MoverInv
<1> QED BY MoverInit, MoverStep, PTL DEF Spec

-----------------------------------------------------------------------------
\* The mover's fields, the schedule and the history stay of their kinds (MoverState).
THEOREM MoverTypes == Spec => []TypeOK
<1>1. MoverInv => TypeOK
  BY DEF MoverInv, Sound, Started, Typed, TypeOK
<1> QED BY <1>1, MoverIsSound, PTL

\* What an execution publishes is the setpoint the machine is left at, and
\* nothing once control is lost (execute_mover).
THEOREM PublishedIsStood == Spec => []PublishesWhereItStands
<1>1. MoverInv => PublishesWhereItStands
  BY DEF MoverInv, Sound, Published, PublishesWhereItStands
<1> QED BY <1>1, MoverIsSound, PTL

\* Nothing but the schedule, a refusal or a fault turns the base from where it
\* was sent (decide).
THEOREM HeadingIsKept == Spec => []HeadsWhereSent
<1>1. MoverInv => HeadsWhereSent
  BY DEF MoverInv, Sound, Started, Going, HeadsWhereSent, Heading, HeadingOf, Aim
<1> QED BY <1>1, MoverIsSound, PTL

\* No setpoint is further from the one before than the base and the clip carry it,
\* whatever is handed over, let go of or handed back, for every library and every
\* reach of a clip, posed or not (decide, uncompose).
THEOREM NoStepInTheStream == Spec => []StreamIsContinuous
<1>1. MoverInv => StreamIsContinuous
  BY DEF MoverInv, Sound, Started, Tied, StreamIsContinuous
<1> QED BY <1>1, MoverIsSound, PTL
=============================================================================
