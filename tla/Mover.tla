------------------------------- MODULE Mover -------------------------------
(* The mover: it plays the session's schedule to the driver, one goal a wake,
   over the motion tick's setpoint, and lets clips ride on it for a while
   (cogs/motion_cogs.rs, cogs/mover_overlay.rs, crates/reachy-motion tick.rs).

   The machine is a point on a line.  A move, the tick's own or the base's under
   a clip, goes one point a period; a clip adds what it likes up to Amp.  What
   covers a sample's instant is free (a step, a keep, a clip's window or none),
   and so is what the reads, the planner and the envelope say of it.            *)
EXTENDS Integers

CONSTANTS Low, High,  \* where the library's poses are
          Library,  \* the poses the deployed library holds, and where each is
          Ids,      \* the poses a schedule may name, some of them unknown
          Amp,      \* how far a clip's contribution reaches
          Nowhere   \* no place, no goal, no base of the cog's own

Poses == DOMAIN Library

ASSUME MoverAssumption ==
  /\ Low \in Int /\ High \in Int /\ Low <= High
  /\ Library \in [Poses -> Low..High]
  /\ Poses \subseteq Ids /\ {"none", "keep"} \cap Ids = {}
  /\ Amp \in Nat
  /\ Nowhere \notin Int /\ Nowhere \notin [at : Int, to : Int]
  /\ Nowhere \notin [at : Int, masked : BOOLEAN]

Places == {Library[p] : p \in Poses}
Points == (Low - Amp)..(High + Amp)
Steps == Ids \cup {"none", "keep"}
Place(id) == IF id \in Poses THEN Library[id] ELSE Nowhere
Abs(n) == IF n < 0 THEN -n ELSE n
Toward(from, to) == IF from < to THEN from + 1 ELSE IF to < from THEN from - 1 ELSE from

VARIABLES m,      \* MoverState, with the goal of this execution
          sched,  \* the schedule last received
          calm,   \* what covers every sample from now on, once it is settled
          seen    \* history: where the schedule sent the base, how the stream moved
vars == <<m, sched, calm, seen>>

\* A base of the cog's own: where it stands, and where it is going.
Bases == [at : Points, to : Points]
Movers == [armed : BOOLEAN,
           desired : Ids \cup {"none"},      \* the step last dispatched
           answered : BOOLEAN,               \* schedule_epoch_seen is the schedule's
           screened : BOOLEAN,               \* latch_epoch is
           latched : BOOLEAN,                \* overlay_latch
           base : Bases \cup {Nowhere},
           mode : {"Holding", "Moving", "Faulted"},
           dest : Points \cup {Nowhere},     \* the end of the tick's trajectory
           last : Points,                    \* last_targets
           masked : BOOLEAN,                 \* the antennas are out of service
           goal : [at : Points, masked : BOOLEAN] \cup {Nowhere}]
Schedules == [engaged : BOOLEAN, windows : BOOLEAN]

(* What a sample brings.  A window covers it with a clip (what the players add to
   the base between them, or silence), a row of it perhaps vacated or restarted,
   a posed clip perhaps among those that play on.  What is read, or is not, raises
   what the tick's detectors make of it.  The planner, the tick or a bound on the
   path may refuse.                                                             *)
Windows == {w \in [clip : 0..Amp, plays : BOOLEAN, vacated : BOOLEAN, posed : BOOLEAN] :
              w.clip # 0 \/ w.posed => w.plays}

-----------------------------------------------------------------------------
(* The tick: motion_tick.  A command is a hold, a move to a place or one point
   to be held now.                                                              *)

Hold(s) == [s EXCEPT !.mode = "Holding", !.dest = Nowhere]

\* A fault that latches takes the tick out of service; another leaves it holding.
Raised(s, reading) ==
  IF reading = "lost" THEN [s EXCEPT !.mode = "Faulted"] ELSE Hold(s)

Returns(s, reading) == s.mode = "Faulted" \/ reading \in {"lost", "obstructed"}

\* The command, and then the move in flight: a move just started emits nothing,
\* a refused one leaves the move it meant to replace.
Moved(s, answer) ==
  IF s.mode # "Moving" THEN s
  ELSE IF answer = "aborted" THEN Hold(s)
  ELSE LET at == Toward(s.last, s.dest)
           there == [s EXCEPT !.last = at]
       IN IF at = s.dest THEN Hold(there) ELSE there

\* Slip: a refused point is held to all the same.
TakeCommandBeyond(s, command, answer) ==
  IF command.kind = "hold" THEN Hold(s)
  ELSE IF command.kind = "none" THEN Moved(s, answer)
  ELSE IF command.kind = "move" THEN [s EXCEPT !.mode = "Moving", !.dest = command.to]
  ELSE Hold([s EXCEPT !.last = command.to])
TakeCommand(s, command, answer) ==
  IF command.kind = "hold" THEN Hold(s)
  ELSE IF command.kind = "none" \/ answer = "refused" THEN Moved(s, answer)
  ELSE IF command.kind = "move" THEN [s EXCEPT !.mode = "Moving", !.dest = command.to]
  ELSE Hold([s EXCEPT !.last = command.to])

MotionTick(s, command, reading, answer) ==
  IF s.mode = "Faulted" THEN s
  ELSE IF reading \in {"lost", "obstructed"} THEN Raised(s, reading)
  ELSE TakeCommand([s EXCEPT !.masked = @ \/ reading = "degraded"], command, answer)

-----------------------------------------------------------------------------
(* What one sample asks of the tick: decide.                                    *)

NoCommand == [kind |-> "none", to |-> Nowhere]
HoldCommand == [kind |-> "hold", to |-> Nowhere]
MoveTo(place) == [kind |-> "move", to |-> place]
Track(place) == [kind |-> "track", to |-> place]

\* No window, and the tick has the base.
Posture(s, fresh, keep) ==
  IF keep THEN IF s.mode = "Moving" THEN HoldCommand ELSE NoCommand
  ELSE IF fresh = Nowhere THEN NoCommand ELSE MoveTo(fresh)

\* No window any more: the base goes back to the tick, on to where it was sent.
\* Slip: on to where the base stands.
HandBackStanding(s, fresh, keep) ==
  IF keep THEN HoldCommand
  ELSE MoveTo(IF fresh # Nowhere THEN fresh ELSE s.base.at)
HandBack(s, fresh, keep) ==
  IF keep THEN HoldCommand
  ELSE MoveTo(IF fresh # Nowhere THEN fresh
              ELSE IF Place(s.desired) # Nowhere THEN Place(s.desired) ELSE s.base.at)

Held(at) == [at |-> at, to |-> at]

\* What still rides is taken off the setpoint last commanded; where a posed clip
\* is part of it, which is no amount to take off, the base stays where it stood.
\* Slip: the base stays where it stood, whatever rides.
UncomposedStanding(s, window) == s.base.at
Uncomposed(s, window) == IF window.posed THEN s.base.at ELSE s.last - window.clip

\* A base taken over stands where the last period left the stream.
Anchored(s, window) ==
  IF s.base = Nowhere THEN Held(s.last)
  ELSE IF window.vacated THEN Held(Uncomposed(s, window)) ELSE s.base

\* Where a base handed over or anchored anew goes on to, if nothing fresh is asked.
\* Slip: the base is planned anew every period.
ResumesEver(s, window) ==
  IF Place(s.desired) # Nowhere THEN Place(s.desired)
  ELSE IF s.base # Nowhere THEN s.base.to ELSE s.last
Resumes(s, window) ==
  IF s.base # Nowhere /\ ~window.vacated THEN Nowhere
  ELSE IF Place(s.desired) # Nowhere THEN Place(s.desired)
  ELSE IF s.base # Nowhere THEN s.base.to ELSE s.last

\* A move just planned is sampled at its start, one carried on a point further.
Stepped(base, to, answer) ==
  IF to = Nowhere \/ answer = "unplanned" THEN [base EXCEPT !.at = Toward(@, base.to)]
  ELSE [base EXCEPT !.to = to]

Ridden(s, fresh, window, answer) ==
  Stepped(Anchored(s, window),
          IF fresh # Nowhere THEN fresh ELSE Resumes(s, window), answer)

\* A refused composition drops every overlay until the next schedule.
Overlaid(s, base, window, reading, answer) ==
  [MotionTick(s, Track(base.at + window.clip), reading, answer) EXCEPT
     !.base = base,
     !.latched = window.plays /\ answer = "refused" /\ ~Returns(s, reading)]

Unridden(s, fresh, keep, reading, answer) ==
  LET command == IF s.base = Nowhere THEN Posture(s, fresh, keep) ELSE HandBack(s, fresh, keep)
  IN [MotionTick(s, command, reading, answer) EXCEPT !.base = Nowhere]

-----------------------------------------------------------------------------
(* One sample of an execution: execute_mover.                                   *)

\* Samples of a machine nobody engages put everything down.
Disengaged(s) == [s EXCEPT !.armed = FALSE, !.desired = "none", !.latched = FALSE,
                           !.base = Nowhere]

Armed(s, where) ==
  [s EXCEPT !.armed = TRUE, !.desired = "none", !.base = Nowhere, !.mode = "Holding",
            !.dest = Nowhere, !.last = where, !.masked = FALSE]

\* A base step is asked for when it is another one, or when the schedule is news.
Asks(s, step) == step \in Ids /\ (~s.answered \/ step # s.desired)
Dispatched(s, step) ==
  IF Asks(s, step) THEN [s EXCEPT !.desired = step, !.answered = TRUE] ELSE s

\* The goal of the sample taken last is the one an execution publishes.
\* Slip: a fault leaves the goal an earlier sample of the burst decided.
GoalLeft(s) == IF s.mode = "Faulted" THEN s
               ELSE [s EXCEPT !.goal = [at |-> s.last, masked |-> s.masked]]
Goal(s) == IF s.mode = "Faulted" THEN [s EXCEPT !.goal = Nowhere]
           ELSE [s EXCEPT !.goal = [at |-> s.last, masked |-> s.masked]]

Fresh(s, step) == IF Asks(s, step) THEN Place(step) ELSE Nowhere

-----------------------------------------------------------------------------
(* What the model remembers beside the code: the place the schedule last sent
   the base to and nothing has stopped it short of; the step before and whether
   the schedule is news, judged apart from the mover's own record of them; what
   the clip last added to the base, and whether the base has moved on since.    *)
Histories == [sent : Places \cup {Nowhere}, prev : Ids \cup {"none"}, news : BOOLEAN,
              clip : 0..Amp, adrift : BOOLEAN, leapt : BOOLEAN]

\* Where the schedule sends the base, unless this very sample stops it.
Heard(h, step, stops) ==
  LET asked == step \in Ids /\ (h.news \/ step # h.prev)
  IN [h EXCEPT !.sent = IF stops THEN Nowhere ELSE IF asked THEN Place(step) ELSE @,
               !.prev = IF step \in Ids THEN step ELSE @,
               !.news = @ /\ ~asked]

\* A base on its own goes a point a period; a clip takes the stream as far as
\* its contribution changes, but a window closing or restarting not at all, unless
\* a posed clip rides on, when the base waits and the contribution alone changes.
\* What a base has covered while nothing took its setpoints is nobody's promise.
Leaps(h, from, to, reach) == [h EXCEPT !.leapt = @ \/ Abs(to - from) > reach]

WatchedClear(h, s, next, step, reading, answer) ==
  Leaps([Heard(h, step, step = "keep" \/ Returns(s, reading) \/ answer # "granted")
           EXCEPT !.adrift = FALSE, !.clip = 0], s.last, next.last, 1)

WatchedRidden(h, s, next, step, window, reading, answer) ==
  LET unheard == Returns(s, reading) \/ answer = "refused"
      held == window.vacated => window.posed
      heard == [Heard(h, step, answer = "unplanned") EXCEPT
                  !.adrift = unheard, !.clip = window.clip]
  IN CASE unheard -> Leaps(heard, s.last, next.last, 1)
       [] ~unheard /\ s.base = Nowhere -> Leaps(heard, s.last, next.last, window.clip)
       [] ~unheard /\ s.base # Nowhere /\ ~held -> Leaps(heard, s.last, next.last, 0)
       [] ~unheard /\ s.base # Nowhere /\ held /\ ~h.adrift ->
            Leaps(heard, s.last, next.last,
                  (IF window.vacated THEN 0 ELSE 1) + Abs(window.clip - h.clip))
       [] OTHER -> heard

Unwatched(h) == [h EXCEPT !.sent = Nowhere, !.prev = "none", !.adrift = FALSE, !.clip = 0]

-----------------------------------------------------------------------------
Init ==
  /\ m = [armed |-> FALSE, desired |-> "none", answered |-> TRUE, screened |-> TRUE,
          latched |-> FALSE, base |-> Nowhere, mode |-> "Holding", dest |-> Nowhere,
          last |-> Low, masked |-> FALSE, goal |-> Nowhere]
  /\ sched = [engaged |-> FALSE, windows |-> FALSE]
  /\ calm = Nowhere
  /\ seen = [sent |-> Nowhere, prev |-> "none", news |-> FALSE,
             adrift |-> FALSE, clip |-> 0, leapt |-> FALSE]

\* An execution takes the schedule last published, which carries an epoch of its
\* own when it was replaced.  One of windows nobody screened clears the latch.
\* The goal of the execution before is out, or was never decided.
Wake(schedule, news) ==
  LET screens == schedule.engaged /\ schedule.windows /\ (news \/ ~m.screened)
  IN /\ sched' = schedule
     /\ m' = [m EXCEPT !.answered = @ /\ ~news, !.screened = screens \/ (@ /\ ~news),
                       !.latched = @ /\ ~screens, !.goal = Nowhere]
     /\ seen' = [seen EXCEPT !.news = @ \/ news]

Execute == /\ calm = Nowhere
           /\ \E schedule \in Schedules, news \in BOOLEAN :
                /\ news \/ schedule.windows = sched.windows
                /\ Wake(schedule, news)
           /\ UNCHANGED calm
ExecuteSettled == calm # Nowhere /\ Wake(sched, FALSE) /\ UNCHANGED calm

\* The world settles: one pose asked for anew, its windows neither opening nor
\* closing, and everything granted.
Settle(pose, ridden) ==
  /\ calm = Nowhere /\ calm' = [step |-> pose, ridden |-> ridden]
  /\ Wake([engaged |-> TRUE, windows |-> ridden], TRUE)

Sampling == UNCHANGED <<sched, calm>>

SampleDisengaged ==
  /\ Sampling /\ ~sched.engaged
  /\ m' = Disengaged(m) /\ seen' = Unwatched(seen)

\* A settled world asks for one pose, reads it and grants what is asked of it.
Settled(step, reading, answer) ==
  calm # Nowhere => step = calm.step /\ reading = "quiet" /\ answer = "granted"

\* The machine a sample finds armed, or arms where it was read.
Starts == IF m.armed THEN {m} ELSE {Armed(m, where) : where \in Places}
Watcher == IF m.armed THEN seen ELSE Unwatched(seen)

Riding(s) == IF ~sched.windows \/ m.latched THEN {}
             ELSE {w \in Windows : w.vacated => s.base # Nowhere}

\* A window covers this instant, where the envelope holds no point outside Points.
SampleRidden(s, step, window, reading, answer) ==
  /\ Sampling /\ sched.engaged /\ window \in Riding(s)
  /\ Settled(step, reading, answer)
  /\ calm # Nowhere => calm.ridden /\ ~window.vacated
  /\ LET asked == Dispatched(s, step)
         base == Ridden(asked, Fresh(s, step), window, answer)
     IN /\ base.at \in Points
        /\ answer = "refused" \/ base.at + window.clip \in Points
        /\ m' = Goal(Overlaid(asked, base, window, reading, answer))
  /\ seen' = WatchedRidden(Watcher, s, m', step, window, reading, answer)

\* None does, or the overlays are latched out.
SampleClear(s, step, reading, answer) ==
  /\ Sampling /\ sched.engaged
  /\ answer = "aborted" => s.mode = "Moving" /\ ~Returns(s, reading)
  /\ Settled(step, reading, answer)
  /\ calm # Nowhere => ~calm.ridden
  /\ m' = Goal(Unridden(Dispatched(s, step), Fresh(s, step), step = "keep", reading, answer))
  /\ seen' = WatchedClear(Watcher, s, m', step, reading, answer)

\* A tick out of service judges nothing, and refuses nothing it never came to.
Readings(s) == IF s.mode = "Faulted" THEN {"quiet"}
               ELSE {"quiet", "lost", "obstructed"} \cup IF s.masked THEN {} ELSE {"degraded"}
Refusals(s, reading) == IF Returns(s, reading) THEN {} ELSE {"refused"}

\* A machine that is not armed waits for a reading it can solve.
Sample ==
  \E s \in Starts, step \in Steps : \E reading \in Readings(s) :
    \/ \E answer \in {"granted", "aborted"} \cup Refusals(s, reading) :
         SampleClear(s, step, reading, answer)
    \/ \E window \in Riding(s), answer \in {"granted", "unplanned"} \cup Refusals(s, reading) :
         SampleRidden(s, step, window, reading, answer)

SampleSettled ==
  /\ calm # Nowhere
  /\ \E s \in Starts :
       \/ SampleClear(s, calm.step, "quiet", "granted")
       \/ \E window \in Windows : SampleRidden(s, calm.step, window, "quiet", "granted")

Next == \/ Execute \/ ExecuteSettled
        \/ \E pose \in Poses, ridden \in BOOLEAN : Settle(pose, ridden)
        \/ SampleDisengaged \/ Sample

Spec == Init /\ [][Next]_vars

\* The driver goes on publishing samples, and the mover on being woken by them.
FairSpec == Spec /\ WF_vars(SampleSettled)

-----------------------------------------------------------------------------
TypeOK == m \in Movers /\ sched \in Schedules /\ seen \in Histories

\* What an execution publishes is the setpoint the machine is left at, over the
\* rows that are left in service, and nothing once control is lost: neither a
\* goal nor a mask an earlier sample of the burst decided (execute_mover).
PublishesWhereItStands ==
  m.goal # Nowhere =>
    m.mode # "Faulted" /\ m.goal.at = m.last /\ m.goal.masked = m.masked

\* The base is on its way to the pose the schedule last sent it to, or there,
\* whoever has it: no clip taken up, dropped, restarted or let go of in between
\* leaves it short, unless the schedule, a refusal or a fault stopped it (decide).
Heading == IF m.base # Nowhere THEN m.base.to
           ELSE IF m.mode = "Moving" THEN m.dest ELSE m.last
HeadsWhereSent == m.armed /\ seen.sent # Nowhere => Heading = seen.sent

\* The point commanded goes no further in a period than the base and the clip
\* carry it: a window opening or closing, or a row handed on or restarted, leaves no
\* step in the stream, and where a posed clip rides on past a row let go, none but
\* what the clips' contribution changes by (decide: the handover, the re-anchor and
\* the hand-back; uncompose: what was vacated "leaves in one period" there).
StreamIsContinuous == ~seen.leapt

\* Once everything is granted the base arrives where the schedule sends it,
\* whatever stopped it before, with a clip riding on it or without.
Stands == IF m.base # Nowhere THEN m.base.at ELSE m.last
ArrivesInTheEnd ==
  \A pose \in Poses :
    calm # Nowhere /\ calm.step = pose ~> m.mode = "Faulted" \/ Stands = Library[pose]
=============================================================================
