------------------------------ MODULE CycleLoop ------------------------------
(***************************************************************************)
(* The scheduling of crates/reachy-motord/src/loop_ctl.rs over grid.rs:    *)
(* a grid of nominal instants drawn on a wall clock that can step          *)
(* backwards, slept to in chunks that measure elapsed time.  This thread   *)
(* is the only one that can let the machine go, so what matters is how     *)
(* much real time passes with no cycle run, and that the grid is kept.     *)
(***************************************************************************)
EXTENDS Integers, FiniteSets

CONSTANTS P,          \* the grid's period, which is also the sleep chunk
          MaxLate,    \* bound: how late a sleep may end
          MaxWork,    \* bound: what a cycle may cost
          Backs,      \* bound: how far a clock step goes back
          MaxSteps,   \* bound: clock steps in a run
          MaxElapsed  \* bound: real time a run lasts

ASSUME LoopConstants == /\ P \in Nat \ {0}
                        /\ MaxLate \in Nat /\ MaxWork \in Nat
                        /\ Backs \subseteq Nat /\ MaxSteps \in Nat
                        /\ MaxElapsed \in Nat

VARIABLES pc,         \* "wait", "asleep", "woken", "work", "pick", "windDown"
          clock,      \* CLOCK_REALTIME
          start,      \* where the grid starts
          next,       \* the cycle to run: its index, its instant, its skips
          before,     \* the clock read the sleep chunk was measured from
          asked,      \* the stop flag
          \* what the properties observe
          elapsed,    \* real time of the run
          unattended, \* real time since a cycle began
          sinceStop,  \* real time since the stop was asked for
          steps,      \* clock steps so far
          unseen      \* one of them fell outside every sleep

vars == <<pc, clock, start, next, before, asked, elapsed, unattended,
          sinceStop, steps, unseen>>

-----------------------------------------------------------------------------
(* grid.rs.  \div rounds down for a positive divisor, as div_euclid does.   *)

TopOfPeriod(now) == LET whole == (now \div P) * P
                    IN IF whole = now THEN now ELSE whole + P

Instant(origin, index) == origin + index * P

\* Slip: a cycle that ends exactly on a grid point is sent past it.
IndexAfter(origin, now) == (now - origin) \div P + 1

IndexAtOrAfter(origin, now) == LET whole == (now - origin) \div P
                               IN IF whole * P = now - origin THEN whole ELSE whole + 1

Later(i, j) == IF i >= j THEN i ELSE j

CycleAt(origin, index, skipped) ==
  [index |-> index, nominal |-> Instant(origin, index), skipped |-> skipped]

FirstFrom(origin, now) == CycleAt(origin, Later(IndexAtOrAfter(origin, now), 0), 0)

\* Slip: the index after the last one run is not a floor.
NextFromClock(origin, done, now) ==
  LET index == IndexAtOrAfter(origin, now)
  IN CycleAt(origin, index, Later(index - (done.index + 1), 0))

NextAfter(origin, done, now) ==
  LET intended == done.index + 1
      index == Later(IndexAtOrAfter(origin, now), intended)
  IN CycleAt(origin, index, index - intended)

-----------------------------------------------------------------------------
(* The loop.                                                               *)

\* A step moves the clock and takes no time.
StepsBack(back, outside) ==
  /\ back > 0 => steps < MaxSteps
  /\ steps' = IF back > 0 THEN steps + 1 ELSE steps
  /\ unseen' = (unseen \/ (outside /\ back > 0))

Pass(time, back) ==
  /\ elapsed + time <= MaxElapsed
  /\ clock' = clock + time - back
  /\ elapsed' = elapsed + time
  /\ unattended' = unattended + time
  /\ sinceStop' = IF asked THEN sinceStop + time ELSE 0

\* A process comes up at some point of a period and draws its grid there.
Init == /\ clock \in 0..(P - 1)
        /\ start = TopOfPeriod(clock) /\ next = FirstFrom(start, clock)
        /\ pc = "wait" /\ before = clock /\ asked = FALSE
        /\ elapsed = 0 /\ unattended = 0 /\ sinceStop = 0 /\ steps = 0
        /\ unseen = FALSE

\* sleep_until's look at the clock: arrived, stopped, or a chunk to sleep.
Arrive ==
  /\ pc = "wait" /\ next.nominal <= clock
  /\ pc' = "work" /\ unattended' = 0
  /\ UNCHANGED <<clock, start, next, before, asked, elapsed, sinceStop, steps, unseen>>

AnswerStop ==
  /\ pc = "wait" /\ next.nominal > clock /\ asked
  /\ pc' = "windDown"
  /\ UNCHANGED <<clock, start, next, before, asked, elapsed, unattended,
                 sinceStop, steps, unseen>>

StartChunk ==
  /\ pc = "wait" /\ next.nominal > clock /\ ~asked
  /\ pc' = "asleep" /\ before' = clock
  /\ UNCHANGED <<clock, start, next, asked, elapsed, unattended, sinceStop, steps, unseen>>

\* Slip: the whole distance is slept at once.
WholeWait(now, target) == target - now

\* chunk_to: never longer than one period.
Chunk(now, target) == IF target - now < P THEN target - now ELSE P

Sleep(late, back) ==
  /\ pc = "asleep"
  /\ StepsBack(back, FALSE)
  /\ Pass(Chunk(before, next.nominal) + late, back)
  /\ pc' = "woken"
  /\ UNCHANGED <<start, next, before, asked>>

\* Slip: the reads around the sleep are not compared.
WakeTrusting ==
  /\ pc = "woken"
  /\ pc' = "wait"
  /\ UNCHANGED <<clock, start, next, before, asked, elapsed, unattended,
                 sinceStop, steps, unseen>>

\* The clock read again: time going backwards across a sleep is a step, the
\* machine is let go and the grid re-drawn.
Wake ==
  /\ pc = "woken"
  /\ pc' = "wait"
  /\ IF clock < before
     THEN /\ start' = TopOfPeriod(clock)
          /\ next' = FirstFrom(start', clock)
     ELSE UNCHANGED <<start, next>>
  /\ UNCHANGED <<clock, before, asked, elapsed, unattended, sinceStop, steps, unseen>>

Work(time, back) ==
  /\ pc = "work"
  /\ StepsBack(back, TRUE)
  /\ Pass(time, back)
  /\ pc' = "pick"
  /\ UNCHANGED <<start, next, before, asked>>

\* run_until looks at the flag between the cycles.
Pick ==
  /\ pc = "pick"
  /\ next' = NextAfter(start, next, clock)
  /\ pc' = IF asked THEN "windDown" ELSE "wait"
  /\ UNCHANGED <<clock, start, before, asked, elapsed, unattended, sinceStop, steps, unseen>>

AskStop ==
  /\ ~asked /\ asked' = TRUE
  /\ UNCHANGED <<pc, clock, start, next, before, elapsed, unattended,
                 sinceStop, steps, unseen>>

Next == \/ Arrive \/ AnswerStop \/ StartChunk
        \/ \E late \in 0..MaxLate, back \in Backs \cup {0} : Sleep(late, back)
        \/ Wake
        \/ \E time \in 0..MaxWork, back \in Backs \cup {0} : Work(time, back)
        \/ Pick \/ AskStop

Spec == Init /\ [][Next]_vars

-----------------------------------------------------------------------------
(* Properties.                                                             *)

\* Every part of the loop has its type: the index never goes negative and a
\* cycle never skips a negative number of points (grid.rs, next_after).
TypeOK == /\ pc \in {"wait", "asleep", "woken", "work", "pick", "windDown"}
          /\ clock \in Int /\ start \in Int /\ before \in Int
          /\ next \in [index : Nat, nominal : Int, skipped : Nat]
          /\ asked \in BOOLEAN
          /\ elapsed \in 0..MaxElapsed /\ unattended \in 0..elapsed
          /\ sinceStop \in 0..elapsed /\ steps \in 0..MaxSteps
          /\ unseen \in BOOLEAN

\* Every grid point between two cycles is counted as skipped and none is run
\* late: the points passed over are exactly those whose instant had gone by
\* when the cycle before ended, and a point that is exactly now is not one.
SkipsAreExact ==
  [][pc = "pick" /\ pc' # "pick" => next'.skipped = Cardinality(
        {i \in (next.index + 1)..(next.index + 1 + MaxElapsed) :
           Instant(start, i) < clock})]_vars

\* From one cycle to the next the nominal instants only ever move forward,
\* whatever the clock did in between; only a re-drawn grid goes back.
NominalMovesForward ==
  [][pc = "pick" /\ pc' # "pick" => next'.nominal > next.nominal]_vars

\* The machine is never left without a cycle for longer than the cycle in hand,
\* one period and the sleep's own lateness, however far the clock steps back: a
\* step costs at most one more period, provided every one of them falls across a
\* sleep, where the loop compares its reads (loop_ctl.rs, reanchor, sleep_until).
AttendedWithinAPeriod ==
  ~unseen => unattended <= MaxWork + (steps + 1) * (P + MaxLate)

\* A stop is answered inside a cycle however far off the next grid point is
\* (loop_ctl.rs, run_until).
StopIsAnswered ==
  pc # "windDown" => sinceStop <= MaxWork + P + MaxLate
=============================================================================
