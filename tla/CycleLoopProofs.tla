--------------------------- MODULE CycleLoopProofs ---------------------------
(***************************************************************************)
(* Theorems about CycleLoop for every period, lateness, cost of a cycle    *)
(* and size of a clock step: its types, the grid's two promises, and how   *)
(* long the machine and a stop can wait.                                   *)
(***************************************************************************)
EXTENDS CycleLoop, FiniteSetTheorems, TLAPS

-----------------------------------------------------------------------------
(* The arithmetic of the grid.                                             *)

\* What rounding down to a multiple of the period gives (grid.rs, div_euclid).
LEMMA DivRoundsDown ==
  ASSUME NEW a \in Int
  PROVE  /\ a \div P \in Int
         /\ (a \div P) * P <= a
         /\ a < (a \div P) * P + P
BY LoopConstants

\* Multiples of the period keep the order of what they are multiples of.
LEMMA Monotone ==
  ASSUME NEW i \in Int, NEW j \in Int, i <= j
  PROVE  i * P <= j * P
<1>1. (j - i) * P >= 0
  BY LoopConstants
<1>2. (j - i) * P = j * P - i * P
  BY LoopConstants
<1> QED
  BY <1>1, <1>2, LoopConstants

\* An index after another is a whole period later.
LEMMA NextMultiple ==
  ASSUME NEW i \in Int
  PROVE  (i + 1) * P = i * P + P
BY LoopConstants

\* The larger of two indices is one of them and below neither (grid.rs, max).
LEMMA LaterIsLater ==
  ASSUME NEW i \in Int, NEW j \in Int
  PROVE  Later(i, j) \in {i, j} /\ Later(i, j) >= i /\ Later(i, j) >= j
BY DEF Later

\* The top of a period is an instant (grid.rs, top_of_period).
LEMMA TopType ==
  ASSUME NEW now \in Int
  PROVE  TopOfPeriod(now) \in Int
BY DivRoundsDown, LoopConstants DEF TopOfPeriod

\* A grid point is an instant (grid.rs, instant).
LEMMA InstantType ==
  ASSUME NEW origin \in Int, NEW i \in Int
  PROVE  Instant(origin, i) \in Int
BY LoopConstants DEF Instant

\* The index at or after an instant names the first grid point that has not
\* gone by: it is less than a period off, and the points before it have gone
\* (grid.rs, index_at_or_after).
LEMMA FirstPoint ==
  ASSUME NEW origin \in Int, NEW now \in Int
  PROVE  LET k == IndexAtOrAfter(origin, now)
         IN /\ k \in Int
            /\ Instant(origin, k) >= now
            /\ Instant(origin, k) < now + P
            /\ \A i \in Int : i < k <=> Instant(origin, i) < now
<1> DEFINE d == now - origin
           w == d \div P
           k == IndexAtOrAfter(origin, now)
<1>1. d \in Int
  OBVIOUS
<1>2. w \in Int /\ w * P <= d /\ d < w * P + P
  BY <1>1, DivRoundsDown
<1>3. (w + 1) * P = w * P + P
  BY <1>2, NextMultiple
<1>4. w * P \in Int
  BY <1>2, LoopConstants
<1>5. k = IF w * P = d THEN w ELSE w + 1
  BY DEF IndexAtOrAfter
<1>6. k \in Int
  BY <1>5, <1>2
<1>7. k * P \in Int /\ d <= k * P /\ k * P < d + P
  <2> HIDE DEF d, w, k
  <2> QED
    BY <1>1, <1>2, <1>3, <1>4, <1>5, LoopConstants
<1>8. ASSUME NEW i \in Int
      PROVE  i < k <=> i * P < d
  <2>2. i * P \in Int
    BY LoopConstants
  <2>3. CASE i < k
    <3>1. i + 1 <= k
      BY <2>3, <1>6
    <3>2. (i + 1) * P <= k * P
      BY <3>1, <1>6, Monotone
    <3>3. (i + 1) * P = i * P + P
      BY NextMultiple
    <3> HIDE DEF d, w, k
    <3> QED
      BY <2>2, <2>3, <3>2, <3>3, <1>1, <1>7, LoopConstants
  <2>4. CASE ~(i < k)
    <3>1. k <= i
      BY <2>4, <1>6
    <3>2. k * P <= i * P
      BY <3>1, <1>6, Monotone
    <3> HIDE DEF d, w, k
    <3> QED
      BY <2>2, <2>4, <3>2, <1>1, <1>7
  <2> QED
    BY <2>3, <2>4
<1>9. ASSUME NEW i \in Int
      PROVE  i < k <=> Instant(origin, i) < now
  <2>1. i * P \in Int
    BY LoopConstants
  <2> QED
    BY <1>8, <2>1 DEF Instant
<1>10. Instant(origin, k) >= now /\ Instant(origin, k) < now + P
  BY <1>6, <1>7, LoopConstants DEF Instant
<1> QED
  BY <1>6, <1>9, <1>10

\* A grid drawn on a clock starts at or after it, and its first cycle is the
\* first point that has not gone by (grid.rs, starting_at and first_from).
LEMMA DrawnAhead ==
  ASSUME NEW now \in Int
  PROVE  LET origin == TopOfPeriod(now)
             first  == FirstFrom(origin, now)
         IN /\ origin \in Int
            /\ first \in [index : Nat, nominal : Int, skipped : Nat]
            /\ first.nominal = Instant(origin, first.index)
            /\ now <= first.nominal /\ first.nominal <= now + P
<1> DEFINE origin == TopOfPeriod(now)
           k == IndexAtOrAfter(origin, now)
           j == Later(k, 0)
<1>1. origin \in Int /\ now <= origin /\ origin < now + P
  <2>1. now \div P \in Int /\ (now \div P) * P <= now /\ now < (now \div P) * P + P
    BY DivRoundsDown
  <2>2. (now \div P) * P \in Int
    BY <2>1, LoopConstants
  <2> QED
    BY <2>1, <2>2, LoopConstants DEF TopOfPeriod
<1> HIDE DEF origin
<1>2. k \in Int /\ Instant(origin, k) >= now /\ Instant(origin, k) < now + P
  BY <1>1, FirstPoint
<1> HIDE DEF k
<1>3. j \in {k, 0} /\ j >= k /\ j >= 0 /\ j \in Nat
  BY <1>2, LaterIsLater
<1> HIDE DEF j
<1>4. Instant(origin, 0) = origin
  BY <1>1, LoopConstants DEF Instant
<1>5. Instant(origin, j) \in Int /\ now <= Instant(origin, j)
                                 /\ Instant(origin, j) <= now + P
  <2>1. CASE j = k
    BY <2>1, <1>1, <1>2, InstantType, LoopConstants
  <2>2. CASE j = 0
    BY <2>2, <1>1, <1>4, LoopConstants
  <2> QED
    BY <2>1, <2>2, <1>3
<1>6. FirstFrom(origin, now) = [index |-> j, nominal |-> Instant(origin, j),
                                skipped |-> 0]
  BY DEF FirstFrom, CycleAt, j, k
<1> QED
  BY <1>1, <1>3, <1>5, <1>6 DEF origin

\* The cycle picked after another is a later point, at or after the clock, at
\* most a period past it when the cycle had begun, and it counts exactly the
\* points passed over (grid.rs, next_after).
LEMMA PickedAhead ==
  ASSUME NEW origin \in Int, NEW now \in Int,
         NEW done \in [index : Nat, nominal : Int, skipped : Nat],
         done.nominal = Instant(origin, done.index)
  PROVE  LET after == NextAfter(origin, done, now)
         IN /\ after \in [index : Nat, nominal : Int, skipped : Nat]
            /\ after.nominal = Instant(origin, after.index)
            /\ after.nominal > done.nominal
            /\ now <= after.nominal
            /\ done.nominal <= now => after.nominal <= now + P
            /\ after.skipped = after.index - (done.index + 1)
            /\ after.index = Later(IndexAtOrAfter(origin, now), done.index + 1)
<1> DEFINE n == done.index + 1
           k == IndexAtOrAfter(origin, now)
           j == Later(k, n)
<1>1. n \in Nat
  OBVIOUS
<1>2. k \in Int /\ Instant(origin, k) >= now /\ Instant(origin, k) < now + P
  BY FirstPoint
<1> HIDE DEF k
<1>3. j \in {k, n} /\ j >= k /\ j >= n /\ j \in Nat
  BY <1>1, <1>2, LaterIsLater
<1>4. NextAfter(origin, done, now) =
        [index |-> j, nominal |-> Instant(origin, j), skipped |-> j - n]
  BY DEF NextAfter, CycleAt, j, k
<1> HIDE DEF j
<1>5. Instant(origin, n) = done.nominal + P
  BY NextMultiple, LoopConstants DEF Instant
<1>6. n * P <= j * P /\ k * P <= j * P
  BY <1>1, <1>2, <1>3, Monotone
<1>7. n * P \in Int /\ k * P \in Int /\ j * P \in Int
  BY <1>1, <1>2, <1>3, LoopConstants
<1>8. Instant(origin, j) >= Instant(origin, n) /\ Instant(origin, j) >= Instant(origin, k)
  <2> HIDE DEF n
  <2> QED
    BY <1>6, <1>7 DEF Instant
<1>9. Instant(origin, n) \in Int /\ Instant(origin, k) \in Int /\ Instant(origin, j) \in Int
  BY <1>1, <1>2, <1>3, InstantType
<1>10. Instant(origin, j) > done.nominal /\ now <= Instant(origin, j)
  BY <1>2, <1>5, <1>8, <1>9, LoopConstants
<1>11. ASSUME done.nominal <= now
       PROVE  Instant(origin, j) <= now + P
  <2>1. CASE j = k
    BY <2>1, <1>2, <1>9, LoopConstants
  <2>2. CASE j = n
    BY <2>2, <1>5, <1>11, LoopConstants
  <2> QED
    BY <2>1, <2>2, <1>3
<1>12. j - n \in Nat
  BY <1>1, <1>3
<1> QED
  BY <1>3, <1>4, <1>9, <1>10, <1>11, <1>12 DEF n, j, k

\* A chunk of a sleep never oversleeps the instant and never outlasts a period
\* (loop_ctl.rs, chunk_to).
LEMMA ChunkIsShort ==
  ASSUME NEW now \in Int, NEW target \in Int, now < target
  PROVE  /\ Chunk(now, target) \in 0..P
         /\ Chunk(now, target) <= target - now
         /\ target - now <= P => Chunk(now, target) = target - now
BY LoopConstants DEF Chunk

-----------------------------------------------------------------------------
(* The types, with the grid and how far the clock can run ahead of it.     *)

\* The cycle in hand sits on the grid, a sleep was begun before its instant,
\* and the clock is never further past that instant than the run is long.
OnGrid == /\ next.nominal = Instant(start, next.index)
          /\ clock <= next.nominal + elapsed
          /\ pc = "asleep" => before < next.nominal

\* What every step keeps.
Typed == TypeOK /\ OnGrid

\* A process starts on its grid.
LEMMA TypedInit == Init => Typed
<1> SUFFICES ASSUME Init PROVE Typed
  OBVIOUS
<1>1. clock \in Int /\ start = TopOfPeriod(clock) /\ next = FirstFrom(start, clock)
  BY LoopConstants DEF Init
<1>2. /\ start \in Int
      /\ next \in [index : Nat, nominal : Int, skipped : Nat]
      /\ next.nominal = Instant(start, next.index)
      /\ clock <= next.nominal
  BY <1>1, DrawnAhead
<1>3. /\ pc = "wait" /\ before = clock /\ asked = FALSE
      /\ elapsed = 0 /\ unattended = 0 /\ sinceStop = 0 /\ steps = 0
      /\ unseen = FALSE
  BY DEF Init
<1>4. TypeOK
  <2>1. /\ elapsed \in 0..MaxElapsed /\ unattended \in 0..elapsed
        /\ sinceStop \in 0..elapsed /\ steps \in 0..MaxSteps
    BY <1>3, LoopConstants
  <2>2. /\ pc \in {"wait", "asleep", "woken", "work", "pick", "windDown"}
        /\ before \in Int /\ asked \in BOOLEAN /\ unseen \in BOOLEAN
    BY <1>1, <1>3
  <2> QED
    BY <1>1, <1>2, <2>1, <2>2 DEF TypeOK
<1>5. OnGrid
  BY <1>1, <1>2, <1>3 DEF OnGrid
<1> QED
  BY <1>4, <1>5 DEF Typed

\* Time passing keeps the observers' types.
LEMMA PassKeeps ==
  ASSUME Typed, NEW time \in Nat, NEW back \in Nat, Pass(time, back),
         UNCHANGED <<next, start, asked>>
  PROVE  /\ clock' \in Int
         /\ elapsed' \in 0..MaxElapsed /\ unattended' \in 0..elapsed'
         /\ sinceStop' \in 0..elapsed'
         /\ clock' <= next'.nominal + elapsed'
<1>1. /\ clock \in Int /\ asked \in BOOLEAN /\ MaxElapsed \in Nat
      /\ elapsed \in 0..MaxElapsed /\ unattended \in 0..elapsed
      /\ sinceStop \in 0..elapsed /\ next.nominal \in Int
      /\ clock <= next.nominal + elapsed
  BY LoopConstants DEF Typed, TypeOK, OnGrid
<1>2. /\ elapsed + time <= MaxElapsed
      /\ clock' = clock + time - back
      /\ elapsed' = elapsed + time
      /\ unattended' = unattended + time
      /\ sinceStop' = IF asked THEN sinceStop + time ELSE 0
  BY DEF Pass
<1> QED
  BY <1>1, <1>2

\* Clock steps stay within their bound.
LEMMA StepsKeep ==
  ASSUME TypeOK, NEW back \in Nat, NEW outside \in BOOLEAN, StepsBack(back, outside)
  PROVE  steps' \in 0..MaxSteps /\ unseen' \in BOOLEAN
BY LoopConstants DEF StepsBack, TypeOK

\* Every step of the loop keeps the types and the grid.
LEMMA TypedStep == Typed /\ [Next]_vars => Typed'
<1> SUFFICES ASSUME Typed, [Next]_vars PROVE Typed'
  OBVIOUS
<1> USE DEF Typed
<1>1. CASE Arrive
  BY <1>1 DEF Arrive, TypeOK, OnGrid
<1>2. CASE AnswerStop
  BY <1>2 DEF AnswerStop, TypeOK, OnGrid
<1>3. CASE StartChunk
  BY <1>3 DEF StartChunk, TypeOK, OnGrid
<1>4. ASSUME NEW late \in 0..MaxLate, NEW back \in Backs \cup {0}, Sleep(late, back)
      PROVE  Typed'
  <2>1. /\ pc = "asleep" /\ StepsBack(back, FALSE)
        /\ Pass(Chunk(before, next.nominal) + late, back)
        /\ pc' = "woken" /\ UNCHANGED <<start, next, before, asked>>
    BY <1>4 DEF Sleep
  <2>2. Chunk(before, next.nominal) + late \in Nat /\ back \in Nat
    BY <2>1, ChunkIsShort, LoopConstants DEF TypeOK, OnGrid
  <2>3. steps' \in 0..MaxSteps /\ unseen' \in BOOLEAN
    BY <2>1, <2>2, StepsKeep
  <2>4. /\ clock' \in Int
        /\ elapsed' \in 0..MaxElapsed /\ unattended' \in 0..elapsed'
        /\ sinceStop' \in 0..elapsed'
        /\ clock' <= next'.nominal + elapsed'
    BY <2>1, <2>2, PassKeeps
  <2> QED
    BY <2>1, <2>3, <2>4 DEF TypeOK, OnGrid
<1>5. CASE Wake
  <2>1. CASE clock < before
    <3>1. /\ start' \in Int
          /\ next' \in [index : Nat, nominal : Int, skipped : Nat]
          /\ next'.nominal = Instant(start', next'.index)
          /\ clock <= next'.nominal
      BY <1>5, <2>1, DrawnAhead DEF Wake, TypeOK
    <3> QED
      BY <1>5, <3>1 DEF Wake, TypeOK, OnGrid, Instant
  <2>2. CASE ~(clock < before)
    BY <1>5, <2>2 DEF Wake, TypeOK, OnGrid
  <2> QED
    BY <2>1, <2>2
<1>6. ASSUME NEW time \in 0..MaxWork, NEW back \in Backs \cup {0}, Work(time, back)
      PROVE  Typed'
  <2>1. /\ pc = "work" /\ StepsBack(back, TRUE) /\ Pass(time, back)
        /\ pc' = "pick" /\ UNCHANGED <<start, next, before, asked>>
    BY <1>6 DEF Work
  <2>2. time \in Nat /\ back \in Nat
    BY LoopConstants
  <2>3. steps' \in 0..MaxSteps /\ unseen' \in BOOLEAN
    BY <2>1, <2>2, StepsKeep
  <2>4. /\ clock' \in Int
        /\ elapsed' \in 0..MaxElapsed /\ unattended' \in 0..elapsed'
        /\ sinceStop' \in 0..elapsed'
        /\ clock' <= next'.nominal + elapsed'
    BY <2>1, <2>2, PassKeeps
  <2> QED
    BY <2>1, <2>3, <2>4 DEF TypeOK, OnGrid
<1>7. CASE Pick
  <2>1. /\ next' \in [index : Nat, nominal : Int, skipped : Nat]
        /\ next'.nominal = Instant(start, next'.index)
        /\ clock <= next'.nominal
    BY <1>7, PickedAhead DEF Pick, TypeOK, OnGrid
  <2> QED
    BY <1>7, <2>1 DEF Pick, TypeOK, OnGrid, Instant
<1>8. CASE AskStop
  BY <1>8 DEF AskStop, TypeOK, OnGrid
<1>9. CASE UNCHANGED vars
  BY <1>9 DEF vars, TypeOK, OnGrid, Instant
<1> QED
  BY <1>1, <1>2, <1>3, <1>4, <1>5, <1>6, <1>7, <1>8, <1>9 DEF Next

\* A run keeps its types and its grid.
THEOREM GridKept == Spec => []Typed
BY TypedInit, TypedStep, PTL DEF Spec

\* Every variable of the loop keeps its type: no index or count of skipped
\* points goes below zero, whatever the clock does (grid.rs, next_after).
THEOREM LoopTypes == Spec => []TypeOK
BY GridKept, PTL DEF Typed

-----------------------------------------------------------------------------
(* The grid's promises.                                                    *)

\* A step that ends a cycle is the one that picks the next.
LEMMA OnlyPickEnds ==
  ASSUME Typed, [Next]_vars, pc = "pick", pc' # "pick"
  PROVE  Pick
BY DEF Next, vars, Arrive, AnswerStop, StartChunk, Sleep, Wake, Work, AskStop

\* From one cycle to the next the nominal instants move forward, whatever the
\* clock did in between (grid.rs, next_after).
THEOREM NominalForward == Spec => NominalMovesForward
<1>1. ASSUME Typed, [Next]_vars, pc = "pick", pc' # "pick"
      PROVE  next'.nominal > next.nominal
  <2>1. Pick
    BY <1>1, OnlyPickEnds
  <2> QED
    BY <1>1, <2>1, PickedAhead DEF Pick, Typed, TypeOK, OnGrid
<1>2. Typed /\ [Next]_vars
        => [pc = "pick" /\ pc' # "pick" => next'.nominal > next.nominal]_vars
  BY <1>1
<1> QED
  BY <1>2, GridKept, PTL DEF Spec, NominalMovesForward

\* The points a cycle passes over, and no others, are the ones it counts: the
\* bound on the run keeps them all within the observed range (grid.rs,
\* next_after and index_at_or_after).
LEMMA SkipsCounted ==
  ASSUME Typed, Pick
  PROVE  next'.skipped = Cardinality(
           {i \in (next.index + 1)..(next.index + 1 + MaxElapsed) :
              Instant(start, i) < clock})
<1> DEFINE n == next.index + 1
           k == IndexAtOrAfter(start, clock)
           gone == {i \in n..(n + MaxElapsed) : Instant(start, i) < clock}
<1>1. /\ clock \in Int /\ start \in Int /\ n \in Nat /\ MaxElapsed \in Nat
      /\ elapsed \in 0..MaxElapsed
      /\ next.nominal = Instant(start, next.index)
      /\ clock <= next.nominal + elapsed
  BY LoopConstants DEF Typed, TypeOK, OnGrid
<1>2. k \in Int /\ \A i \in Int : i < k <=> Instant(start, i) < clock
  BY <1>1, FirstPoint
<1>3. next'.skipped = Later(k, n) - n
  BY PickedAhead DEF Pick, Typed, TypeOK, OnGrid
<1>4. k <= n + MaxElapsed
  <2>1. ~(Instant(start, n + MaxElapsed) < clock)
    <3>1. MaxElapsed <= MaxElapsed * P
      <4>1. (P - 1) * MaxElapsed >= 0
        BY <1>1, LoopConstants
      <4>2. (P - 1) * MaxElapsed = MaxElapsed * P - MaxElapsed
        BY <1>1, LoopConstants
      <4>3. MaxElapsed * P \in Int
        BY <1>1, LoopConstants
      <4> QED
        BY <4>1, <4>2, <4>3, <1>1
    <3>2. (n + MaxElapsed) * P = next.index * P + P + MaxElapsed * P
      BY <1>1, LoopConstants DEF Typed, TypeOK
    <3>3. next.index * P \in Int /\ MaxElapsed * P \in Int
      BY <1>1, LoopConstants DEF Typed, TypeOK
    <3> HIDE DEF n
    <3> QED
      BY <1>1, <3>1, <3>2, <3>3, LoopConstants DEF Instant
  <2>2. ~(n + MaxElapsed < k)
    BY <2>1, <1>1, <1>2
  <2> QED
    BY <2>2, <1>1, <1>2
<1> HIDE DEF k, n
<1>5. gone = n..(k - 1)
  BY <1>1, <1>2, <1>4
<1>6. Cardinality(n..(k - 1)) = IF n > k - 1 THEN 0 ELSE k - 1 - n + 1
  BY <1>1, <1>2, FS_Interval
<1>7. Later(k, n) - n = IF n > k - 1 THEN 0 ELSE k - 1 - n + 1
  BY <1>1, <1>2 DEF Later
<1> QED
  BY <1>3, <1>5, <1>6, <1>7 DEF n

\* Every grid point between two cycles is counted as skipped and none is run
\* late (grid.rs, next_after).
THEOREM SkipsCount == Spec => SkipsAreExact
<1>1. ASSUME Typed, [Next]_vars, pc = "pick", pc' # "pick"
      PROVE  next'.skipped = Cardinality(
               {i \in (next.index + 1)..(next.index + 1 + MaxElapsed) :
                  Instant(start, i) < clock})
  BY <1>1, OnlyPickEnds, SkipsCounted
<1>2. Typed /\ [Next]_vars
        => [pc = "pick" /\ pc' # "pick" => next'.skipped = Cardinality(
              {i \in (next.index + 1)..(next.index + 1 + MaxElapsed) :
                 Instant(start, i) < clock})]_vars
  BY <1>1
<1> QED
  BY <1>2, GridKept, PTL DEF Spec, SkipsAreExact

-----------------------------------------------------------------------------
(* How long a stop waits.  It is asked for at any moment; each place the    *)
(* loop can be bounds what has passed since.                               *)

StopSoFar == /\ ~asked => sinceStop = 0
             /\ pc = "asleep" => sinceStop = 0
             /\ pc \in {"wait", "woken", "work"} => sinceStop <= P + MaxLate
             /\ pc = "pick" => sinceStop <= MaxWork + P + MaxLate

\* Every step of the loop keeps the bound of the place it comes to.
LEMMA StopStep == Typed /\ StopSoFar /\ [Next]_vars => StopSoFar'
<1> SUFFICES ASSUME Typed, StopSoFar, [Next]_vars PROVE StopSoFar'
  OBVIOUS
<1>0. /\ P \in Nat /\ MaxLate \in Nat /\ MaxWork \in Nat
      /\ sinceStop \in Nat /\ asked \in BOOLEAN
  BY LoopConstants DEF Typed, TypeOK
<1>1. CASE Arrive
  BY <1>0, <1>1 DEF Arrive, StopSoFar
<1>2. CASE AnswerStop
  BY <1>0, <1>2 DEF AnswerStop, StopSoFar
<1>3. CASE StartChunk
  BY <1>0, <1>3 DEF StartChunk, StopSoFar
<1>4. ASSUME NEW late \in 0..MaxLate, NEW back \in Backs \cup {0}, Sleep(late, back)
      PROVE  StopSoFar'
  <2>1. Chunk(before, next.nominal) \in 0..P
    BY <1>4, ChunkIsShort DEF Sleep, Typed, TypeOK, OnGrid
  <2>2. sinceStop' = IF asked THEN sinceStop + (Chunk(before, next.nominal) + late) ELSE 0
    BY <1>4 DEF Sleep, Pass
  <2>3. pc = "asleep" /\ pc' = "woken" /\ asked' = asked
    BY <1>4 DEF Sleep
  <2>4. sinceStop' <= P + MaxLate
    BY <1>0, <2>1, <2>2, <2>3 DEF StopSoFar
  <2> QED
    BY <1>0, <2>2, <2>3, <2>4 DEF StopSoFar
<1>5. CASE Wake
  BY <1>0, <1>5 DEF Wake, StopSoFar
<1>6. ASSUME NEW time \in 0..MaxWork, NEW back \in Backs \cup {0}, Work(time, back)
      PROVE  StopSoFar'
  <2>1. sinceStop' = IF asked THEN sinceStop + time ELSE 0
    BY <1>6 DEF Work, Pass
  <2>2. pc = "work" /\ pc' = "pick" /\ asked' = asked
    BY <1>6 DEF Work
  <2>3. sinceStop' <= MaxWork + P + MaxLate
    BY <1>0, <2>1, <2>2 DEF StopSoFar
  <2> QED
    BY <1>0, <2>1, <2>2, <2>3 DEF StopSoFar
<1>7. CASE Pick
  BY <1>0, <1>7 DEF Pick, StopSoFar
<1>8. CASE AskStop
  BY <1>0, <1>8 DEF AskStop, StopSoFar
<1>9. CASE UNCHANGED vars
  BY <1>9 DEF vars, StopSoFar
<1> QED
  BY <1>1, <1>2, <1>3, <1>4, <1>5, <1>6, <1>7, <1>8, <1>9 DEF Next

\* A stop is answered within one cycle, one period and a sleep's lateness,
\* however far off the next grid point is (loop_ctl.rs, run_until).
THEOREM StopAnswered == Spec => []StopIsAnswered
<1>1. Init => StopSoFar
  BY LoopConstants DEF Init, StopSoFar
<1>2. Typed /\ StopSoFar => StopIsAnswered
  BY LoopConstants DEF Typed, TypeOK, StopSoFar, StopIsAnswered
<1> QED
  BY <1>1, <1>2, StopStep, GridKept, PTL DEF Spec

-----------------------------------------------------------------------------
(* How long the machine waits for a cycle.  The instant slept to is never  *)
(* more than a period off, so a sleep ends at it unless the clock stepped,  *)
(* and a step then pays for the sleep that has to be made again.           *)

\* What the machine may have waited once so many sleeps have been made.
Budget(sleeps) == MaxWork + sleeps * (P + MaxLate)

\* A sleep that reached the instant has used one more than the clock steps.
Waited == \/ next.nominal <= clock /\ unattended <= Budget(steps + 1)
          \/ unattended <= Budget(steps)

Attended ==
  /\ pc = "wait" => next.nominal <= clock + P /\ Waited
  /\ pc = "asleep" => /\ before = clock /\ before < next.nominal
                      /\ next.nominal <= before + P
                      /\ unattended <= Budget(steps)
  /\ pc = "woken" => /\ before < next.nominal /\ next.nominal <= before + P
                     /\ Waited
  /\ pc = "work" => next.nominal <= clock /\ unattended = 0
  /\ pc = "pick" => next.nominal <= clock /\ unattended <= MaxWork
  /\ pc = "windDown" => unattended <= Budget(steps + 1)

\* A sleep more is a period and a lateness more, and none is a cycle's cost.
LEMMA BudgetGrows ==
  ASSUME NEW s \in Nat
  PROVE  /\ Budget(s) \in Nat /\ MaxWork <= Budget(s)
         /\ Budget(s + 1) = Budget(s) + P + MaxLate
<1>1. s * (P + MaxLate) \in Nat
  <2>1. P + MaxLate \in Nat
    BY LoopConstants
  <2> QED
    BY <2>1, LoopConstants
<1>2. (s + 1) * (P + MaxLate) = s * (P + MaxLate) + P + MaxLate
  BY LoopConstants
<1> QED
  BY <1>1, <1>2, LoopConstants DEF Budget

\* A process that comes up waits less than a period for its first cycle.
LEMMA AttendedInit == Init => Attended
<1> SUFFICES ASSUME Init PROVE Attended
  OBVIOUS
<1>1. clock \in Int /\ start = TopOfPeriod(clock) /\ next = FirstFrom(start, clock)
  BY LoopConstants DEF Init
<1>2. next.nominal <= clock + P
  BY <1>1, DrawnAhead
<1>3. pc = "wait" /\ unattended = 0 /\ steps = 0
  BY DEF Init
<1>4. unattended <= Budget(steps)
  BY <1>3, BudgetGrows
<1> QED
  BY <1>2, <1>3, <1>4 DEF Attended, Waited

\* A clock step outside every sleep, once there, stays on the record.
LEMMA UnseenStands ==
  ASSUME Typed, [Next]_vars, ~unseen'
  PROVE  ~unseen
BY DEF Typed, TypeOK, Next, vars, Arrive, AnswerStop, StartChunk, Sleep, Wake, Work,
       Pick, AskStop, StepsBack

\* While the clock steps only across a sleep, every step of the loop keeps the
\* bound of the place it comes to.
LEMMA AttendedStep ==
  ASSUME ~unseen', Typed, Attended, [Next]_vars
  PROVE  Attended'
<1>0. /\ P \in Nat \ {0} /\ MaxLate \in Nat /\ MaxWork \in Nat /\ Backs \subseteq Nat
      /\ clock \in Int /\ before \in Int /\ next.nominal \in Int
      /\ unattended \in Nat /\ steps \in Nat
  BY LoopConstants DEF Typed, TypeOK
<1>00. /\ Budget(steps) \in Nat /\ MaxWork <= Budget(steps)
       /\ Budget(steps + 1) = Budget(steps) + P + MaxLate
  BY <1>0, BudgetGrows
<1>1. CASE Arrive
  BY <1>0, <1>1 DEF Arrive, Attended
<1>2. CASE AnswerStop
  BY <1>0, <1>00, <1>2 DEF AnswerStop, Attended, Waited
<1>3. CASE StartChunk
  BY <1>0, <1>3 DEF StartChunk, Attended, Waited
<1>4. ASSUME NEW late \in 0..MaxLate, NEW back \in Backs \cup {0}, Sleep(late, back)
      PROVE  Attended'
  <2>1. /\ pc = "asleep" /\ pc' = "woken" /\ StepsBack(back, FALSE)
        /\ UNCHANGED <<start, next, before, asked>>
        /\ clock' = clock + (Chunk(before, next.nominal) + late) - back
        /\ unattended' = unattended + (Chunk(before, next.nominal) + late)
    BY <1>4 DEF Sleep, Pass
  <2>2. /\ before = clock /\ before < next.nominal /\ next.nominal <= before + P
        /\ unattended <= Budget(steps)
    BY <2>1 DEF Attended
  <2>3. Chunk(before, next.nominal) = next.nominal - before
    BY <1>0, <2>2, ChunkIsShort
  <2>4. clock' = next.nominal + late - back
    BY <1>0, <2>1, <2>2, <2>3
  <2>5. unattended' <= Budget(steps + 1)
    BY <1>0, <1>00, <2>1, <2>2, <2>3
  <2>6. CASE back > 0
    <3>1. steps' = steps + 1
      BY <2>1, <2>6 DEF StepsBack
    <3> QED
      BY <2>1, <2>2, <2>5, <3>1 DEF Attended, Waited, Budget
  <2>7. CASE ~(back > 0)
    <3>1. steps' = steps /\ back = 0
      BY <1>0, <2>1, <2>7 DEF StepsBack
    <3>2. next.nominal <= clock'
      BY <1>0, <2>4, <3>1
    <3> QED
      BY <2>1, <2>2, <2>5, <3>1, <3>2 DEF Attended, Waited, Budget
  <2> QED
    BY <2>6, <2>7
<1>5. CASE Wake
  <2>1. CASE clock < before
    <3>1. next'.nominal <= clock + P
      BY <1>0, <1>5, <2>1, DrawnAhead DEF Wake
    <3>2. pc = "woken" /\ pc' = "wait" /\ UNCHANGED <<clock, unattended, steps>>
      BY <1>5 DEF Wake
    <3>3. Waited /\ before < next.nominal
      BY <3>2 DEF Attended
    <3>4. unattended <= Budget(steps)
      BY <1>0, <2>1, <3>3 DEF Waited
    <3> QED
      BY <3>1, <3>2, <3>4 DEF Attended, Waited, Budget
  <2>2. CASE ~(clock < before)
    BY <1>0, <1>5, <2>2 DEF Wake, Attended, Waited, Budget
  <2> QED
    BY <2>1, <2>2
<1>6. ASSUME NEW time \in 0..MaxWork, NEW back \in Backs \cup {0}, Work(time, back)
      PROVE  Attended'
  <2>1. /\ pc = "work" /\ pc' = "pick" /\ StepsBack(back, TRUE)
        /\ UNCHANGED <<start, next, before, asked>>
        /\ clock' = clock + time - back /\ unattended' = unattended + time
    BY <1>6 DEF Work, Pass
  <2>2. back = 0
    <3>1. ~(back > 0)
      BY <2>1, Zenon DEF StepsBack
    <3> QED
      BY <1>0, <3>1
  <2> QED
    BY <1>0, <2>1, <2>2 DEF Attended
<1>7. CASE Pick
  <2>1. next.nominal <= clock /\ unattended <= MaxWork
    BY <1>7 DEF Pick, Attended
  <2>2. next'.nominal <= clock + P
    BY <1>7, <2>1, PickedAhead DEF Pick, Typed, TypeOK, OnGrid
  <2>3. unattended <= Budget(steps) /\ unattended <= Budget(steps + 1)
    BY <1>0, <1>00, <2>1
  <2>4. pc' \in {"wait", "windDown"} /\ UNCHANGED <<clock, unattended, steps>>
    BY <1>7 DEF Pick
  <2> QED
    BY <2>2, <2>3, <2>4 DEF Attended, Waited, Budget
<1>8. CASE AskStop
  BY <1>8 DEF AskStop, Attended, Waited, Budget
<1>9. CASE UNCHANGED vars
  BY <1>9 DEF vars, Attended, Waited, Budget
<1> QED
  BY <1>1, <1>2, <1>3, <1>4, <1>5, <1>6, <1>7, <1>8, <1>9 DEF Next

\* What each place bounds is within what the machine may wait.
LEMMA AttendedIsEnough == Typed /\ (~unseen => Attended) => AttendedWithinAPeriod
<1> SUFFICES ASSUME Typed, Attended PROVE AttendedWithinAPeriod
  BY DEF AttendedWithinAPeriod
<1>1. /\ P \in Nat \ {0} /\ MaxLate \in Nat /\ MaxWork \in Nat
      /\ unattended \in Nat /\ steps \in Nat
      /\ pc \in {"wait", "asleep", "woken", "work", "pick", "windDown"}
  BY LoopConstants DEF Typed, TypeOK
<1>2. /\ Budget(steps) \in Nat /\ MaxWork <= Budget(steps)
      /\ Budget(steps + 1) = Budget(steps) + P + MaxLate
  BY <1>1, BudgetGrows
<1>3. unattended <= Budget(steps + 1)
  BY <1>1, <1>2 DEF Attended, Waited
<1> QED
  BY <1>3 DEF AttendedWithinAPeriod, Budget

\* However far the clock steps back across a sleep, the machine waits for a
\* cycle no longer than the cycle before it, a period and a sleep's lateness,
\* and as much again for every step (loop_ctl.rs, sleep_until and reanchor).
THEOREM AttendedAcrossSteps == Spec => []AttendedWithinAPeriod
<1>1. Init => (~unseen => Attended)
  BY AttendedInit
<1>2. Typed /\ (~unseen => Attended) /\ [Next]_vars => (~unseen => Attended)'
  BY UnseenStands, AttendedStep
<1> QED
  BY <1>1, <1>2, AttendedIsEnough, GridKept, PTL DEF Spec
=============================================================================
