# A verification project for brenn-reachy

brenn-reachy runs a nine-servo robot head.  These modules model the parts of it
that can hurt somebody: the process that holds the servo bus, takes torque and
lets go of it; the session that tells it when, and answers every fault; and the
mover that streams the setpoints in between.  TLA+ modules model them, TLC checks
them on small instances, and TLAPS proves safety results for every value of the
constants.

## The system

Paths are under `src/`.

| component | where | state it keeps | operations |
|---|---|---|---|
| goal gate | `crates/reachy-driver/src/lib.rs`, `driver/gate.clk` | a line of five goals, the held setpoint, the torque-off latch, when it last heard a word | accept, note_liveness, latch_torque_off, release_latch, clear_commanded, tick |
| torque belief | `reachy-driver/src/torque.rs` | the rows believed torqued | verified_write, confirmed_off |
| confirmation pass | `reachy-driver/src/torque.rs` | active, started, cursor, what it said | begin, stand_down, observed, step |
| engagement | `reachy-driver/src/engage.rs` | rows asked for, cycles waited | offer, abandon, step, credit, fail |
| out-of-band slot | `reachy-driver/src/aux_slot.rs` | one pending bus transaction, the health rotation | offer, take, abandon |
| event slot | `reachy-driver/src/report.rs` | at most one event a cycle; a run of blind cycles | raise, count_blind |
| driver cycle | `reachy-motord/src/tick.rs`, `aux.rs` | all of the above over the bus | run: read, write from the gate, engage, count blind, run_aux |
| cycle loop and grid | `reachy-motord/src/loop_ctl.rs`, `grid.rs` | the grid, the cycle to run next | run_until, cycle_once, sleep_until, reanchor, wind_down |
| inbound seam | `reachy-motord/src/inbound.rs` | two bounded channels, two reader threads | reader, drain |
| process | `reachy-motord/src/main.rs`, `params.rs` | the stop flag | startup sweep, run |
| session | `cogs/session_cog.rs`, `session_ladder.rs`, `session_stow.rs`, `session_slots.rs` | phase, escalation ladder, releases owed, the engagement it waits for | execute_session, once a wake |
| session bus | `cogs/session_bus.rs`, `crates/reachy-motion/src/txn.rs` | the transaction in flight and its number | send, retry, time out |
| sequences | `reachy-motion/src/arm.rs`, `disarm.rs`, `winddown.rs`, `seq.rs`, `crates/motion-proto` | a step and its deadline | arm, disarm, stow, abort |
| fault judgement | `reachy-motion/src/fault.rs`, `stillness.rs`, `verdict.rs` | sticky dispositions, windows | judge, escalate |
| mover and motion tick | `cogs/motion_cogs.rs`, `cogs/mover_overlay.rs`, `cogs/overlay.rs`, `reachy-motion/src/tick.rs` | the step last dispatched, the base of its own, the overlay latch, the tick's mode, trajectory and last setpoint | execute_mover, once a wake, a sample at a time |
| clips, poses, kinematics | `crates/reachy-clips`, `reachy-poses`, `reachy-kin` | loaded data | play, blend, solve |
| edge, host | `crates/reachy-edge`, `crates/reachy-host` | intake numbers, intent queue, idle behaviour | take a script, offer an intent |
| bus and codec | `crates/reachy-bus`, `crates/dxl-proto` | the serial port | read, write, verify |
| simulated driver, benches, tools | `cogs/sim_*.rs`, `crates/reachy-bench`, `crates/reachy-ask`, `tools/` | | |

How they interact.  The session commands the driver with datagrams on a
loopback port (keep-alive, `TorqueOffNow`, `Aux`, `EngageNow`), the mover
sends goals on another, and the driver answers with a pose sample every cycle
and at most one event of its cycle's own.  All of it is lossy.  Two reader threads
decode into bounded channels, which the loop thread drains at the top of a
cycle, sessions first.  Everything that touches the bus runs on the loop thread,
so inside the driver there is no interleaving of threads but for the drain; what
interleaves with it is the servos, the host, the clock, the signals and a crash.

What is hard.  The machine's torque is not the driver's belief, and the two move
apart on every lost exchange.  A release is believed only when nine reads over
nine cycles agree, while the sweep, re-issued releases, engagements and single
enables arrive between the reads.  Four paths arm the machine, six let go of
it, and each must change the latch, the pass, the slot, the engagement and the
belief together.  Every safety timer is a difference against a clock that can
step back.  A driver that dies leaves the servos holding.  The session adds its own: an
execution takes raises, events, readings and scripts in turn, runs a wind-down, a
bus turn and a held script, and says one datagram; a fault anywhere in it
commands a release that must take all the rest with it.  The base of a motion
passes between two owners as clips open and close over it.

What correctness means, component by component:

- gate: goals execute in order, once, never early; nothing from before a latch
  moves an armed machine; the dead-man neither misses a silence nor is fed by
  goals that were dropped;
- driver: a machine that holds torque is one the driver believes in or has
  latched over; what it confirms is true; a release outranks what came before
  it; a wire failure cannot be left;
- loop: the machine is never without a cycle for longer than a cycle, whatever
  the clock does; skipped points are counted; a stop is answered in time;
- session: while it owes a release it does nothing else, at rest it owes nothing or
  takes nothing, what it concludes of the torque is true of the machine, and no
  phase on its way somewhere lasts;
- sequences: done means everything was said, released means confirmed, and each
  ends whatever the bus answers;
- mover: the base goes on to where it was sent whoever has it, the stream of
  setpoints has no step in it, and a fault publishes nothing;
- edge and host (planned): numbering survives restarts, queues drop what they
  say they drop.

The full list of hazards, at their lines, with the properties that cover them,
is in `PROJECT.json`.

## Modules

| module | models | lines of the code |
|---|---|---|
| `CommandAuthority` | the abstract promise of the gate: which goals may move the machine | the docs of `GoalGate` |
| `GoalGate` | the goal gate, and what the rest of a cycle does to it | `lib.rs` |
| `GoalGateProofs` | its theorems | |
| `Driver` | one driver process over `N` servos: boot, crash, seam, cycle, loop, wind-down | `torque.rs`, `engage.rs`, `aux_slot.rs`, `report.rs`, `tick.rs`, `loop_ctl.rs`, `inbound.rs`, `main.rs` |
| `DriverProofs` | its theorems | |
| `CycleLoop` | the grid, the chunked sleep and the stop in real time | `grid.rs`, `loop_ctl.rs` |
| `CycleLoopProofs` | its theorems | |
| `Sequencers` | commissioning, poll and disarm: a snapshot, and the step it takes on an answer | `arm.rs`, `disarm.rs`, `seq.rs`, `resume.rs` |
| `SequencersProofs` | what a step of one keeps: the lemmas `ConversationsProofs` and `SessionProofs` rest on | |
| `Conversations` | those three against a bus that answers anything | the same, and `session_bus.rs`, `run` |
| `ConversationsProofs` | its theorems | |
| `SessionLife` | the abstract promise of a session: its phases and the release owed | `session.clk` |
| `Session` | the session cog, execution by execution, against any host and driver | `session_cog.rs`, `session_ladder.rs`, `session_stow.rs`, `session_bus.rs`, `winddown.rs`, `fault.rs` |
| `SessionProofs` | its theorems | |
| `SessionDriver` | `Session` and a driver over two lines of messages | the same, and `tick.rs`, `engage.rs`, `torque.rs`, `inbound.rs` |
| `SessionDriverProofs` | its theorems | |
| `Mover` | the mover cog, its overlay layer and the motion tick under it | `motion_cogs.rs`, `mover_overlay.rs`, `overlay.rs`, `tick.rs`, `compose.rs` |
| `MoverProofs` | its theorems | |
| `MC*` | the sets and instances TLC checks | |

`SessionDriver` extends `Session`, which extends `Sequencers`; `Conversations`
extends `Sequencers`; `GoalGate` instantiates `CommandAuthority` and `Session`
instantiates `SessionLife`, each through a refinement mapping.

### GoalGate

One action per call, in the order a cycle makes them: `stage = "drain"` until the
gate is ticked, `"spent"` after.  `queue` is the `VarArray`, `held` is `held` and
`has_held` in one, `lastAccept` and `hasAccepted` are the dead-man's stamp.  A
goal keeps its arrival number, its instant and whether its sender was warned;
mask and angles are left out, because no decision of the gate reads them.  `Arm`
is a verified enable, alone or by an engagement; `Disarmed` a verified release
that leaves nothing believed, or a confirmed pass; `LetGo` an unconfirmed
engagement or a stopped reader; `ClockStepBack` the loop's re-anchoring.  The
variables `arrived`, `dead`, `lastWord` and `wrote` only observe.

`CommandAuthority` says what this is for in three variables.  `ImplementsAuthority`
maps the gate to it: live goals are none under a latch, else the line and the
held setpoint.  The interesting step is the end of a latch: the held setpoint
that was kept through it, and goals that arrived under it, must not come alive.

### Driver

The machine, `torqued`, is a set of rows; `believed` is what the driver thinks of
it.  `stage` walks a cycle: `sleep`, `sessions`, `goals` (the drain, sessions
first), `gate`, `engage`, `confirm`, `aux`, `publish`.  Each exchange picks what
it reached (`Reached`) and, for a verified one, what was read back, so a write
that took unread and a write that never took are different steps.

| code | actions |
|---|---|
| `main.rs` run, `startup_mrc_sweep` | `Boot` |
| `Inbox::drain`, `offer_session_cmd`, `offer_goal` | `KeepAlive`, `TorqueOffNow`, `OfferAux`, `EngageNow`, `OfferGoal` |
| `answer_wire_failure` | `StartCycle` |
| `write_from_gate`, `sweep_torque_off` | `GateSweep`, `GateDeadMan`, `GateWrite` |
| `EngageRequest::step`, `engage_rows`, `credit`, `fail` | `NoEngagement`, `EngageHeld`, `EngageWait`, `EngageDeclined`, `EngageRun`, `EngageUnsent` |
| `TorqueOffConfirm::step` | `ConfirmComplete`, `ConfirmOverdue`, `ConfirmQuiet` |
| `AuxSlot::take`, `credit_torque_write`, `observed` | `HostEnable`, `HostEnableUnseen`, `HostRelease`, `HostReleaseUnseen`, `HostOther`, `ConfirmRead`, `NoHostWork` |
| `cycle_once`, `release` | `EndCycle`, `Stop` |
| `reanchor` | `ClockStepBack` |

What the gate writes when it is not sweeping is `GoalGate`'s subject; here a goal
is a word from its sender or, dropped, none.  Instants are kept as distances:
`silence` is now minus `last_accept`, `age` is now minus the pass's `started`,
both saturated one past the bound they are compared with, and negative after the
clock steps back.  `Hazards` names which of the environment's misbehaviours an
instance has, so that a run says under which of them a property holds:

| hazard | means |
|---|---|
| `crash` | the process dies between any two steps |
| `reader` | a port's reader stops |
| `clock` | the wall clock steps back in a sleep |
| `skip` | a cycle overruns its grid point |
| `stop` | a signal asks for a stop |
| `remark` | a goal is late, out of order or dropped |
| `blind` | a run of cycles reads nothing long enough to say so |
| `unread` | an engagement's enable takes and its read-back is lost |
| `calm` | from some point on the host is silent and the link loses nothing |

A host engages any set of rows in `EngageSets`: the session asks for every row but
the antennas it has flagged (`session_bus.rs:968`), so a run takes the whole machine
and the head alone, and the proofs take any.  Two variables mark what that and a
lost read-back cost, and the properties except exactly the rows they hold:

- `stray`: rows an enable took, alone or in an engagement, whose read-back was lost.
  The driver knows nothing of them by construction, crediting what it read
  (`credit_torque_write`, `credit`).  Every property about the machine excepts them.
- `unnamed`: rows the arming that ended the last latch did not name.  `credit` and
  `credit_torque_write` end the latch of the whole machine whatever rows they were
  about, and a row under it that the sweep had not let go of, after a crash and a
  lost write, is from then on neither swept nor believed.  `HoldingIsKnown` excepts
  them, and `EndedTruthfully` where the driver ends with nothing to release; a
  confirmed release excepts none of them.

`revoked` and `wireFailed` only observe: torque was let go and nothing asked for
it since; the driver has acted on a stopped reader.

### CycleLoop

The loop against two clocks: `clock`, which can step back, and `elapsed`, which
cannot.  `sleep_until` is three steps, because the finding of the sleep is in the
two reads around the chunk: `StartChunk` reads, `Sleep` passes time, `Wake` reads
again and compares.  A step may also fall outside every chunk, where the loop does
not see it: `unseen` remembers that one did, and `AttendedWithinAPeriod` promises
nothing from then on.
The grid functions are operators over integers; `\div` rounds down for a positive
divisor exactly as `div_euclid` does.

### Sequencers and Conversations

A sequencer of the code is a snapshot in the session's slot, resumed every
execution; here it is a record `snap` (`kind`, `phase`, cursor `at`, whether a
transaction is `held`) and `Step(snap, prior)`, which absorbs the answer to the
transaction held and says what is next.  A transaction answers with the value
wanted (`ok`), another one (`odd`), nothing (`none`) or anything else (`error`).
Register values are not modelled, only whether a row was read as the phase needs
it.  `Conversations` opens, answers, times and closes one at a time and keeps what
was really asked and answered beside it.

### Session

One execution is a walk through `stage`, in the order of `execute_session`:

| stage it leaves | code | actions |
|---|---|---|
| `asleep` | `watch`, `note_sample`, `note_start` | `Wake` |
| `raises`, `events`, `readings`, `scripts` | `record_raises`, `record_events`, `record_readings`, `screen_scripts` | `TakeRaise`, `TakeEvent`, `TakeReading`, `TakeScript`, any number of each, in that order |
| | `run_winddown` (`session_stow.rs`) | `RunWindDown` |
| `wound` | `run_bus` (`session_bus.rs`): release, else the antennas' degrade, else the phase's sequence, else a keep-alive | `RunBus` |
| `driven` | `drain_pending` | `DrainPending` |
| `drained` | `publish_schedule`, and the datagram goes out | `PublishSchedule` |

`slot` is the session's state: the phase, `owed` (a release commanded and not
confirmed), `ending` (a fault's ending toward rest), the engagement `asking` /
`asked` / `rows`, the script held, the schedule, the transaction in flight, the
degrade (`draining`, `limp`), the sequence, the stow, the sample clock and the
rail.  Instants are distances to now, saturated one past what they are compared
with; `Tick` ages them all.  A script is its number and the ticks to its last
instant.  `cmd` is the one datagram of an execution.  `SessionLife` is what
`session.clk` promises of `phase` and `owed` alone.

### SessionDriver

`line` carries what the session says, `back` the one event a driver's cycle
reports.  The driver is what `Driver` comes to for somebody who only talks to it:
`Cycle` is one whole cycle, gate, engagement, pass and event in that order, a pass
is one reading of the whole machine, and an out-of-band request runs in the cycle
after it was heard.  The session is `Session` unchanged, but its events come off
`back` and its answers off the driver's one request.

| fault | means |
|---|---|
| `lost` | a datagram to the driver is dropped |
| `sweep` | a release the driver writes does not take, so a pass may run out |
| `stall` | a word is late: time passes while messages are in flight or unread, the dead-man may expire on a session that owes a word, an answer may overtake an event |
| `displaced` | a remark has the cycle's event slot |
| `bus` | an enable is lost, or waits for the bus |

Without `stall`, time passes only once what was said has been heard and what was
asked is begun (`Prompt`): a network and a scheduler faster than the timeouts,
which are hundreds of milliseconds over a loopback socket.

### Mover

The machine is a point on a line, a move goes one point a period, and a clip adds
up to `Amp`; `base` is the cog's own base while it has one, `last` the tick's last
setpoint.  `Execute` takes the schedule, `Sample` is one sample of the burst:
`SampleClear` where no window is open (`Posture`, `HandBack`), `SampleRidden` under
one (`Anchored`, `Resumes`, `Stepped`, then a `Track`), and both end in
`MotionTick` and `Goal`.  What was read, what the planner, the tick and the
envelope answer, and what the players do with their rows, are free: `reading` is
`quiet`, `lost` (a fault that latches), `obstructed` (one that holds) or
`degraded` (the antennas masked); `answer` is `granted`, `refused`, `unplanned`
or `aborted`.  A window says what the clips add (`clip`), whether a row was let go
in this period (`vacated`) and whether a posed clip is among those that play on
(`posed`): the base is then anchored anew (`Anchored`), and `Uncomposed` is where,
the last setpoint less what still rides or, under a posed clip, which is no amount
to take off, where the base stood.  `seen` remembers beside the code where the schedule last sent the
base and how far the stream moved.  `Settle` is the world falling calm: one pose
asked for, windows open for good or closed for good, everything granted.

## Runs

| run | result | what it shows |
|---|---|---|
| `goal_gate` | holds, 38,422 states | order, authority, the dead-man, the refinement of `CommandAuthority` |
| `driver_safe` | holds, 3,708,084 states | two rows, every hazard but `calm`; the whole machine or the head alone engaged, every request kind of a single row |
| `driver_live` | holds, 795,234 states | the same host; a pass speaks unless an engagement replaces it, a quiet host ends limp and confirmed |
| `loop` | holds, 532,015 states | skips exact and a stop answered wherever the clock steps; a step seen across a sleep costs one period |
| `conversations` | holds, 6,525 states | three servos, any answers: nothing is configured unread, done is whole, released is confirmed, each ends |
| `session` | holds, 1,204,593 states | a head servo and an antenna, faults, silences and stale readings: a release stands alone, the stow and the transaction are governed, torque is first asked for on a fit rail, the refinement of `SessionLife` |
| `session_live` | holds, 18,757 states | every passing phase passes, every held script is answered |
| `session_driver` | holds, 1,545,808 states | lost datagrams and releases that do not take: rest is limp, off is off, active is held |
| `session_driver_live` | holds, 9,862 states | a release owed is confirmed in the end |
| `mover` | holds, 128,052 states | where the base goes, that the stream steps no further than base and clips carry it, what a burst publishes, that a settled world arrives |
| `session_late` | violated | finding 1 |
| `session_driver_owed` | violated | finding 2 |

Bounds and why they are enough.  The gate's line holds two goals where the code's
holds five: every rule about it is about the head, the tail, the next one and a
full line, and two have all of them.  Four goals and four cycles with one skip let
a line fill, drain, be cleared and refill, with stamps before, inside and past the
run.  Two servos have a row read clean and a row not yet read, which is every way
a pass can be half done; the confirmation budget is three cycles and the
engagement window two, so that each expires and does not.  The loop's period is
two ticks, a cycle may cost five (two points skipped and the boundary exactly
hit), and a clock steps back by less than a chunk (1) and by six periods (12),
twice.  The proofs need none of these bounds.

A conversation has three servos, one of them an antenna, two provisioned cells of
which one is checked, and one profile register: a first, a middle and a last row
of every sweep.  The session has a head servo and an antenna, the two kinds of
row it tells apart; budgets of one or two ticks, each of which runs out and does
not; one correlation number, because matching is by the transaction in flight;
and one script number (`MaxScript`), spans that end in the run and that are
refused.  Its liveness is checked of a machine of one row, because every phase's way
out is a count or a timeout of its own.  `session_driver` keeps messages in flight
to two each way, and the session's correlation numbers to two, so that an answer
can be the wrong one's.  The mover's library has two poses two points apart, so
that a base can be half-way, an id the library does not hold, and a clip of one
point.

Deadlock is checked in every run but `driver_safe` and `loop`.  A driver that has
ended after a stop does nothing more, and a loop that has wound down or used up
its bound of real time stops.

Fairness.  `Driver`: weak, on the cycle as a whole; the loop is one thread, every
exchange runs under a deadline, and a drain takes at most a channel's depth of
datagrams.  Nothing is assumed of the host, the link or the clock; the property
that needs a link that answers says so (`calm`).  `driver_live` allows no clock
step and no stop: a clock that keeps stepping back re-opens the budget for ever,
which `release` in `loop_ctl.rs` says itself.  `Conversations`: the session gives
up every transaction by its timeout, so one is answered or counts as `none`, and
time passes.  `Session`: the cog's own turns once it wakes, its wake at the floor
of its scheduling, time; and, strongly, a wake that sees a sample, because a
driver that is alive publishes one every cycle.  No fairness on answers, events,
scripts or faults.  `SessionDriver` adds the driver's cycle and that what is in
flight is heard in the end, with nothing assumed of what is lost; and that a cycle
able to read a limp machine back does so in the end, a bus that works now and
then.  `Mover`: weak, on a sample of a settled world, as the driver's samples wake
the mover.

## Findings

1. `session_late`.  `stow` in `session_ladder.rs` sends every fault outside ACTIVE to
   its disposition at once.  One whose disposition is RESTING, raised late about a
   machine already parked, takes it out of PARKED, from where the next script
   engages it.  `fault-management.md` and `session.clk` latch a parked session
   until an operator restarts the process.
2. `session_driver_owed`.  A pass says Confirmed once and the latch stands on.  When
   the dead-man released and confirmed the machine before the session's
   `TorqueOffNow` arrives, `begin` does nothing over the pass that has spoken, and
   no verdict follows; the earlier one cleared nothing because nothing was owed
   then.  The session rests owing its release and refuses every script.

Met while modelling, and shown by no run of the list above:

- `engage.rs`, `fail`: `begin` does nothing over an active pass, so an engagement under
  a standing latch whose enables took unread keeps a verdict from before them.  Such
  a row is `stray`, which `ConfirmedMeansReleased` excepts.
- `engage.rs:139`, `credit`: an engagement of some rows ends the latch for all of them.
  `session_bus.rs:968` leaves flagged antennas out, so an antenna that still holds,
  after a crash and a startup sweep that missed it, is let out of the latch with
  nothing believed of it, against `torque.rs`, which says that a machine believed
  idle that is holding is one the dead-man will not save.  Such a row is `unnamed`.
- `engage.rs`, `credit` and `fail`: an engagement of which some rows read back and some
  do not ends the latch and its pass, then latches and begins a new pass, all in one
  step.  A host that asks again every cycle has the pass begun at age 0 every
  cycle, and it need never speak.  `PassSpeaks` says so: a pass speaks, or is stood
  down, or is so replaced (`Replaced`).
- `compose.rs:258`: `mover_overlay.rs:395` says of a base anchored anew that "this
  period's composition comes out at the same setpoint as the last one".  Where a
  posed clip rides on, `uncompose` keeps the held base and the vacated contribution
  leaves in one period, as its own doc (`compose.rs:239`) and
  `posed_uncompose_holds_the_base_while_unrelated_content_vacates` say.
  `StreamIsContinuous` bounds the step there by what the contribution changes by.
- `report.rs:100`: a verdict said once finds the event slot taken by a remark.
- `loop_ctl.rs:267`: a clock step outside a sleep is not seen and is slept out;
  `loop_ctl.rs:725`: a wind-down still drains the seam, and an engagement in it ends
  the sweep.
- `session_cog.rs:1574`: an execution of ENGAGING whose turn is the degrade's
  publishes nothing, against the comment at 1580.
- `session_bus.rs:1041`: a release broken off by a fault leaves its snapshot, and the
  next STOPPING resumes its cursor and its released rows, against `disarm.rs:316`.
- `session_ladder.rs:167`: a `TorqueOffUnconfirmed` heard while a release is owed is
  answered by nothing, and a session RESTING by a fault stays so, against
  `fault.rs:223`.
- `session_bus.rs:960`: the rows of an engagement are chosen at the first ask and
  named again however they have been flagged since, against
  `fault-management.md:127`.
- `session_cog.rs:1000` and `:1007`: an engagement's answer is matched by its being
  pending.  With `stall` the late answer to one given up on is taken for the next
  one's; with `bus` a re-issued `EngageNow` still in flight when the first is
  declined takes hold of a machine whose session went to rest; with `bus` and
  `sweep` one of rows still believed is confirmed under a latch that sweeps them.
  `RestIsLimp` and `ActiveIsHeld` hold without those faults.
- `mover_overlay.rs:358`: under an open window a `base_keep` step stops nothing; the
  base rides on to where it was sent, where `schedule.clk` says it holds.
- `tick.rs:964`: a `Track` is said to face the per-tick step against the last goal;
  `take_track` asks the envelope only, as its own comment says.  A base stepped
  while the tick returned early or refused is then commanded as one larger step:
  `StreamIsContinuous` says nothing of that step (`adrift` in `Mover`) and of every
  other one that it is no larger than the base and the clip make it.
- `motion_cogs.rs:1123`: a fault that takes the tick out of service behind an earlier
  report of the same burst is counted and never told, and `collect` does not tell
  it again.
- A schedule that names a new pose every period keeps starting moves, and a move
  just started emits no setpoint: the base stands still (why `ArrivesInTheEnd` is of
  a settled world).

## What is proved

`GoalGateProofs`: `TypeCorrect`, `GateIsSound`, `InOrder`, `NothingOutlives`,
`OnTime`, `WarningsAreComplete`, `DeadMan`, `NeverSuspended`, `GateKeepsItsPromise`.  Assumed: only
the typing of the constants and that `NoGoal` is not a goal.

Hardly any of the safety properties is inductive alone.  `GateInv` adds what the code
relies on without saying: every entry of the line arrived after the last latch or
clearing (`dead` bounds it from below, `arrived` from above); the held setpoint of
a gate that is not latched is live and its instant has come, so that a setpoint
from before a latch is held only under one and `release_latch`, which forgets it,
is the only way it meets an armed machine; and the dead-man's stamp is exactly the
last word the driver acted on.  `LineStep`,
`AuthorityStep` and `ClockStep` are its three parts, one step per action each;
the theorems are read off it.  `GateStepIsPromised` is the refinement's step: it
needs the order of the line, because executing the head takes the old held
setpoint's authority away and must not take the new one's.

`DriverProofs`: `DriverTypes`, `EveryLatchIsRead`, `ReleaseWins`,
`WireFailureAbsorbs`, `DeadManIsArmed`, `BeliefCoversTheMachine`,
`ConfirmationIsTrue`, `EndsTruthfully`, under the typing of the constants alone, for
any number of servos, any sets of rows a host engages or enables and every mix of
hazards.

The strengthenings: `Asleep`, what a driver that is not in a cycle is known not to
have; `PassInv`, a latch stands exactly while a pass does and a verdict needs a
whole pass; `Outranked`, a released machine has nothing asked of it; `Absorbed`,
past the start of a cycle a stopped reader has emptied every request.  Belief
covers the machine because every arming either names a row, and then credits or
marks it, or ends a latch over it, and then leaves it `unnamed` (`CreditKnows`).
For the confirmation, the rows below the cursor stay released but for the `stray`:
every enable that is read ends the pass, and one that is not marks its row.

`CycleLoopProofs`: `LoopTypes`, `NominalForward`, `SkipsCount`, `StopAnswered`, for
every period, lateness, cost of a cycle and size of a clock step, and wherever the
step comes.  `AttendedAcrossSteps` is of a clock that has stepped only across a
sleep (`~unseen`); a step elsewhere breaks it, see the findings.  `FirstPoint` says what
rounding down buys the grid: the point it names is less than a period off and
exactly the points before it have gone by.  `OnGrid` adds that the cycle in hand
sits on the grid and bounds how far the clock has run past it.  `StopSoFar` bounds
the stop's wait at each place of the loop.  `Attended` is the argument for the
machine's: between cycles the next instant is never more than a period off, so a
sleep ends at it unless the clock stepped, and then the step pays for the sleep
that is made again.  A step outside a sleep breaks exactly that first part.

`ConversationsProofs`: `ConversationsAreSound`, `ConversationTypes`,
`ConfiguresTheKnown`, `DoneMeansAll`, `ReleasedMeansConfirmed`, for any number of
servos, provisioned cells and profile registers, any set of antennas and any
answers, under the typing of the constants and a machine of one servo or more.
`Fits` (in `SequencersProofs`) is the strengthening: one predicate to a phase (`InPresence` to
`IsCommissioned`, `PollFits`, `DisarmFits`), each saying that every step below the
cursor is on the record as its phase needs it, and that the phases passed are
there whole.  An answer is noted (`Noted`) only at the cursor, so that a sweep
behind it is never undone; the rail may be swept again, which is why `InVoltage`
ties the rail as read to what was last heard and not to what once was.  A poll of
sparse rows needs more: the row it stops at is the least of those left
(`LeastIs`, from the well-foundedness of the numbers), so none was passed over.

`MoverProofs`: `MoverIsSound`, `MoverTypes`, `PublishedIsStood`, `HeadingIsKept`,
`NoStepInTheStream`, for every library of poses on a line, every schedule and
every reach of a clip, from the typing of the constants.  The strengthening has
three parts beside the types.  `Agrees`: the mover's record of the step it
dispatched, and of whether the schedule is news, is the one kept apart from it.
`Going`: where the base heads is the place of the step last dispatched, which is
what a hand-back or a re-anchored row resumes, so that it is also where the
schedule sent it.  `Tied`: while a clip rides and nothing was refused, the
setpoint is the base and the clip's contribution and nothing else, which is what
makes the difference of two setpoints the base's point and the clip's change.  Where
a row is let go, `Uncomposed` keeps that tie: by the subtraction, which leaves the
setpoint where it was, or, under a posed clip, by a base that stays where it stood,
which leaves the change of the contribution.

`SessionProofs`: `SessionTypes`, `NothingIsBesideARelease`, `StowsAreGoverned`,
`TransactionsHaveOneOwner`, `AsksOnlyOfTheFit`, and the refinement of `SessionLife`,
`LivesThePromisedLife`; for any number of servos, budgets, scripts and wakes, under the
typing of the constants.  `TransactionsHaveOneOwner` assumes `early` is not among
the hazards: an answer to an engagement given up takes the machine out of the next
one while its rail is still being read, and the read outlives its phase.
`LivesThePromisedLife` assumes `late` is not: that is finding 1.

The code keeps the session in one record and takes it through an execution
handler by handler, and so does the proof.  `Sane` says of a slot alone what every
handler keeps, a conjunct to an idea: `Owing` and `Ending`, what a release takes with
it; `Stowing`; `Asking`, an engagement is asked for in ENGAGING alone; `Owned`, the transaction's
owner; and `Disarming`, a disarm's snapshot is kept only in STOPPING and PARKED, so
that a STOPPING begun in this turn is not ended in it by an old one.
Every operator from slot to slot has a lemma saying that it keeps `Sane` and what
else it may move (`Goes` and `Follows` of the phase, `Ran` of a bus turn), so that an
action is the composition of a few facts and not of their definitions.  Where the
snapshot of a sequence stands is `Runs`, from `SequencersProofs`.  What is not of the
slot is tied to it by four more: `Says`, the datagram and the release owed agree
once the turn is over; `Governed`, a stow re-ranked has said so by then;
`SentUnderCommand`, a mover's goals are let through only by a machine under command,
which is why a raise finds one; and `Scalars`, the types.

`SessionDriverProofs`: `BothIsASession`, `BothTypes`, `RestingIsLimp`,
`OffBeforeForgotten`, `CommandIsHeld`, for any number of servos, lines of any length, any
budgets and scripts, and whatever arrives in whatever order.  `BothIsASession`
assumes nothing: with a driver behind it the session is `Session` still, so every
theorem of `SessionProofs` is one of the two together.  The other four assume:
- `Faults` within `{lost, sweep}`: any datagram may be lost and any release may not
  take.  Any one of the others breaks `RestIsLimp`: `stall` and `bus` as the findings
  say, and `displaced` because a remark in the event slot hides the answer to an
  engagement, which the session then gives up while the machine is held, until the
  dead-man lets it go.
- no `late` among the hazards.  With it a disarm broken off by a fault comes back in
  the next STOPPING with rows it released before and the machine holds again, which
  `StaysFreed` below excludes.  TLC finds no violation there (two servos, two
  scripts): the row in flight at the break is never filed, so such a disarm ends
  unconfirmed and the machine is released again.  That argument is not proved yet.
- `AuxTimeout # 0` (`session_params.textproto:12` has 200 ms).  At 0 an engagement is
  given up in the tick it was asked for, its ask still in line, and TLC finds a
  machine at rest taken hold of.

That what the session says of the machine is true of it is not of either
process: it is of what is on its way between them.  So the invariant, `Bond`, is
written over five things at once, the slot, the datagram it has yet to send, the
driver, the line to it and the line back.  For a release: while a pass runs or its
verdict is in line the release is still owed and nothing but releases is in line
(`SweepsAlone`), and a release in line that would begin a new pass is of one still owed,
with no other word behind it (`LastWord`); so a verdict is never about an
earlier release.  For an engagement: what is in line, asked for, believed and
confirmed is what the session asked for, and once it has given up there is none
(`EngagesOne`), because time passes only past an empty line and a driver that has
answered; at rest there is none either (`RestsLoose`).  For a
disarm: a row it has released is not believed held nor about to be
(`StaysFreed`), its transaction in flight has one copy (`OneCopy`), and no
engagement is behind it (`NoneBehind`, `AsksNext`).  `Wired` is of the driver alone,
`Apt` of the slot.  `BothKeep` goes through the steps; those of the session
that hear a word or take a turn carry the two action properties with them
(`TrulyHeard`), where the word is read.

Only model-checked: the liveness properties, because the provers reach neither
liveness under fairness nor `ENABLED`.  The type invariants of `SessionDriver` and of
`Conversations` are no run's, being proved.

## Not modelled, and why

Angles, trajectories, kinematics and clips are floating-point data; no decision
modelled here reads them but through an answer the models leave free.  The frame
codec and its checksums are byte arithmetic: an exchange takes effect or not, and
is answered or not.  The health rotation, the counters, the samples and the status
record change nothing that torque depends on.  The inbound channels' depth is left
out: a datagram dropped there is one lost.  Of the session, the timeline and its
narration, the overdue-release warning, a slot that does not validate (and the
resume checks of a stored snapshot with it), and where a script's motion goes.  Of
the mover, the report slot, samples and slots that do not validate, the screening
of the clip library, and how a player plays.  The judging of positions over
windows (`tracking`, `stillness.rs`, `verdict.rs`) is a free reading.  The edge and
the voice host are the plan below; the bench and the reports read logs and
command nothing on their own.

## Plan

1. (done) the gate, its abstract promise and its proofs; the driver and its safety
   proofs; the loop and its proofs.
2. (done) the sequences and the mover, each with its proofs; the session and its
   abstract life, the session over the driver.
3. (done) the session's proofs and the refinement of its life; those of the session
   and the driver together, over what is in flight.  Next, theirs without the
   premise on `late`: `StaysFreed` for a disarm that may have been broken off.
4. `Player`: a clip's join, blend and stop without the curves, and the screening of
   windows (`overlay.rs`, `reachy-clips/player.rs`), under `Mover`'s `Windows`.
5. `Stillness`: the windows obstruction and stillness are judged over.
6. `IntentQueue`, `Intake`: the host's bounded queue and the edge's numbering over
   restarts.
