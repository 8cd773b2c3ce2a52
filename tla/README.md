# Sunray flight control: TLA+ specifications and proofs

This directory holds a verification development for the Sunray flight stack:
TLA+ modules translated from its C++ sources, the TLC configurations that
model-check them on small instances, and theorems that TLAPS proves for every
value of the constants. Paths below are relative to `src/`; `SM` is
`control/uav_control/src/sunray_statemachine/sunray_statemachine.cpp` and `CB`
its companion `sunray_statemachine_callbacks.cpp`.

    tlc -workers 2 -config MCStateMachine_services.cfg MCStateMachine
    tlc -workers 2 -config Landing_holds.cfg Landing
    tlapm StateMachine_proofs.tla
    tlapm Landing_proofs.tla

`PROJECT.json` maps every definition to the lines it models and lists the runs,
the mutants that show each property can fail, the hazards and the theorems.

## 1. Inventory

The repository is a ROS 1 stack for a multirotor with a PX4 autopilot. Its own
logic is in `control/uav_control`, `common/px4_bridge`, two web demos and
`localization/sunray_mocap`. Vendored or generated code (`common/sunray_log/spdlog`,
`drivers/*`, `localization/fast_lio` and `sfast_lio`, `planning/source`,
`tools/build_scripts`) is left aside; `communication`, `detection`, `swarm` and
`ugv_control` are empty.

One process, `sunray_fsm_node`, runs the core with three threads: the main thread
calls `update_slow()` at 10 Hz (the *supervisor*), and the two threads of
`ros::AsyncSpinner(2)` run the ROS callbacks and the 100 Hz timer that calls
`update_fast()`. They share `fsm_mutex_`, `event_mutex_` and a mutex per cache of
the data reader. None is held over a whole operation.

| component | state | operations | hard behaviours | correct when |
|---|---|---|---|---|
| **Flight state machine** (`SM`, `CB`) | flight state (11), queue of events, return request and target, owed landing, hover timer, odometry stamp | service and stream callbacks, `queue_event`, `process_pending_events`, `handle_event`, entry actions, rounds of `update_slow` | every lock is released between check and use: a callback runs between the supervisor's sections, an event meets another state than the one it was checked in | controller and flight state agree; an owed landing or a return is neither lost nor left behind; emergencies are obeyed; phases end |
| **Control source arbitration** (`SM` 222-403) | active source: id, priority, sequence id, stamp, timeout | accept / replace / preempt / expire / clear | expiry is found by two parties; a service clears the source after its event may have been handled | a command is refused only for a source that is alive; a silent source is let go |
| **Controller modes** (`base_controller`, `sunray_attitude_controller`) | controller mode, reference, trajectory buffer, landing context and touchdown latch | mode setters, `set_trajectory`, `update` at 100 Hz | the controller changes its own mode at the end of a take-off; setters may refuse | modes are entered from legal modes only |
| **Landing: PX4's side** (`SM` 269-325, 743-1000, 1212-1374) | two hold timers, retry timers, cached PX4 state | arm, disarm, OFFBOARD, AUTO.LAND requests with retries | stale readings; PX4 acts by itself; requests may fail | arms to land at most in the race with PX4's own disarming, short of it OFF means disarmed, landings end |
| **Control arbiter** (`sunray_control_arbiter`) | a slot per source: output, stamp, priority | submit, clear, arbitrate, validate, publish | the loop submits what it computed from an older state; freshness window of 0.2 s | after a change of state one output at most is late, but for the emergency's last one, which ends with the window |
| **Trajectory buffer** (`trajectory_buffer.h`) | active and at most one pending trajectory, ids, status | push, activate, sample | activation times in the future, a trajectory of one point, the last sample | the reference is where the time stamps put it; the end is reported once, at the end |
| **RC exit guard** (`rc_offboard_exit_guard_node`) | switch position, PX4 mode, last request | RC and state callbacks, mode request | two processes fight over PX4's mode on old messages | the switch gets through, a landing by PX4 is left alone |
| **Client helper, robot group** (`sunray_helper`) | cached flight state, targets | `*_async`, `*_block` | a state published before a call and delivered after it | a blocking call returns true only when done |
| **PX4 position controller** | its own modes and curves | alternative to the attitude controller | leaves TAKEOFF for LAND by itself | agrees with the flight state |
| **PX4 bridge** (`px4_param_manager`, `px4_data_reader`) | text received from PX4's shell, estimator updates, state cache | parameter set and EKF2 restart, subscriptions | partial failure of a multi-step restart, replies without a number | success means restarted |
| Curves, geometry | none | polynomials | floating point | not for TLC |
| Web demos, mocap bridge | none | request forwarding, message conversion | none | - |

How they interact: clients call services (take-off, land, return, single position)
or publish enveloped commands (velocity, attitude, trajectory, complex) to the
state machine. A callback first writes what the command carries (the reference, the
source, the return request), then offers an event. Only the supervisor changes the
flight state; each change runs an entry action that calls a mode setter of the
controller and is abandoned when the setter refuses. The 100 Hz loop runs the
controller, ages the landing holds and sends the output through the arbiter to
MAVROS. The supervisor reads PX4's state from a cache and calls MAVROS to change
PX4's mode and arming. A helper learns the flight state from a topic.

## 2. Modules

    FsmTable <- SourcePolicy <- StateMachine <- StateMachineProps <- MCStateMachine
                                                                  <- StateMachine_proofs <- StateMachine_refinement
                                FlightLifecycle (abstract) <~~~~~~~ implemented by
    FsmTable <- Landing <- Landing_proofs
    FsmTable, ControlArbiter <- FastLoop <- FastLoop_proofs
    SourcePolicy <- ControlSource, TrajectoryBuffer <- CommandStream <- MCCommandStream
                                                                     <- CommandStream_proofs
    FsmTable <- SunrayHelper <- SunrayHelper_proofs
    RcGuard <- RcGuard_proofs        ParamManager <- MCParamManager
                                                  <- ParamManager_proofs

**FsmTable** is the transition table of `resolve_next_state_locked` (SM 465-684) as a
set of triples, the controller's modes, and the modes in which a setter does not
refuse. **SourcePolicy** is `accept_control_meta_locked` (SM 327-403) as predicates.

**StateMachine** is the command path. *One action is one critical section*: where
the code releases a lock, another thread may run.

| code | model |
|---|---|
| a service or stream callback up to its call of `queue_event` | `TakeoffSrv`, `LandSrv`, `ReturnSrv`, `PositionSrv`, `VelocityCmd`, `AttitudeCmd`, `TrajectoryCmd` / `TrajectoryRefused`, `ComplexCmd` |
| `queue_event`: check under `fsm_mutex_`, append under `event_mutex_` | `CheckEvent`, `PushEvent`, with the event kept in the thread's record `wk[w]` |
| a service's late clearing of the source | `ClearSource` |
| `process_pending_events`: swap, then each event | `SwapPending`, then `HandleEvent` per event |
| `handle_event` + `transition_to_locked` + entry action | `HandleIgnored`, `HandleSelf`, `EnterTakeoff` ... `EnterOff` |
| the large section of `update_slow` | `Sample` (timeouts, returns, owed landing, expiry) |
| landing after RETURN_COMPLETED | `MarkLandAfterReturn` |
| the last section and its if-chain | `Resample` |
| `update_fast` | `FastUpdate`, `FastTakeoffReached`, `FastTrajectoryEnds`, with the report of stale odometry |

The supervisor's place is `sup.pc`: finish, drain, act, mark, in the order of
`update_slow`. A reference is where it leads (a goal, home, the point it was set at,
a velocity, a path); `at` is the position the code compares it with. A timer is
"elapsed or not" and elapses by a step of the environment. PX4's arming and the
confirmed landing are two free booleans, `armed` and `holdOk`; Landing gives them
their causes.

**Landing** is PX4's side of a landing. Both loops read the PX4 cache *before* they take
the lock (`ReadPx4`, `FastReadPx4`) and act on the reading later (`SampleHolds`,
`FastSection`); the supervisor's requests read the cache again. `StateArrives` and
`ExtStateArrives` are the two MAVROS callbacks that fill the cache separately. The
holds are ages in ticks; a request made less than one retry interval ago is in
`waits`. Landing starts where StateMachine's theorem `ControllerFollows` ends: the
controller's mode is that of the flight state, and HOVER stands for all airborne
states that need OFFBOARD. A failed service call is a request PX4 does not follow. PX4 may disarm by
itself at any time on the ground (`Px4Disarms`, which SM 893 anticipates). The history variable `race` says how
that meets the supervisor, which reads `armed` when its round begins and again before it arms: it is "open"
from PX4's own disarming until a round begins that knows of it, and "lost" from a landing's arming the vehicle until
the motors are armed for a flight.

**FlightLifecycle** says what an operator may rely on, in eleven actions over three
variables: ground, climb, air, return, descend, each with the motion that fits it, and
the landing a return owes. `Lifecycle` in StateMachineProps is the refinement mapping.
Queue, threads, sources, references, timers and refused mode setters disappear.

**ControlArbiter** holds the slots and `select_candidate` as the maximum of (emergency,
priority, stamp) over the fresh ones. **FastLoop** is a round of `update_fast` around it:
`TakeSnapshot` is the section under `fsm_mutex_`, `EndWithOutput` what follows after its
release, and `Supervise` any transition of FsmTable in between. Only the slots EMERGENCY
and EXTERNAL exist, since nothing submits the other four. `late` remembers that an output made for another
flight state has been sent since the state changed: EXTERNAL's by a round whose snapshot is older, EMERGENCY's by any
round outside EMERGENCY_LAND.

**ControlSource** gives the active source its clock: the age of its last stamp, negative
for a sender whose clock is ahead, and the timeout that command or the configuration
asks for. **TrajectoryBuffer** is `sample` over time stamps. **CommandStream** composes the two with
the part of the flight state machine that commands enter and leave: a callback is one
step (its lock gaps are in StateMachine), `Follow` the controller at 100 Hz, the rest the
sections of `update_slow`, where a completion is sampled (`due`) and handled later.
`Base_Controller::set_trajectory` clears the buffer before every push: the buffer's pending
queue and id check are unreachable and therefore not modelled.

**SunrayHelper** is a client and its view of the machine: the supervisor publishes one
state per round into a queue that loses its oldest entry, the subscription is latched
and may be established late, `Begin` is a service call and `Answer` its return, `Poll` a turn of the
wait. The state machine is FsmTable with a queue and free completions; take-offs and
landings last at least `MinStay` rounds.

**RcGuard** has the guard's two callbacks against `EnsureMode`, the supervisor's mode request,
for any sequence of wanted modes, and a pilot who moves the switch and may choose a mode
himself.

**ParamManager** is `set_ekf2_*`: `Restart` lists the commands of `boot_ekf2`, `Send` and
`Prompted` are the two ends of `run_nsh_cmd`, and PX4's shell executes what arrives. A reply is the
text `ekf2_running` looks for and a prompt, delivered one by one.

### Assumptions of Landing about time

A `Tick` is the retry interval, 1 s; the hold is `HoldTicks` of them (3 s in the code; the runs take 1 and 2, the
theorems any number above 1). With a hold of a single tick TLC finds `NeverArmedToLand` broken
(the other two then hold only because they except a vehicle armed in a landing): such a hold may rest on stale readings. The loops
run ten and a hundred times a second, so a tick needs both loops to have taken a
section since the last one, neither to hold a reading it has yet to act on, and the
cache to have caught up with PX4. This is an assumption about scheduling that the
code does not enforce. Without it TLC shows all three safety properties
broken, for example by a 100 Hz loop that sleeps over seconds on an old reading. PX4's own landed
state is taken to be right; only the cache is late.

### Assumptions of the others about time

FastLoop: a tick (0.1 s; `OutputTimeout` = 2) does not fall inside a round of the 100 Hz loop, so
an output is fresh when it is submitted. SunrayHelper: the queue of 10 messages holds 1 s of
rounds (10 Hz), fewer than a take-off or a landing takes; `QueueSize` = 2 and
`MinStay` = 3 keep that order. CommandStream: ages are counted up to `MaxAge`, above every
timeout plus skew. ParamManager: faults are budgeted (below); a prompt that times out is one
of them unless its command was lost.

## 3. Runs

| run | instance | states | shows |
|---|---|---|---|
| services | 1 thread; take-off, land, return (valid or not), position; odometry may stop | 1.1 M | the type invariant, all four safety invariants, `EmergencyIsObeyed`, and that FlightLifecycle is implemented |
| streams | 1 thread; velocity, trajectory, attitude and complex commands against return | 2.7 M | whatever a command leaves behind, state and controller agree and no state inherits the return's target |
| liveness | 1 thread; take-off, land, return (valid or not), position; one event queued; fairness | 201 k | lost odometry lands; take-off and landing end; a return lands unless its reference is replaced or another return asked for |
| landing_holds | hold of 2 ticks, both landing types, PX4 may disarm by itself | 446 k | types; a landing arms the motors only in the race with PX4's own disarming; short of it OFF is disarmed and disarms by PX4's hold happen on the ground |
| landing_ends | hold of 1 tick, both landing types, PX4 may disarm by itself, fairness | 447 k | every landing reaches OFF |
| fast_loop | output timeout of 2 ticks | 730 k | after a change of state one output late at most, but for the emergency's; the own output is sent but for an emergency's fresh slot |
| command_stream | 2 sources, skewed clocks, own or configured timeouts, five trajectories: empty, malformed, one point, two and four | 14 k | who holds the vehicle, which point is followed, how a source and a tracked trajectory end |
| helper | all seven calls; take-offs, landings, emergencies and position requests of others | 544 k | a reported success was flown |
| rc_guard | launch file's parameters, one choice of mode by the pilot | 252 k | the switch gets through; AUTO.LAND settles |
| params | two values; up to three late replies, or two lost commands and two refused stops | 20 k | within these budgets success means restarted; a clean call succeeds |
| return_hijacked, helper_position | | | violations, section 5 |

*Bounds.* Goals {gA}: with `home`, `away`, the point the reference was set at and the
two streams a single goal already lets a target be reached, missed and replaced.
Sources: `api` (priority 20) and `rc` (100, not numbered), which gives replacement,
preemption and refusal. `MaxSeq` = 1: numbered or not. `MaxPending` = 2: two different events
queued between two rounds, the least that makes order matter; `PushEvent` waits when the
queue is full (the code's queue is unbounded); the liveness run has 1, since a position request is
there for every call that replaces a return's reference and an invalid return for one that is refused. One thread interleaves callbacks with the
supervisor in every order; callbacks that overlap each other on two threads are
covered by the proofs, which hold for any number. Kinds of request are split between
`services`, those that change the flight path, and `streams`, those that fight over the
reference, because they multiply the states. CommandStream's timeouts (the source's own, 1 or 2
ticks, and 3) against delay 2 and skew 1 let a source be judged alive, late on arrival and ahead; the
stamps 0, 1, 1, 3 give a first, an empty and a last segment, 1, 2 a time before the first stamp. ParamManager's `Budgets`: three late replies
(a fourth breaks the property), or two of each of the other faults.
RcGuard's `Choices` = 1 and a queue of 2 messages: one message from before and one from after a request.

*Fairness* (`FairSpec`). StateMachine: the main thread loops for ever (`WF UpdateSlow`) and a
callback that has begun runs to its end (`WF QueueEvent(w)`); the 100 Hz timer fires
again and again, so a take-off the controller keeps finding complete is seen
(`SF FastTakeoffReached`); a vehicle steered home arrives, PX4 disarms when the hold
is satisfied, the hold and the hover timer elapse (WF). Nothing makes a client call.
Landing: both loops run (`WF Round`, `WF UpdateFast`) and are infinitely often between
two readings at once (`[]<>BetweenRounds`: they sleep 90 and up to 10 ms per period);
messages arrive (WF), time passes (`SF Tick`), a vehicle in a landing that PX4 or the
controller flies comes down (`WF TouchDown`); PX4 obeys a request that is
repeated for ever (SF on the successful `EnsureDisarm` and `EnsureMode`).
CommandStream: time, the controller's timer and the supervisor's sections (WF), no commands.
RcGuard: the remote control, MAVROS and both processes keep going (WF); PX4 obeys one of
the mode requests it is sent for ever (SF on the successful `RcCb` and `EnsureMode`).
ParamManager: the shell, the link and the caller proceed (WF), the prompt's timeout is not
forced: a call with no fault ends by itself.

Deadlock is checked in every run: something can always happen in every system.

## 4. Proofs

`StateMachine_proofs` proves, for any number of threads, any goals, sources,
priorities and bounds, with and without loss of odometry:

- `TypeCorrect`: `Spec => []TypeOK`.
- `Invariant`: `Spec => []IInv`, where `IInv` is `TypeOK` with `ControllerFollowsState`,
  `LandingOwedOnlyInHover`, `ReturnHasTarget` and `ReturnTargetNotInherited`; the four
  corollaries state each of them as a property of the specification.
- `EmergencyObeyed`: the action property, from the same invariant.

*Why the conjunction.* None of the parts is inductive alone. The landing owed is
cancelled by the entry actions, which run only if the controller accepts the mode, and
it accepts because it was in the mode of the old state (`ControllerFollowsState`).
Return's target is cleared before the setter may refuse; that the setter never refuses
in RETURN again needs the controller's mode. The event `RETURN_COMPLETED` leads to
`mark`, where the machine must be in HOVER: no other thread can move it there, since
only the supervisor writes `fsm`. The proof has a step per action; the transition
table enters through one lemma (`TransitionFacts`) that says from where each state is
reached, so no step enumerates it.

`StateMachine_refinement` proves `Refinement`: `Spec => ImplementsLifecycle`. Each action is
shown to be a step of FlightLifecycle or to leave `Lifecycle` unchanged. Two invariants make it go
through. By `IInv` an entry action's setter never refuses once its event is taken, so the owed landing
is never left behind. By `EndInv` callbacks never queue TAKEOFF_COMPLETED; it is handled only in TAKEOFF
and after the controller has reached HOVER, so the lifecycle's climb ends where the code's does.

`Landing_proofs` proves `LandingTypeCorrect` for every hold length and every set of landing types,
and the three safety properties as `OffDisarmed`, `DisarmGrounded`
and `NeverArmed` under one hypothesis, `LongHold`: a hold longer than the retry interval (3 s and 1 s,
the first fixed at `sunray_statemachine.h:315`). PX4 may disarm by itself at any time on the ground. That is
what can go wrong, and the theorems say that nothing else can: `NeverArmed` that a landing arms the motors only while
`race` is not "none", the other two that what they promise holds unless the race is lost. TLC finds all three broken
without the exception. The invariant has a part that holds whatever PX4 does, `Always`, and a part that
holds until the race is lost and again from the next flight's arming on, `Safe`. Two facts more than about holds and readings are needed for the
race: while it is open the motors are off (`OpenIsDisarmed`), and only a round that has read of it closes it, so that outside
the race nobody takes a disarmed vehicle for an armed one but in a confirmed landing. Arming outside a landing restores
`Safe` by itself, for the supervisor that arms has dropped every hold of the last landing (`OldHoldIsDropped`, in `Always`). The parts in turn:

- The two loops' holds are made from readings older than the lock. Once a hold that began while the vehicle
  flies has lasted a tick, both loops have looked again and the cache has caught up: nobody reads "ground" any more,
  and the next look by either loop drops the hold (`HoldInAirIsDropped`). A hold that has lasted a tick and survived
  a look since is therefore one on the ground (`HoldSurvivesOnGround`).
- Once PX4's hold has lasted two ticks, everything that is read of the landed state, in the cache or already
  in a loop's hands, says ground (`GroundIsKnown`). Hence a disarm by PX4's hold is on the ground.
- Once a hold has lasted a tick, an armed vehicle is known to be armed (`ArmedIsKnown`): a reading in which the
  vehicle is not yet armed cannot survive from before the take-off. Hence `finish` sees OFF's condition truly.
- In a landing the motors are off only by a confirmed hold, which stays confirmed, unless the race is open (`DisarmedIsConfirmed`,
  `ConfirmedIsHeld`): the supervisor that may arm again looks at the hold first.
- A hold left from the last landing is gone before the motors are armed (`OldHoldIsDropped`), and
  a latch belongs to its landing's context (`LatchHasContext`).

`FastLoop_proofs` proves `FastTypeCorrect`, `LateOutputIsOnly` and `OwnOutputAlwaysSent` for every
output timeout. The invariant `FastInv` says that after a late output the loop either rests or is
working for the present flight state, so that what the next round submits is not late as well; and that
the age of the emergency slot is what has passed since an emergency round was last published,
so that a slot that still competes is an emergency not yet over for the timeout. The emergency's slot is the exception
in the statement: when EMERGENCY_LAND ends in OFF and a take-off follows within the output timeout, every
round of TAKEOFF until then sends the emergency's last output again (`sunray_control_arbiter.cpp:195`).

`SunrayHelper_proofs` proves `HelperTypeCorrect`, `SuccessIsReached` and `GroupSuccessIsReached` for
every queue, every delay and whatever events others cause, ends of take-offs and landings excepted
(only the supervisor reports those), from one assumption on time: `MinStay > QueueSize`. The
invariant `HInv` carries the argument. As many of the newest messages as rounds have gone by in
this flight state say so (`RecentAreCurrent`); a take-off or a landing that has lasted
`MinStay` rounds has therefore pushed every older message out of the queue; so in flight no OFF is
under way, on the ground no HOVER (`OldFlightForgotten`), and a call accepted there
has nothing to be fooled by (`WaitsUnfooled`). POSITION_CONTROL may last one round, which
is why the same fails for `set_position_block`. The group's calls leave the cache alone, so their
invariant `GInv` is about the newest message, in the queue or in the cache: a state that has lasted a
round is the newest message, unless the cache holds what a call has written, which no call waits for.

`CommandStream_proofs` proves `StreamTypeCorrect`, `CompletedAtItsEnd`, `RefusalsHaveALiveSource` and the action
property `ReferencesOnTime` for all sources, priorities, timeouts, clocks and trajectories. The invariant
has a part for each group of variables. The machine's part says that only the events of the three control
states are queued. The holder's relates its age to what the model remembers of it: the stamp of the
last command is no younger than its arrival, but for the skew, until ages are no longer told apart, and
every timeout ends before that. For the reference, `SegmentFound` shows that `sample`'s search succeeds before
the end and `FirstIsLeast` that no point of a validated trajectory comes before the first: both take the least index with
a property, which exists by the well-foundedness of `<` (`Least`). They are what tells an empty segment
from a later one, and the first segment, which alone may begin after the time that is asked for.

`ParamManager_proofs` proves `ParamTypeCorrect`, and `SuccessRestarts` under the hypothesis `Tolerable`: every
budget of faults has no late reply (and any number of lost commands and refused stops), or up to three late
replies and nothing else. It is sharp: TLC finds the property broken by four late replies, by
one with one refused stop and by two with two lost commands. Each case has its invariant. `Punctual`:
whatever is under way belongs to the command the caller is at, so its answers are true, and the status
after the stop has shown the estimator down before the start. `Lagging`: no more texts are under way than three
replies (`Bounded`), the commands of this call are executed in their order (`InOrder`, `Effects`), and
between the first status and the last no reply says "running" (`NotRunning`). To be read as the answer to the last command
an earlier "running" would have to come from four replies back.

`RcGuard_proofs` proves `RcTypeCorrect`: the guard's queue and both clocks keep their bounds.

`ResolveIsDeterministic` (in `StateMachine_proofs`) shows that the transition table is a function, so that the actions
which take any member of `Resolve` take the one the code's switch returns.

*Assumed*: only the named assumptions on constants, which TLC evaluates in the runs.

*Model-checked only*: all liveness, in the runs liveness, landing_ends, command_stream, params and rc_guard (fairness and
ENABLED are beyond the prover). `SuccessMeansRestarted` with one late reply and one lost command, which TLC finds
to hold, is within neither case of `Tolerable`. Every invariant and action property of a passing run is stated by a theorem, those of
Landing and ParamManager under the hypotheses named above. No module declares a recursive operator.

## 5. Where code and documentation part

Two runs must end in a counterexample.

1. `return_hijacked`: a velocity stream goes on during a return. Its callback hands
   the reference to the controller before and whether or not its event is taken
   (CB 170), so the vehicle flies the stream in state RETURN. The configuration says
   low-rate services interrupt the stream (`sunray_control_config.yaml:29`). What *is*
   guaranteed, and proved, is the converse: the stream's state never inherits home.
2. `helper_position`: `set_position_block` is documented to wait for the switch from
   POSITION_CONTROL back to HOVER (`sunray_helper/readme.md:59`). It writes POSITION_CONTROL into
   its cache after the answer and then waits for HOVER: one published before the request was handled
   and delivered after the answer makes it return true before the flight has begun.

Met while modelling and seen with TLC, without a run of their own since no document promises
otherwise:

- *Position complete too soon.* "Target reached" is sampled in one section (SM 743-819) and
  handled in another (SM 938); a position request in between is reported complete unflown.
- *Return lost.* A rejected return request overwrites the stored one (CB 75), so an accepted
  return whose event is still queued fails on entry. A second return request that is queued while the vehicle hovers
  at the end of the first cancels the owed landing when it is handled, even if it is refused then. And a
  return whose reference was replaced, by a refused position request (CB 116) or by any stream (CB 170), never
  arrives: the vehicle stays in RETURN. `ReturnLands` names these as its exceptions.
- *Trajectory dropped.* A trajectory accepted while the completion of the one before waits to be handled
  (sampled at SM 926, handled at SM 941) is dropped by the entry into HOVER without a point of it flown. `TrajectoryEnds`
  promises nothing in this gap.
- *Touchdown fallback.* The controller's touchdown latch is set by one reading and not released in the
  landing; after the hold it disarms even while PX4 reports to be flying (SM 780). The header
  calls it a fallback for a missing landed state (`base_controller.hpp:198`). Hence
  `DisarmByPx4Grounded` speaks of PX4's hold only.
- *Armed again.* When PX4 disarms by itself between the supervisor's two readings, the supervisor arms
  the landed vehicle again (SM 893-905), and a late cache can end in OFF with armed motors. SM 893 foresees a PX4 that
  disarms by itself, but looks at the first reading only. The three safety properties of
  Landing have exactly this race as their exception.
- *Emergency's last output.* After EMERGENCY_LAND, OFF and a take-off within 0.2 s the take-off's rounds send
  the emergency's last output, which outranks theirs (`sunray_control_arbiter.cpp:195`), until it is older than that.
- *Land type.* A land_type 1 landing never ends if PX4 reports no landed state; the land service
  writes the type before its event is checked.
- *Position refused.* The position service has replaced the reference by the time its event is refused.
- *Trajectory in another state.* In POSITION_CONTROL a trajectory is accepted and flown without
  TRAJECTORY_CONTROL being entered (CB 251; `sunray_helper/readme.md:112` says it is), and is never
  reported complete; nor is a trajectory of one point.
- *Sequence ids.* A command without a number resets the source's id (SM 372-380), after which older
  numbers are accepted.
- *Group landing before the first message* succeeds at once: the group compares the
  helper's initial OFF (`sunray_robot_group.h:324`). `GroupSuccessWasReached` assumes
  that a state was received.
- *Guard against supervisor.* The guard takes PX4 out of OFFBOARD, and the supervisor asks for OFFBOARD
  again within a second while the flight state needs it: "gets through" means that PX4 leaves OFFBOARD, not
  that it stays out. A mode message that waited behind a service call may take one AUTO.LAND away;
  with `require_offboard` false (both launch files say true) AUTO.LAND need not settle.
- *Estimator restart.* A late reply together with a refused stop, or four late replies, make
  `set_ekf2_*` report a restart that did not happen. A failed start leaves the estimator down, and every
  later call then fails its baseline check (`px4_param_manager.cpp:610`).
- The state diagram's exits of VELOCITY_CONTROL are out of date.

## 6. Not modelled, and why

*Code that is not this system's own.* The repository has some 220,000 lines of implementation; all
but a few per cent are spdlog, FAST-LIO, matplotlib bindings, FUEL and other planners, simulators and sensor
drivers kept beside the flight stack. `sunray_fsm_node` calls none of them but the logger. They are
numerical code or other projects' nodes, and a share of lines worth naming cannot be reached
without modelling them; the map covers the decision-making code of `uav_control` and `px4_bridge`.

*Continuous mathematics.* Control laws, curves, geometry, interpolation between trajectory points.

*The PX4 position controller.* `controller_types` is 2 in the repository's configuration, the attitude
controller. The alternative leaves TAKEOFF for LAND by itself when its curve cannot be solved, and the
state machine would not notice: `ControllerFollowsState` would not hold of it.

*Input and output without decisions.* Parameter loading, logging, visualisation, the forwarding of odometry
to PX4, reading parameters, the data reader's other accessors; the web demos and the motion capture bridge
keep no state.

*Within the modelled parts.* The helper's waits for a velocity, a yaw or a pose, which read PX4's odometry;
`confirm_landed_best_effort` (`sunray_helper.h:217`), with which a blocking landing or return waits, once the flight state
has reached OFF, for PX4 to report a landing, and then returns true either way; a group's waiting for several helpers; the arbiter's clamping, its choice of a MAVROS topic and the four
slots nothing submits; the buffer's pending queue and id check, unreachable; a lost MAVROS connection.

## 7. What is left

1. An abstract specification of the landing (down, confirmed, disarmed, OFF) that Landing implements, to
   join the landing's end with FlightLifecycle's.
2. ParamManager with mixed faults: the exact set of budgets under which `SuccessMeansRestarted` holds.
3. The position controller, should a configuration select it: its mode against the flight state, and
   what a refused curve leaves behind.
