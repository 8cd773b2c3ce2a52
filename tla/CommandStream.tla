---------------------------- MODULE CommandStream ----------------------------
(***************************************************************************)
(* High-rate commands against the clock: which source holds the vehicle,   *)
(* what the controller is given to follow, and how both end.  Composes     *)
(* ControlSource and TrajectoryBuffer with the part of the state machine   *)
(* that commands enter and leave.                                          *)
(*                                                                         *)
(* The vehicle hovers or is in one of three control states; take-off,      *)
(* landing and return are in StateMachine.  The lock gaps of queue_event   *)
(* are there, too: here a callback is one step.                            *)
(***************************************************************************)
EXTENDS ControlSource, TrajectoryBuffer

CONSTANT
  Envelopes,    \* the meta data commands are sent with
  MaxQueue      \* bound: length of pending_events_

ASSUME EnvelopesAssumption == Envelopes \subseteq Envelope
ASSUME MaxQueueAssumption == MaxQueue \in Nat \ {0}

VARIABLES
  fsm,       \* fsm_current_state_
  queue,     \* pending_events_
  due,       \* the completion the supervisor has sampled and not yet handled
  active,    \* active_control_source_
  silent,    \* ticks since its last command was accepted (history)
  buf,       \* trajectory_buffer_'s active trajectory
  tracking,  \* trajectory_tracking_enabled_
  done,      \* trajectory_completed_
  ref        \* trajectory_

machine == <<fsm, queue, due>>
holder == <<active, silent>>
followed == <<buf, tracking, done, ref>>
vars == <<machine, holder, followed>>

Hold == [kind |-> "hold"]
Point == [kind |-> "point"]

FlightStates == {"HOVER", "POSITION_CONTROL", "VELOCITY_CONTROL",
                 "TRAJECTORY_CONTROL"}
Completions == {"POSITION_COMPLETED", "TRAJECTORY_COMPLETED"}

StreamTypeOK ==
  /\ fsm \in FlightStates
  /\ queue \in Seq(SunrayEvent)
  /\ due \in {"none"} \cup Completions
  /\ active \in Clocked
  /\ silent \in 0..MaxAge
  /\ buf \in {NoBundle} \cup Bundle
  /\ tracking \in BOOLEAN /\ done \in BOOLEAN
  /\ ref \in {Hold, Point} \cup [kind : {"path"}, seg : Nat, into : Nat]

StreamInit ==
  /\ fsm = "HOVER" /\ queue = << >> /\ due = "none"
  /\ active = NoClocked /\ silent = 0
  /\ buf = NoBundle /\ tracking = FALSE /\ done = FALSE
  /\ ref = Hold

-----------------------------------------------------------------------------
(* The callbacks.                                                          *)

\* queue_event: refused in a state that does not take the event.
Taken(event) == Resolve(fsm, event, TRUE) # {}

QueueEvent(event) ==
  /\ Len(queue) < MaxQueue
  /\ queue' = IF ~Taken(event) \/ (queue # << >> /\ queue[Len(queue)] = event)
                THEN queue ELSE Append(queue, event)
  /\ UNCHANGED <<fsm, due>>

\* A source whose command was not executed holds what it held, if still alive.
KeepHolder ==
  /\ active' = LiveAt(active)
  /\ silent' = IF Expired(active) THEN 0 ELSE silent

Hand(e, st) == active' = ActivateAt(e, st) /\ silent' = 0

\* Mutant of SetPoint: the last trajectory's completion is not reset.
SetPoint_KeepsCompletion ==
  /\ buf' = NoBundle /\ tracking' = FALSE /\ UNCHANGED done
  /\ ref' = Point

\* set_trajectory for one point.
SetPoint ==
  /\ buf' = NoBundle /\ tracking' = FALSE /\ done' = FALSE
  /\ ref' = Point

\* set_trajectory for several: hold the position, then sample at once.
SetTrajectory(points, age) ==
  LET b == [points |-> points, t |-> age] IN
  /\ buf' = b
  /\ tracking' = ~ReachedEnd(b)
  /\ done' = ReachedEnd(b)
  /\ ref' = IF Effective(b) THEN Sample(b) ELSE Hold

\* A single point is taken as it is.
Rejected(points) == Len(points) # 1 /\ ~WellFormed(points)

VelocityCmd(e) ==
  /\ Accepts(LiveAt(active).src, e.meta)
  /\ Hand(e, "VELOCITY_CONTROL")
  /\ SetPoint
  /\ QueueEvent("ENTER_VELOCITY_CONTROL")

TrajectoryCmd(e, points, age) ==
  /\ Accepts(LiveAt(active).src, e.meta)
  /\ ~Rejected(points)
  /\ Hand(e, "TRAJECTORY_CONTROL")
  /\ IF Len(points) = 1 THEN SetPoint ELSE SetTrajectory(points, age)
  /\ QueueEvent("ENTER_TRAJECTORY_CONTROL")

\* The controller refuses a trajectory: an empty one at once, a malformed one
\* after it has dropped the one it was tracking.
TrajectoryRefused(e, points) ==
  /\ Accepts(LiveAt(active).src, e.meta)
  /\ Rejected(points)
  /\ KeepHolder
  /\ IF points = << >> THEN UNCHANGED followed
     ELSE /\ buf' = NoBundle /\ tracking' = FALSE /\ done' = FALSE
          /\ UNCHANGED ref
  /\ UNCHANGED machine

\* The command of a source that may not take over: only its rival's expiry
\* comes of it.
CommandRefused(e) ==
  /\ ~Accepts(LiveAt(active).src, e.meta)
  /\ KeepHolder
  /\ UNCHANGED <<machine, followed>>

\* position_srv_cb: its target replaces what is followed even if its event is
\* refused, and interrupts the source only if it is taken.
PositionSrv ==
  /\ SetPoint
  /\ QueueEvent("ENTER_POSITION_CONTROL")
  /\ IF Taken("ENTER_POSITION_CONTROL")
       THEN active' = NoClocked /\ silent' = 0 ELSE UNCHANGED holder

Callback ==
  \/ PositionSrv
  \/ \E e \in Envelopes :
       \/ VelocityCmd(e) \/ CommandRefused(e)
       \/ \E p \in Trajectories :
            \/ TrajectoryRefused(e, p)
            \/ \E age \in (-MaxLead)..Delay : TrajectoryCmd(e, p, age)

-----------------------------------------------------------------------------
(* update_fast: the controller, in MOVE, follows its trajectory.           *)

\* Mutant of Follow: reaching the end only stops the tracking.
Follow_NotReported ==
  /\ fsm \in ControlStates /\ tracking /\ Effective(buf)
  /\ ref' = Sample(buf)
  /\ tracking' = ~ReachedEnd(buf)
  /\ UNCHANGED <<done, buf, machine, holder>>

Follow ==
  /\ fsm \in ControlStates /\ tracking /\ Effective(buf)
  /\ ref' = Sample(buf)
  /\ tracking' = ~ReachedEnd(buf)
  /\ done' = ReachedEnd(buf)
  /\ UNCHANGED <<buf, machine, holder>>

-----------------------------------------------------------------------------
(* update_slow.                                                            *)

DropHolder == active' = NoClocked /\ silent' = 0

\* set_hover_mode and the entry action of HOVER.
EnterHover ==
  /\ fsm' = "HOVER"
  /\ DropHolder
  /\ buf' = NoBundle /\ tracking' = FALSE /\ done' = FALSE
  /\ ref' = Hold

\* The oldest queued event: one of the three control states is entered, is
\* entered already, or the event is no longer taken.
HandleQueued ==
  /\ due = "none" /\ queue # << >>
  /\ fsm' \in IF Taken(Head(queue)) THEN Resolve(fsm, Head(queue), TRUE) ELSE {fsm}
  /\ queue' = Tail(queue)
  /\ UNCHANGED <<due, holder, followed>>

\* Mutant of Expire: the source is looked at only while events are queued.
Expire_OnlyPending ==
  /\ due = "none" /\ Expired(active) /\ queue # << >>
  /\ DropHolder
  /\ UNCHANGED <<machine, followed>>

Expire ==
  /\ due = "none" /\ Expired(active)
  /\ DropHolder
  /\ UNCHANGED <<machine, followed>>

\* The supervisor finds the state's task done in one section; the vehicle may
\* be near a point or not.
SampleCompletion ==
  /\ due = "none"
  /\ \/ fsm = "TRAJECTORY_CONTROL" /\ done /\ due' = "TRAJECTORY_COMPLETED"
     \/ fsm = "POSITION_CONTROL" /\ due' = "POSITION_COMPLETED"
  /\ UNCHANGED <<fsm, queue, holder, followed>>

\* It handles that in a later one.
HandleCompletion ==
  /\ due # "none"
  /\ due' = "none"
  /\ IF Taken(due) THEN EnterHover ELSE UNCHANGED <<fsm, holder, followed>>
  /\ UNCHANGED queue

UpdateSlow == HandleQueued \/ Expire \/ SampleCompletion \/ HandleCompletion

-----------------------------------------------------------------------------
Tick ==
  /\ active' = Aged(active)
  /\ silent' = IF active.src.valid /\ silent < MaxAge THEN silent + 1 ELSE silent
  /\ buf' = Later(buf)
  /\ UNCHANGED <<machine, tracking, done, ref>>

Next == Callback \/ Follow \/ UpdateSlow \/ Tick

Spec == StreamInit /\ [][Next]_vars

(* Time passes, the timer serves the controller and the main loop the      *)
(* supervisor's sections, whatever commands arrive.                        *)
FairSpec == /\ Spec
            /\ WF_vars(Tick) /\ WF_vars(Follow)
            /\ WF_vars(HandleQueued) /\ WF_vars(HandleCompletion)
            /\ WF_vars(Expire)
            /\ WF_vars(SampleCompletion /\ fsm = "TRAJECTORY_CONTROL")

-----------------------------------------------------------------------------
\* A trajectory is complete only at its own last point: no other command, no
\* later trajectory and no refused one inherits a completion.
CompletionAtLastPoint == done => ref = LastPoint(buf.points)

\* A command is refused only in favour of a source that was heard from within
\* its timeout, give or take the skew of its clock.
RefusesOnlyForALiveSource ==
  \A e \in Envelopes :
    ~Accepts(LiveAt(active).src, e.meta)
      => active.timeout <= 0 \/ silent <= active.timeout + Skew

\* The reference drawn from a trajectory is the point its time stamps put at
\* the time since it took effect, its first one before and its last one after.
ReferenceOnTime ==
  [][ref' # ref /\ ref'.kind = "path"
     => LET t == buf'.t
            ps == buf'.points
            at == ps[ref'.seg] + ref'.into
        IN  at = IF t < ps[1] THEN ps[1]
                 ELSE IF t > EndTime(ps) THEN EndTime(ps) ELSE t]_vars

\* A newer command was accepted at this moment.
Renewed == active.src.valid /\ silent = 0

\* A source that falls silent loses the vehicle.
SourceIsLetGo ==
  active.src.valid /\ active.timeout > 0 ~> ~active.src.valid \/ Renewed

\* A callback dropped what was followed: a position request did, or a malformed
\* trajectory.
Dropped == fsm = "TRAJECTORY_CONTROL" /\ buf = NoBundle

\* A trajectory that is tracked in its state, with no other event on its way,
\* reaches its end, and the machine then hovers, unless a newer command was
\* accepted or a callback dropped it.  Nothing is promised to a trajectory that is
\* accepted while a completion waits to be handled or another state to be
\* entered: HOVER may drop it before a point of it was flown.  A single point is
\* not tracked, and has no end.
TrajectoryEnds ==
  /\ fsm = "TRAJECTORY_CONTROL" /\ tracking /\ due = "none" /\ queue = << >>
       ~> done \/ Renewed \/ Dropped
  /\ fsm = "TRAJECTORY_CONTROL" /\ done ~> fsm = "HOVER" \/ Renewed \/ Dropped
=============================================================================
