---------------------------- MODULE StateMachine ----------------------------
(***************************************************************************)
(* The command path of Sunray_StateMachine: the client callbacks that the  *)
(* two spinner threads run, the queue of pending events, the supervisor    *)
(* (update_slow) that alone changes the flight state, and the controller   *)
(* whose mode and reference the state machine sets.                        *)
(*                                                                         *)
(* One action is one critical section of fsm_mutex_ or event_mutex_: the   *)
(* code releases the lock between them, so any other thread may run there. *)
(*                                                                         *)
(* Time is abstract: a timer is "has elapsed" or not, and it elapses by a  *)
(* step of the environment.  PX4's arming, its landed report and the 3 s   *)
(* landing hold are abstract here (armed, holdOk) and modelled in full by  *)
(* Landing.                                                                *)
(***************************************************************************)
EXTENDS SourcePolicy, Sequences

CONSTANTS
  Workers,      \* the spinner threads of ros::AsyncSpinner(2)
  Goals,        \* target positions a client may ask for
  Requests,     \* the kinds of client call made in this instance
  Metas,        \* the meta data of the high-rate commands sent
  ReturnTargets,\* whether a target can be built from the return requests made
  OdomMayStop,  \* whether the odometry can stop arriving in this instance
  MaxPending    \* bound: length of pending_events_

ASSUME GoalsAssumption ==
  Goals \cap {"none", "hold", "home", "vel", "path", "away"} = {}
ASSUME ReturnTargetsAssumption == ReturnTargets \subseteq BOOLEAN
ASSUME MetasAssumption == Metas \subseteq Meta
ASSUME MaxPendingAssumption == MaxPending \in Nat \ {0}

RequestKinds == {"takeoff", "land", "return", "position", "velocity",
                 "attitude", "trajectory", "complex"}

VARIABLES
  fsm,          \* fsm_current_state_
  pending,      \* pending_events_
  sup,          \* the supervisor: where it is, and its local variables
  wk,           \* what each spinner thread is doing
  ctrl,         \* the controller's controller_state_
  ref,          \* the controller's trajectory_: what it steers to
  track,        \* its trajectory buffer: "idle", "tracking", "done"
  src,          \* active_control_source_
  srcOld,       \* its timeout has passed
  retCfgOk,     \* the stored return_* request has a buildable target
  retValid,     \* active_return_target_valid_
  landAfter,    \* land_after_return_pending_
  hoverT,       \* return_hover_start_time_: "unset", "waiting", "elapsed"
  odom,         \* latest_external_odom_: "none", "fresh", "stale"
  at,           \* where the vehicle is: a goal, "home" or "away"
  armed,        \* PX4 reports the motors armed
  holdOk        \* the landing hold of 3 s has been satisfied

plant == <<odom, at, armed, holdOk>>
control == <<ctrl, ref, track>>
source == <<src, srcOld>>
returning == <<retCfgOk, retValid, landAfter, hoverT>>
vars == <<fsm, pending, sup, wk, control, source, returning, plant>>

\* Where the reference leads: no position in it, the point where the vehicle
\* was when it was set, home, a velocity, a trajectory, or a goal.
Reference == {"none", "hold", "home", "vel", "path"} \cup Goals
Place == Goals \cup {"home", "away"}

IdleWorker == [pc |-> "idle", ev |-> "none", service |-> FALSE]
Worker == {IdleWorker}
            \cup [pc : {"check", "push", "clear"}, ev : SunrayEvent,
                  service : BOOLEAN]

Supervisor == [pc : {"finish", "drain", "act", "mark"},
               batch : Seq(SunrayEvent),
               posDone : BOOLEAN,   \* position_completed
               landed : BOOLEAN]    \* landing_confirmed && !px4_state.armed

TypeOK ==
  /\ fsm \in SunrayState
  /\ pending \in Seq(SunrayEvent)
  /\ sup \in Supervisor
  /\ wk \in [Workers -> Worker]
  /\ ctrl \in ControllerState
  /\ ref \in Reference
  /\ track \in {"idle", "tracking", "done"}
  /\ src \in {NoSource} \cup ActiveSource
  /\ srcOld \in BOOLEAN
  /\ retCfgOk \in BOOLEAN
  /\ retValid \in BOOLEAN
  /\ landAfter \in BOOLEAN
  /\ hoverT \in {"unset", "waiting", "elapsed"}
  /\ odom \in {"none", "fresh", "stale"}
  /\ at \in Place
  /\ armed \in BOOLEAN
  /\ holdOk \in BOOLEAN

Init ==
  /\ fsm = "OFF"
  /\ pending = << >>
  /\ sup = [pc |-> "finish", batch |-> << >>, posDone |-> FALSE, landed |-> FALSE]
  /\ wk = [w \in Workers |-> IdleWorker]
  /\ ctrl = "UNDEFINED"
  /\ ref = "none"
  /\ track = "idle"
  /\ src = NoSource
  /\ srcOld = FALSE
  /\ retCfgOk = TRUE
  /\ retValid = FALSE
  /\ landAfter = FALSE
  /\ hoverT = "unset"
  /\ odom = "none"
  /\ at = "home"
  /\ armed = FALSE
  /\ holdOk = FALSE

-----------------------------------------------------------------------------
(* queue_event, run by a spinner thread after its callback's own section.  *)

\* can_takeoff_locked: valid odometry that has not timed out.
CanTakeoff == odom = "fresh"

\* A callback that wants event e queued; a service also clears the active
\* source afterwards.
Begin(w, e, service) ==
  wk' = [wk EXCEPT ![w] = [pc |-> "check", ev |-> e, service |-> service]]

\* Mutant of CheckEvent: a refused event is left in the thread's record.
CheckEvent_LeavesEvent(w) ==
  /\ wk[w].pc = "check"
  /\ wk' = [wk EXCEPT ![w].pc =
              IF Resolve(fsm, wk[w].ev, CanTakeoff) = {} THEN "idle" ELSE "push"]
  /\ UNCHANGED <<fsm, pending, sup, control, source, returning, plant>>

\* First section of queue_event: refuse the event if the present state does
\* not take it.
CheckEvent(w) ==
  /\ wk[w].pc = "check"
  /\ wk' = [wk EXCEPT ![w] =
              IF Resolve(fsm, wk[w].ev, CanTakeoff) = {} THEN IdleWorker
              ELSE [@ EXCEPT !.pc = "push"]]
  /\ UNCHANGED <<fsm, pending, sup, control, source, returning, plant>>

\* Second section: append it unless it equals the last one queued.
PushEvent(w) ==
  /\ wk[w].pc = "push"
  /\ Len(pending) < MaxPending
  /\ pending' = IF pending # << >> /\ pending[Len(pending)] = wk[w].ev
                  THEN pending ELSE Append(pending, wk[w].ev)
  /\ wk' = [wk EXCEPT ![w] = IF @.service THEN [@ EXCEPT !.pc = "clear"]
                                          ELSE IdleWorker]
  /\ UNCHANGED <<fsm, sup, control, source, returning, plant>>

\* A service whose event was queued interrupts the active control source.
ClearSource(w) ==
  /\ wk[w].pc = "clear"
  /\ src' = NoSource
  /\ srcOld' = FALSE
  /\ wk' = [wk EXCEPT ![w] = IdleWorker]
  /\ UNCHANGED <<fsm, pending, sup, control, returning, plant>>

-----------------------------------------------------------------------------
(* The client callbacks: what each does before it calls queue_event.       *)

Calls(w, kind) == kind \in Requests /\ wk[w].pc = "idle"

TakeoffSrv(w) ==
  /\ Calls(w, "takeoff")
  /\ Begin(w, "TAKEOFF_REQUEST", TRUE)
  /\ UNCHANGED <<fsm, pending, sup, control, source, returning, plant>>

LandSrv(w) ==
  /\ Calls(w, "land")
  /\ Begin(w, "LAND_REQUEST", TRUE)
  /\ UNCHANGED <<fsm, pending, sup, control, source, returning, plant>>

\* return_srv_cb stores the request before it looks whether a target can be
\* built from it: the controller must know where it is, and the target must
\* be finite.
ReturnSrv(w) ==
  /\ Calls(w, "return")
  /\ \E ok \in ReturnTargets :
       /\ retCfgOk' = ok
       /\ IF ok /\ ctrl # "UNDEFINED"
            THEN Begin(w, "RETURN_REQUEST", TRUE)
            ELSE UNCHANGED wk
  /\ UNCHANGED <<fsm, pending, sup, control, source, retValid, landAfter,
                 hoverT, plant>>

\* position_srv_cb hands the target to the controller, then queues the event.
PositionSrv(w) ==
  /\ Calls(w, "position")
  /\ ref' \in Goals
  /\ track' = "idle"
  /\ Begin(w, "ENTER_POSITION_CONTROL", TRUE)
  /\ UNCHANGED <<fsm, pending, sup, ctrl, source, returning, plant>>

\* accept_control_meta_locked: an expired source is dropped first, whatever
\* becomes of the command.
Live == IF src.valid /\ srcOld THEN NoSource ELSE src

\* A refused command changes nothing but that.
RefuseCommand ==
  /\ src' = Live
  /\ srcOld' = (srcOld /\ Live.valid)
  /\ UNCHANGED <<fsm, pending, sup, wk, control, returning, plant>>

\* An accepted one takes the source, the reference and queues its event.
AcceptCommand(w, m, st, newRef, newTrack) ==
  /\ src' = Activate(m, st)
  /\ srcOld' = FALSE
  /\ ref' = newRef
  /\ track' = newTrack
  /\ Begin(w, Enter[st], FALSE)
  /\ UNCHANGED <<fsm, pending, sup, ctrl, returning, plant>>

\* A velocity command may also carry a position.
VelocityCmd(w) ==
  /\ Calls(w, "velocity")
  /\ \E m \in Metas : IF Accepts(Live, m)
       THEN \E r \in {"vel"} \cup Goals :
              AcceptCommand(w, m, "VELOCITY_CONTROL", r, "idle")
       ELSE RefuseCommand

\* The attitude command holds the present position with a new yaw.
AttitudeCmd(w) ==
  /\ Calls(w, "attitude")
  /\ \E m \in Metas : IF Accepts(Live, m)
       THEN AcceptCommand(w, m, "ATTITUDE_CONTROL", "hold", "idle")
       ELSE RefuseCommand

\* A trajectory of several points is tracked from the buffer; one of a single
\* point is a plain reference.
TrajectoryCmd(w) ==
  /\ Calls(w, "trajectory")
  /\ \E m \in Metas : IF Accepts(Live, m)
       THEN \/ AcceptCommand(w, m, "TRAJECTORY_CONTROL", "path", "tracking")
            \/ \E g \in Goals :
                 AcceptCommand(w, m, "TRAJECTORY_CONTROL", g, "idle")
       ELSE RefuseCommand

\* The controller refuses a trajectory: an empty one at once, a malformed one
\* only after it has dropped the trajectory it was tracking.
TrajectoryRefused(w) ==
  /\ Calls(w, "trajectory")
  /\ \E m \in Metas : Accepts(Live, m)
  /\ track' \in {track, "idle"}
  /\ src' = Live
  /\ srcOld' = (srcOld /\ Live.valid)
  /\ UNCHANGED <<fsm, pending, sup, wk, ctrl, ref, returning, plant>>

\* The complex command takes the source though nothing executes it.
ComplexCmd(w) ==
  /\ Calls(w, "complex")
  /\ \E m \in Metas : IF Accepts(Live, m)
       THEN AcceptCommand(w, m, "COMPLEX_CONTROL", ref, track)
       ELSE RefuseCommand

-----------------------------------------------------------------------------
(* update_fast: one controller update, then a report of stale odometry.    *)

\* Mutant of StaleInFlight: the odometry is watched only once hovering.
StaleInFlight_NotClimbing ==
  odom # "fresh" /\ fsm \notin {"OFF", "TAKEOFF", "EMERGENCY_LAND"}

StaleInFlight == odom # "fresh" /\ fsm \notin {"OFF", "EMERGENCY_LAND"}

\* The timer's section and the check after it; the report goes through
\* queue_event, on the state as it was in the section.
ReportStaleOdom(w) ==
  IF StaleInFlight THEN Begin(w, "EMERGENCY_REQUEST", FALSE) ELSE UNCHANGED wk

\* The controller's update when no phase of it ends: with its first odometry
\* it leaves UNDEFINED.
FastUpdate(w) ==
  /\ wk[w].pc = "idle"
  /\ ctrl' = IF ctrl = "UNDEFINED" /\ odom = "fresh" THEN "OFF" ELSE ctrl
  /\ ReportStaleOdom(w)
  /\ UNCHANGED <<fsm, pending, sup, ref, track, source, returning, plant>>

\* The take-off height has been held long enough: hover there.
FastTakeoffReached(w) ==
  /\ wk[w].pc = "idle"
  /\ ctrl = "TAKEOFF" /\ armed
  /\ ctrl' = "HOVER"
  /\ ref' = "hold"
  /\ ReportStaleOdom(w)
  /\ UNCHANGED <<fsm, pending, sup, track, source, returning, plant>>

\* The last point of the tracked trajectory has been reached.
FastTrajectoryEnds(w) ==
  /\ wk[w].pc = "idle"
  /\ ctrl = "MOVE" /\ track = "tracking"
  /\ track' = "done"
  /\ ReportStaleOdom(w)
  /\ UNCHANGED <<fsm, pending, sup, ctrl, ref, source, returning, plant>>

-----------------------------------------------------------------------------
(* handle_event: the supervisor takes the next event of its batch.         *)

Current == Head(sup.batch)

HasEvent == sup.pc # "mark" /\ sup.batch # << >>

Handles(t) ==
  /\ HasEvent
  /\ t \in Resolve(fsm, Current, CanTakeoff)

\* The rest of the batch; a RETURN_COMPLETED that was handled is followed by
\* a section of its own (MarkLandAfterReturn).
Advance(ok) ==
  sup' = [sup EXCEPT !.batch = Tail(@),
                     !.pc = IF ok /\ Current = "RETURN_COMPLETED"
                              THEN "mark" ELSE @]

\* The event is not taken in this state.
HandleIgnored ==
  /\ HasEvent
  /\ Resolve(fsm, Current, CanTakeoff) = {}
  /\ Advance(FALSE)
  /\ UNCHANGED <<fsm, pending, wk, control, source, returning, plant>>

\* transition_to_locked into the present state: no entry action.
HandleSelf ==
  /\ Handles(fsm)
  /\ Advance(TRUE)
  /\ UNCHANGED <<fsm, pending, wk, control, source, returning, plant>>

\* Mutant of ForgetReturn: the owed landing survives.
ForgetReturn_KeepsLanding ==
  /\ retValid' = FALSE
  /\ UNCHANGED landAfter
  /\ hoverT' = "unset"

\* The part of the entry actions common to most states.
ForgetReturn ==
  /\ retValid' = FALSE
  /\ landAfter' = FALSE
  /\ hoverT' = "unset"

DropSource == src' = NoSource /\ srcOld' = FALSE

\* Mutant of SwitchTo: the controller's refusal is overlooked.
SwitchTo_IgnoresRefusal(state, mode, ok) ==
  /\ fsm' = state
  /\ ctrl' = IF ok THEN mode ELSE ctrl
  /\ Advance(ok)

\* A mode setter of the controller: it refuses, or switches and drops any
\* trajectory.  The state changes only if the controller did.
SwitchTo(state, mode, ok) ==
  /\ fsm' = IF ok THEN state ELSE fsm
  /\ ctrl' = IF ok THEN mode ELSE ctrl
  /\ Advance(ok)

EnterTakeoff ==
  /\ Handles("TAKEOFF")
  /\ DropSource /\ ForgetReturn
  /\ SwitchTo("TAKEOFF", "TAKEOFF", ctrl = "OFF")
  /\ track' = IF ctrl = "OFF" THEN "idle" ELSE track
  /\ UNCHANGED <<pending, wk, ref, retCfgOk, plant>>

\* Mutant of EnterHover: the reference of the phase before is kept.
EnterHover_KeepsReference ==
  LET ok == ctrl \in AirborneModes IN
  /\ Handles("HOVER")
  /\ DropSource
  /\ retValid' = FALSE
  /\ SwitchTo("HOVER", "HOVER", ok)
  /\ track' = IF ok THEN "idle" ELSE track
  /\ UNCHANGED <<pending, wk, ref, retCfgOk, landAfter, hoverT, plant>>

\* Hovering keeps a pending landing, and makes the present point the target.
EnterHover ==
  LET ok == ctrl \in AirborneModes IN
  /\ Handles("HOVER")
  /\ DropSource
  /\ retValid' = FALSE
  /\ SwitchTo("HOVER", "HOVER", ok)
  /\ ref' = IF ok THEN "hold" ELSE ref
  /\ track' = IF ok THEN "idle" ELSE track
  /\ UNCHANGED <<pending, wk, retCfgOk, landAfter, hoverT, plant>>

\* Mutant of EnterReturn: the target's flag is cleared after it was set.
EnterReturn_ClearsLast ==
  LET built == retCfgOk /\ ctrl # "UNDEFINED" IN
  /\ Handles("RETURN")
  /\ DropSource /\ ForgetReturn
  /\ ref' = IF built THEN "home" ELSE ref
  /\ track' = IF built THEN "idle" ELSE track
  /\ SwitchTo("RETURN", "MOVE", built /\ ctrl \in AirborneModes)
  /\ UNCHANGED <<pending, wk, retCfgOk, plant>>

\* RETURN first rebuilds its target from the stored request.
EnterReturn ==
  LET built == retCfgOk /\ ctrl # "UNDEFINED" IN
  /\ Handles("RETURN")
  /\ DropSource
  /\ landAfter' = FALSE
  /\ hoverT' = "unset"
  /\ retValid' = built
  /\ ref' = IF built THEN "home" ELSE ref
  /\ track' = IF built THEN "idle" ELSE track
  /\ SwitchTo("RETURN", "MOVE", built /\ ctrl \in AirborneModes)
  /\ UNCHANGED <<pending, wk, retCfgOk, plant>>

\* A control state needs something to move to; COMPLEX_CONTROL is refused.
EnterMove(st) ==
  /\ st # fsm /\ Handles(st)
  /\ IF st = "COMPLEX_CONTROL" THEN UNCHANGED returning
     ELSE ForgetReturn /\ UNCHANGED retCfgOk
  /\ SwitchTo(st, "MOVE", /\ st # "COMPLEX_CONTROL"
                          /\ ctrl \in AirborneModes
                          /\ track = "tracking" \/ ref # "none")
  /\ UNCHANGED <<pending, wk, ref, track, source, plant>>

EnterLand ==
  /\ Handles("LAND")
  /\ DropSource /\ ForgetReturn
  /\ SwitchTo("LAND", "LAND", ctrl \in AirborneModes)
  /\ track' = IF ctrl \in AirborneModes \ {"LAND"} THEN "idle" ELSE track
  /\ UNCHANGED <<pending, wk, ref, retCfgOk, plant>>

EnterEmergency ==
  /\ Handles("EMERGENCY_LAND")
  /\ DropSource /\ ForgetReturn
  /\ SwitchTo("EMERGENCY_LAND", "EMERGENCY_LAND", ctrl \in AirborneModes)
  /\ track' = IF ctrl \in AirborneModes THEN "idle" ELSE track
  /\ UNCHANGED <<pending, wk, ref, retCfgOk, plant>>

\* set_off_mode needs only a valid state estimate, which the controller has
\* from its first odometry on.
EnterOff ==
  LET ok == ctrl # "UNDEFINED" IN
  /\ Handles("OFF")
  /\ DropSource /\ ForgetReturn
  /\ SwitchTo("OFF", "OFF", ok)
  /\ ref' = IF ok THEN "hold" ELSE ref
  /\ track' = IF ok THEN "idle" ELSE track
  /\ UNCHANGED <<pending, wk, retCfgOk, plant>>

HandleEvent ==
  \/ HandleIgnored \/ HandleSelf
  \/ EnterTakeoff \/ EnterHover \/ EnterReturn
  \/ \E st \in ControlStates : EnterMove(st)
  \/ EnterLand \/ EnterEmergency \/ EnterOff

-----------------------------------------------------------------------------
(* update_slow: the supervisor's other sections, in their order.           *)

\* A round over, the next one starts: process_pending_events takes the whole
\* queue.
SwapPending ==
  /\ sup.pc = "finish" /\ sup.batch = << >>
  /\ sup' = [sup EXCEPT !.pc = "drain", !.batch = pending]
  /\ pending' = << >>
  /\ UNCHANGED <<fsm, wk, control, source, returning, plant>>

\* is_return_target_reached_locked.
ReturnTargetReached == retValid /\ at = "home"

\* is_position_target_reached_locked: what it may find.  The sample of a
\* trajectory may be near the vehicle or not.
PositionTargetReached ==
  IF ref = "path" THEN BOOLEAN ELSE {ref = "hold" \/ ref = at}

If(cond, e) == IF cond THEN <<e>> ELSE << >>

\* The large section: what this round will act on.
Sample ==
  LET emergency == StaleInFlight
      returned  == fsm = "RETURN" /\ ReturnTargetReached
      landNow   == landAfter /\ fsm = "HOVER" /\ hoverT = "elapsed"
      expired   == src.valid /\ srcOld
      confirmed == fsm \in LandingStates /\ holdOk
  IN
  /\ sup.pc = "drain" /\ sup.batch = << >>
  /\ \E near \in PositionTargetReached :
       sup' = [pc      |-> "act",
               batch   |-> If(emergency, "EMERGENCY_REQUEST")
                             \o If(returned, "RETURN_COMPLETED")
                             \o If(landNow, "LAND_REQUEST"),
               posDone |-> fsm = "POSITION_CONTROL" /\ near,
               landed  |-> confirmed /\ ~armed]
  /\ holdOk' = confirmed
  /\ landAfter' = (landAfter /\ ~landNow)
  /\ hoverT' = IF landNow THEN "unset" ELSE hoverT
  /\ src' = IF expired THEN NoSource ELSE src
  /\ srcOld' = (srcOld /\ ~expired)
  /\ UNCHANGED <<fsm, pending, wk, control, retCfgOk, retValid,
                 odom, at, armed>>

\* Mutant of MarkLandAfterReturn: the hover timer is not started.
MarkLandAfterReturn_NoTimer ==
  /\ sup.pc = "mark"
  /\ landAfter' = TRUE
  /\ sup' = [sup EXCEPT !.pc = "act"]
  /\ UNCHANGED <<fsm, pending, wk, control, source, retCfgOk, retValid, hoverT,
                 plant>>

\* After a completed return: hover for a second, then land.
MarkLandAfterReturn ==
  /\ sup.pc = "mark"
  /\ landAfter' = TRUE
  /\ hoverT' = "waiting"
  /\ sup' = [sup EXCEPT !.pc = "act"]
  /\ UNCHANGED <<fsm, pending, wk, control, source, retCfgOk, retValid, plant>>

\* The last section: at most one phase is reported complete.
Resample ==
  LET tookOff  == fsm = "TAKEOFF" /\ ctrl = "HOVER"
      onGround == fsm = "LAND" /\ sup.landed
      emergencyOver == fsm = "EMERGENCY_LAND" /\ sup.landed
      tracked  == fsm = "TRAJECTORY_CONTROL" /\ track = "done"
  IN
  /\ sup.pc = "act" /\ sup.batch = << >>
  /\ sup' = [sup EXCEPT
               !.pc = "finish", !.posDone = FALSE, !.landed = FALSE,
               !.batch = IF tookOff THEN <<"TAKEOFF_COMPLETED">>
                         ELSE IF onGround THEN <<"LAND_COMPLETED">>
                         ELSE IF emergencyOver THEN <<"EMERGENCY_COMPLETED">>
                         ELSE IF sup.posDone THEN <<"POSITION_COMPLETED">>
                         ELSE If(tracked, "TRAJECTORY_COMPLETED")]
  /\ UNCHANGED <<fsm, pending, wk, control, source, returning, plant>>

UpdateSlow ==
  \/ SwapPending \/ HandleEvent \/ Sample \/ MarkLandAfterReturn
  \/ Resample

-----------------------------------------------------------------------------
(* The environment: odometry, motion, PX4 and the passing of time.         *)

OdomArrives ==
  /\ odom # "fresh" /\ odom' = "fresh"
  /\ UNCHANGED <<fsm, pending, sup, wk, control, source, returning,
                 at, armed, holdOk>>

OdomTimesOut ==
  /\ OdomMayStop
  /\ odom = "fresh" /\ odom' = "stale"
  /\ UNCHANGED <<fsm, pending, sup, wk, control, source, returning,
                 at, armed, holdOk>>

\* The controller moves the vehicle towards its reference.
Depart ==
  /\ ctrl = "MOVE" /\ ref \notin {"hold", "none", at} /\ at # "away"
  /\ at' = "away"
  /\ UNCHANGED <<fsm, pending, sup, wk, control, source, returning,
                 odom, armed, holdOk>>

Arrive ==
  /\ ctrl = "MOVE" /\ ref \in Place \ {at}
  /\ at' = ref
  /\ UNCHANGED <<fsm, pending, sup, wk, control, source, returning,
                 odom, armed, holdOk>>

\* A velocity or a trajectory may lead anywhere.
Wander ==
  /\ ctrl = "MOVE" /\ ref \in {"vel", "path"}
  /\ at' \in Place \ {at}
  /\ UNCHANGED <<fsm, pending, sup, wk, control, source, returning,
                 odom, armed, holdOk>>

\* armed is read only while taking off and landing, and may change only then.
ArmedMatters == fsm \in LandingStates \cup {"TAKEOFF"}

Arms ==
  /\ ArmedMatters /\ ~armed /\ ~holdOk
  /\ armed' = TRUE
  /\ UNCHANGED <<fsm, pending, sup, wk, control, source, returning,
                 odom, at, holdOk>>

Disarms ==
  /\ ArmedMatters /\ armed
  /\ armed' = FALSE
  /\ UNCHANGED <<fsm, pending, sup, wk, control, source, returning,
                 odom, at, holdOk>>

LandedHoldElapses ==
  /\ fsm \in LandingStates /\ ~holdOk
  /\ holdOk' = TRUE
  /\ UNCHANGED <<fsm, pending, sup, wk, control, source, returning,
                 odom, at, armed>>

ReturnHoverElapses ==
  /\ hoverT = "waiting" /\ hoverT' = "elapsed"
  /\ UNCHANGED <<fsm, pending, sup, wk, control, source, retCfgOk, retValid,
                 landAfter, plant>>

SourceTimesOut ==
  /\ src.valid /\ ~srcOld /\ srcOld' = TRUE
  /\ UNCHANGED <<fsm, pending, sup, wk, control, src, returning, plant>>

Environment ==
  \/ OdomArrives \/ OdomTimesOut \/ Depart \/ Arrive \/ Wander \/ Arms
  \/ Disarms \/ LandedHoldElapses \/ ReturnHoverElapses \/ SourceTimesOut

-----------------------------------------------------------------------------
ClientCall(w) ==
  \/ TakeoffSrv(w) \/ LandSrv(w) \/ ReturnSrv(w) \/ PositionSrv(w)
  \/ VelocityCmd(w) \/ AttitudeCmd(w) \/ TrajectoryCmd(w)
  \/ TrajectoryRefused(w) \/ ComplexCmd(w)

QueueEvent(w) == CheckEvent(w) \/ PushEvent(w) \/ ClearSource(w)

UpdateFast(w) == FastUpdate(w) \/ FastTakeoffReached(w) \/ FastTrajectoryEnds(w)

Next ==
  \/ UpdateSlow
  \/ \E w \in Workers : ClientCall(w) \/ QueueEvent(w) \/ UpdateFast(w)
  \/ Environment

Spec == Init /\ [][Next]_vars

(***************************************************************************)
(* Fairness.  The main thread loops for ever and a callback that has begun *)
(* runs to its end.  The 100 Hz timer is served again and again, so the    *)
(* end of a phase the controller keeps seeing is seen.  A vehicle steered  *)
(* home gets there; PX4 disarms when asked again and again on the ground   *)
(* (Landing models the asking); time passes.                               *)
(***************************************************************************)
Fairness ==
  /\ WF_vars(UpdateSlow)
  /\ \A w \in Workers : WF_vars(QueueEvent(w))
  /\ SF_vars(\E w \in Workers : FastTakeoffReached(w))
  /\ WF_vars(Disarms /\ holdOk)
  /\ WF_vars(Arrive /\ ref = "home")
  /\ WF_vars(LandedHoldElapses)
  /\ WF_vars(ReturnHoverElapses)

FairSpec == Spec /\ Fairness
=============================================================================
