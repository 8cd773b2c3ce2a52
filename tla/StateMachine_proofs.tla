------------------------ MODULE StateMachine_proofs -------------------------
(***************************************************************************)
(* Proofs that the safety properties of StateMachineProps hold for every   *)
(* number of spinner threads, every set of goals and sources, and with or  *)
(* without loss of odometry.                                               *)
(***************************************************************************)
EXTENDS StateMachineProps, SequenceTheorems, TLAPS

-----------------------------------------------------------------------------
(* The transition table.                                                   *)

\* No control state's own events are among those with a fixed name.
LEMMA ControlEvents ==
  ASSUME NEW c \in ControlStates
  PROVE  /\ Enter[c] \notin {"RETURN_COMPLETED", "EMERGENCY_REQUEST",
                             "WATCHDOG_ERROR", "LAND_REQUEST", "RETURN_REQUEST"}
         /\ Completed[c] \notin {"RETURN_COMPLETED", "EMERGENCY_REQUEST",
                             "WATCHDOG_ERROR", "LAND_REQUEST", "RETURN_REQUEST"}
BY DEF ControlStates, Enter, Completed

\* Where each state can be reached from, and what the two events the
\* supervisor treats specially lead to.
LEMMA TransitionFacts ==
  ASSUME NEW s, NEW e, NEW t, <<s, e, t>> \in Transitions
  PROVE  /\ t = "TAKEOFF" => s = "OFF"
         /\ t = "OFF" => s \in LandingStates
         /\ t = "HOVER" => s \in {"TAKEOFF", "RETURN"} \cup ControlStates
         /\ t = "RETURN" => s \in {"HOVER"} \cup ControlStates
         /\ t \in ControlStates => s \in {"HOVER"} \cup ControlStates
         /\ t = "LAND" => s \in Interruptible
         /\ t = "EMERGENCY_LAND" => s # "OFF"
         /\ e = "RETURN_COMPLETED" => s = "RETURN" /\ t = "HOVER"
         /\ e = "EMERGENCY_REQUEST" => t = "EMERGENCY_LAND"
BY ControlEvents DEF Transitions, Interruptible, ControlStates, LandingStates, SunrayState

LEMMA EventsDistinct ==
  ASSUME NEW c \in ControlStates, NEW d \in ControlStates
  PROVE  /\ Enter[c] = Enter[d] => c = d
         /\ Completed[c] = Completed[d] => c = d
         /\ Enter[c] # Completed[d]
         /\ Enter[c] \notin {"TAKEOFF_REQUEST", "TAKEOFF_COMPLETED",
                             "LAND_COMPLETED", "EMERGENCY_COMPLETED"}
         /\ Completed[c] \notin {"TAKEOFF_REQUEST", "TAKEOFF_COMPLETED",
                             "LAND_COMPLETED", "EMERGENCY_COMPLETED"}
BY DEF ControlStates, Enter, Completed

\* resolve_next_state_locked has one answer: no two rows of the table give the
\* same event of the same state different ends, so that an action that takes any
\* member of Resolve takes the one the code returns.
THEOREM ResolveIsDeterministic ==
  ASSUME NEW s, NEW e, NEW canTakeoff,
         NEW t \in Resolve(s, e, canTakeoff), NEW u \in Resolve(s, e, canTakeoff)
  PROVE  t = u
<1>1. <<s, e, t>> \in Transitions /\ <<s, e, u>> \in Transitions
  BY DEF Resolve
<1> QED
  BY <1>1, ControlEvents, EventsDistinct DEF Transitions

-----------------------------------------------------------------------------
(* Type correctness.                                                       *)

LEMMA EnterTyped == \A st \in ControlStates : Enter[st] \in SunrayEvent
BY DEF SunrayEvent

LEMMA IfTyped ==
  ASSUME NEW cond, NEW e \in SunrayEvent
  PROVE  If(cond, e) \in Seq(SunrayEvent)
BY DEF If

\* What a callback leaves in its thread's record.
LEMMA BeginTyped ==
  ASSUME TypeOK, NEW w \in Workers, NEW e \in SunrayEvent,
         NEW service \in BOOLEAN, Begin(w, e, service)
  PROVE  wk' \in [Workers -> Worker]
BY DEF TypeOK, Begin, Worker

\* What handling an event leaves of the batch.
LEMMA AdvanceTyped ==
  ASSUME TypeOK, HasEvent, NEW ok, Advance(ok)
  PROVE  /\ sup' \in Supervisor
         /\ sup'.batch = Tail(sup.batch)
         /\ sup'.pc = sup.pc \/ sup'.pc = "mark"
         /\ sup'.pc = "mark" => ok /\ Current = "RETURN_COMPLETED"
<1>1. /\ sup \in Supervisor
      /\ sup.batch \in Seq(SunrayEvent)
      /\ sup.batch # << >>
      /\ sup.pc # "mark"
  BY DEF TypeOK, Supervisor, HasEvent
<1>2. Tail(sup.batch) \in Seq(SunrayEvent)
  BY <1>1, HeadTailProperties
<1>3. sup' = [sup EXCEPT !.batch = Tail(@),
                         !.pc = IF ok /\ Current = "RETURN_COMPLETED"
                                  THEN "mark" ELSE @]
  BY DEF Advance
<1> QED
  BY <1>1, <1>2, <1>3 DEF Supervisor

LEMMA InitTyped == Init => TypeOK
<1> SUFFICES ASSUME Init PROVE TypeOK
  OBVIOUS
<1>1. << >> \in Seq(SunrayEvent)
  BY EmptySeq
<1>2. sup \in Supervisor
  BY <1>1 DEF Init, Supervisor
<1>3. wk \in [Workers -> Worker]
  BY DEF Init, Worker
<1>4. fsm \in SunrayState /\ ctrl \in ControllerState
  BY DEF Init, SunrayState, ControllerState
<1>5. at \in Place /\ ref \in Reference
  BY DEF Init, Place, Reference
<1> QED
  BY <1>1, <1>2, <1>3, <1>4, <1>5 DEF Init, TypeOK

\* The spinner threads: the three sections of queue_event.
LEMMA QueueEventTyped ==
  ASSUME TypeOK, NEW w \in Workers, QueueEvent(w)
  PROVE  TypeOK'
<1>1. CASE CheckEvent(w)
  <2>1. wk' \in [Workers -> Worker]
    BY <1>1 DEF CheckEvent, TypeOK, Worker, IdleWorker
  <2> QED
    BY <1>1, <2>1 DEF CheckEvent, TypeOK, control, source, returning, plant
<1>2. CASE PushEvent(w)
  <2>1. wk[w].ev \in SunrayEvent
    BY <1>2 DEF PushEvent, TypeOK, Worker, IdleWorker
  <2>2. pending' \in Seq(SunrayEvent)
    BY <1>2, <2>1 DEF PushEvent, TypeOK
  <2>3. wk' \in [Workers -> Worker]
    BY <1>2 DEF PushEvent, TypeOK, Worker, IdleWorker
  <2> QED
    BY <1>2, <2>2, <2>3
    DEF PushEvent, TypeOK, control, source, returning, plant
<1>3. CASE ClearSource(w)
  <2>1. wk' \in [Workers -> Worker]
    BY <1>3 DEF ClearSource, TypeOK, Worker
  <2> QED
    BY <1>3, <2>1
    DEF ClearSource, TypeOK, control, source, returning, plant
<1> QED
  BY <1>1, <1>2, <1>3 DEF QueueEvent

\* The source and the reference an accepted command leaves.
LEMMA AcceptTyped ==
  ASSUME TypeOK, NEW w \in Workers, NEW m \in Metas, NEW st \in ControlStates,
         NEW newRef \in Reference, NEW newTrack \in {"idle", "tracking", "done"},
         AcceptCommand(w, m, st, newRef, newTrack)
  PROVE  TypeOK'
<1>1. wk' \in [Workers -> Worker]
  BY BeginTyped, EnterTyped DEF AcceptCommand
<1>2. src' \in ActiveSource
  BY MetasAssumption, PriorityAssumption
  DEF AcceptCommand, Activate, ActiveSource, Meta
<1> QED
  BY <1>1, <1>2 DEF AcceptCommand, TypeOK, returning, plant

LEMMA RefuseTyped == TypeOK /\ RefuseCommand => TypeOK'
BY DEF TypeOK, RefuseCommand, Live, NoSource, ActiveSource, control, returning,
       plant

LEMMA ClientCallTyped ==
  ASSUME TypeOK, NEW w \in Workers, ClientCall(w)
  PROVE  TypeOK'
<1> USE DEF control, source, returning, plant
<1>1. CASE TakeoffSrv(w)
  <2>1. wk' \in [Workers -> Worker]
    BY <1>1, BeginTyped DEF TakeoffSrv, SunrayEvent
  <2> QED
    BY <1>1, <2>1 DEF TakeoffSrv, TypeOK
<1>2. CASE LandSrv(w)
  <2>1. wk' \in [Workers -> Worker]
    BY <1>2, BeginTyped DEF LandSrv, SunrayEvent
  <2> QED
    BY <1>2, <2>1 DEF LandSrv, TypeOK
<1>3. CASE ReturnSrv(w)
  <2>1. wk' \in [Workers -> Worker]
    BY <1>3, BeginTyped DEF ReturnSrv, SunrayEvent, TypeOK
  <2> QED
    BY <1>3, <2>1, ReturnTargetsAssumption DEF ReturnSrv, TypeOK
<1>4. CASE PositionSrv(w)
  <2>0. "ENTER_POSITION_CONTROL" \in SunrayEvent
    <3>1. Enter["POSITION_CONTROL"] = "ENTER_POSITION_CONTROL"
      BY DEF Enter
    <3> QED
      BY <3>1, EnterTyped DEF ControlStates
  <2>1. wk' \in [Workers -> Worker]
    BY <1>4, <2>0, BeginTyped DEF PositionSrv
  <2> QED
    BY <1>4, <2>1 DEF PositionSrv, TypeOK, Reference
<1>5. CASE VelocityCmd(w)
  BY <1>5, AcceptTyped, RefuseTyped DEF VelocityCmd, ControlStates, Reference
<1>6. CASE AttitudeCmd(w)
  BY <1>6, AcceptTyped, RefuseTyped DEF AttitudeCmd, ControlStates, Reference
<1>7. CASE TrajectoryCmd(w)
  BY <1>7, AcceptTyped, RefuseTyped DEF TrajectoryCmd, ControlStates, Reference
<1>8. CASE TrajectoryRefused(w)
  BY <1>8 DEF TrajectoryRefused, TypeOK, Live, NoSource, ActiveSource
<1>9. CASE ComplexCmd(w)
  BY <1>9, AcceptTyped, RefuseTyped DEF ComplexCmd, ControlStates, TypeOK
<1> QED
  BY <1>1, <1>2, <1>3, <1>4, <1>5, <1>6, <1>7, <1>8, <1>9 DEF ClientCall

LEMMA UpdateFastTyped ==
  ASSUME TypeOK, NEW w \in Workers, UpdateFast(w)
  PROVE  TypeOK'
<1>1. ReportStaleOdom(w) => wk' \in [Workers -> Worker]
  BY BeginTyped DEF ReportStaleOdom, SunrayEvent, TypeOK
<1> QED
  BY <1>1
  DEF UpdateFast, FastUpdate, FastTakeoffReached, FastTrajectoryEnds, TypeOK,
      ControllerState, Reference, source, returning, plant

LEMMA EnvironmentTyped == TypeOK /\ Environment => TypeOK'
<1> SUFFICES ASSUME TypeOK, Environment PROVE TypeOK'
  OBVIOUS
<1> USE DEF control, source, returning, plant
<1>1. OdomArrives \/ OdomTimesOut => TypeOK'
  BY DEF OdomArrives, OdomTimesOut, TypeOK
<1>2. Depart => TypeOK'
  BY DEF Depart, TypeOK, Place
<1>3. Arrive \/ Wander => TypeOK'
  BY DEF Arrive, Wander, TypeOK
<1>4. Arms \/ Disarms \/ LandedHoldElapses => TypeOK'
  BY DEF Arms, Disarms, LandedHoldElapses, TypeOK
<1>5. ReturnHoverElapses \/ SourceTimesOut => TypeOK'
  BY DEF ReturnHoverElapses, SourceTimesOut, TypeOK
<1> QED
  BY <1>1, <1>2, <1>3, <1>4, <1>5 DEF Environment

\* The supervisor: what handling an event does to the state and the batch.
LEMMA SwitchToTyped ==
  ASSUME TypeOK, HasEvent, NEW state \in SunrayState,
         NEW mode \in ControllerState, NEW ok, SwitchTo(state, mode, ok)
  PROVE  /\ fsm' \in SunrayState
         /\ ctrl' \in ControllerState
         /\ sup' \in Supervisor
<1>1. Advance(ok)
  BY DEF SwitchTo
<1>2. sup' \in Supervisor
  BY <1>1, AdvanceTyped
<1> QED
  BY <1>2 DEF SwitchTo, TypeOK

LEMMA HandleEventTyped ==
  ASSUME TypeOK, HandleEvent
  PROVE  TypeOK'
<1> USE DEF control, source, returning, plant, ForgetReturn, DropSource
<1>0. HasEvent
  BY DEF HandleEvent, HandleIgnored, HandleSelf, EnterTakeoff, EnterHover,
         EnterReturn, EnterMove, EnterLand, EnterEmergency, EnterOff, Handles
<1>1. CASE HandleIgnored
  <2>1. sup' \in Supervisor
    BY <1>0, <1>1, AdvanceTyped DEF HandleIgnored
  <2> QED
    BY <1>1, <2>1 DEF HandleIgnored, TypeOK
<1>2. CASE HandleSelf
  <2>1. sup' \in Supervisor
    BY <1>0, <1>2, AdvanceTyped DEF HandleSelf
  <2> QED
    BY <1>2, <2>1 DEF HandleSelf, TypeOK
<1>3. CASE EnterTakeoff
  <2>1. sup' \in Supervisor /\ fsm' \in SunrayState /\ ctrl' \in ControllerState
    BY <1>0, <1>3, SwitchToTyped
    DEF EnterTakeoff, SunrayState, ControllerState
  <2> QED
    BY <1>3, <2>1 DEF EnterTakeoff, TypeOK
<1>4. CASE EnterHover
  <2>1. sup' \in Supervisor /\ fsm' \in SunrayState /\ ctrl' \in ControllerState
    BY <1>0, <1>4, SwitchToTyped
    DEF EnterHover, SunrayState, ControllerState
  <2> QED
    BY <1>4, <2>1 DEF EnterHover, TypeOK, Reference
<1>5. CASE EnterReturn
  <2>1. sup' \in Supervisor /\ fsm' \in SunrayState /\ ctrl' \in ControllerState
    BY <1>0, <1>5, SwitchToTyped
    DEF EnterReturn, SunrayState, ControllerState
  <2> QED
    BY <1>5, <2>1 DEF EnterReturn, TypeOK, Reference
<1>6. ASSUME NEW st \in ControlStates, EnterMove(st)
      PROVE  TypeOK'
  <2>1. sup' \in Supervisor /\ fsm' \in SunrayState /\ ctrl' \in ControllerState
    BY <1>0, <1>6, SwitchToTyped DEF EnterMove, SunrayState, ControllerState
  <2> QED
    BY <1>6, <2>1 DEF EnterMove, TypeOK
<1>7. CASE EnterLand
  <2>1. sup' \in Supervisor /\ fsm' \in SunrayState /\ ctrl' \in ControllerState
    BY <1>0, <1>7, SwitchToTyped
    DEF EnterLand, SunrayState, LandingStates, ControllerState
  <2> QED
    BY <1>7, <2>1 DEF EnterLand, TypeOK
<1>8. CASE EnterEmergency
  <2>1. sup' \in Supervisor /\ fsm' \in SunrayState /\ ctrl' \in ControllerState
    BY <1>0, <1>8, SwitchToTyped
    DEF EnterEmergency, SunrayState, LandingStates, ControllerState
  <2> QED
    BY <1>8, <2>1 DEF EnterEmergency, TypeOK
<1>9. CASE EnterOff
  <2>1. sup' \in Supervisor /\ fsm' \in SunrayState /\ ctrl' \in ControllerState
    BY <1>0, <1>9, SwitchToTyped
    DEF EnterOff, SunrayState, ControllerState
  <2> QED
    BY <1>9, <2>1 DEF EnterOff, TypeOK, Reference
<1> QED
  BY <1>1, <1>2, <1>3, <1>4, <1>5, <1>6, <1>7, <1>8, <1>9 DEF HandleEvent

LEMMA SwapPendingTyped == TypeOK /\ SwapPending => TypeOK'
<1> SUFFICES ASSUME TypeOK, SwapPending PROVE TypeOK'
  OBVIOUS
<1>1. << >> \in Seq(SunrayEvent)
  BY EmptySeq
<1>2. sup' \in Supervisor
  BY DEF SwapPending, TypeOK, Supervisor
<1> QED
  BY <1>1, <1>2 DEF SwapPending, TypeOK, control, source, returning, plant

LEMMA SampleTyped == TypeOK /\ Sample => TypeOK'
<1> SUFFICES ASSUME TypeOK, Sample PROVE TypeOK'
  OBVIOUS
<1> DEFINE confirmed == fsm \in LandingStates /\ holdOk
           landNow == landAfter /\ fsm = "HOVER" /\ hoverT = "elapsed"
           batch == If(StaleInFlight, "EMERGENCY_REQUEST")
                      \o If(fsm = "RETURN" /\ ReturnTargetReached,
                            "RETURN_COMPLETED")
                      \o If(landNow, "LAND_REQUEST")
<1>1. batch \in Seq(SunrayEvent)
  <2>1. /\ If(StaleInFlight, "EMERGENCY_REQUEST") \in Seq(SunrayEvent)
        /\ If(fsm = "RETURN" /\ ReturnTargetReached, "RETURN_COMPLETED")
             \in Seq(SunrayEvent)
        /\ If(landNow, "LAND_REQUEST") \in Seq(SunrayEvent)
    BY IfTyped DEF SunrayEvent
  <2> QED
    BY <2>1, ConcatProperties
<1>2. sup' \in Supervisor
  <2>1. PICK near \in PositionTargetReached :
          sup' = [pc |-> "act", batch |-> batch,
                  posDone |-> fsm = "POSITION_CONTROL" /\ near,
                  landed |-> confirmed /\ ~armed]
    BY DEF Sample
  <2> HIDE DEF batch, confirmed
  <2> QED
    BY <1>1, <2>1 DEF Supervisor
<1>3. /\ holdOk' \in BOOLEAN /\ landAfter' \in BOOLEAN /\ srcOld' \in BOOLEAN
      /\ src' \in {NoSource} \cup ActiveSource
      /\ hoverT' \in {"unset", "waiting", "elapsed"}
  BY DEF Sample, TypeOK
<1>4. UNCHANGED <<fsm, pending, wk, control, retCfgOk, retValid, odom, at, armed>>
  BY DEF Sample
<1> QED
  BY <1>2, <1>3, <1>4 DEF TypeOK, control

LEMMA MarkTyped == TypeOK /\ MarkLandAfterReturn => TypeOK'
<1> SUFFICES ASSUME TypeOK, MarkLandAfterReturn PROVE TypeOK'
  OBVIOUS
<1>1. sup' \in Supervisor
  BY DEF MarkLandAfterReturn, TypeOK, Supervisor
<1> QED
  BY <1>1 DEF MarkLandAfterReturn, TypeOK, control, source, plant

LEMMA ResampleTyped == TypeOK /\ Resample => TypeOK'
<1> SUFFICES ASSUME TypeOK, Resample PROVE TypeOK'
  OBVIOUS
<1>1. /\ <<"TAKEOFF_COMPLETED">> \in Seq(SunrayEvent)
      /\ <<"LAND_COMPLETED">> \in Seq(SunrayEvent)
      /\ <<"EMERGENCY_COMPLETED">> \in Seq(SunrayEvent)
  BY DEF SunrayEvent
<1>2. Completed["POSITION_CONTROL"] = "POSITION_COMPLETED"
      /\ Completed["TRAJECTORY_CONTROL"] = "TRAJECTORY_COMPLETED"
  BY DEF Completed
<1>3. "POSITION_COMPLETED" \in SunrayEvent /\ "TRAJECTORY_COMPLETED" \in SunrayEvent
  BY <1>2 DEF SunrayEvent, ControlStates
<1>4. /\ <<"POSITION_COMPLETED">> \in Seq(SunrayEvent)
      /\ If(fsm = "TRAJECTORY_CONTROL" /\ track = "done", "TRAJECTORY_COMPLETED")
           \in Seq(SunrayEvent)
  BY <1>3 DEF If
<1>5. sup' \in Supervisor
  BY <1>1, <1>4 DEF Resample, TypeOK, Supervisor
<1> QED
  BY <1>5 DEF Resample, TypeOK, control, source, returning, plant

LEMMA NextTyped == TypeOK /\ [Next]_vars => TypeOK'
<1> SUFFICES ASSUME TypeOK, [Next]_vars PROVE TypeOK'
  OBVIOUS
<1>1. CASE UpdateSlow
  BY <1>1, SwapPendingTyped, HandleEventTyped, SampleTyped, MarkTyped,
     ResampleTyped DEF UpdateSlow
<1>2. CASE UNCHANGED vars
  BY <1>2 DEF vars, TypeOK, control, source, returning, plant
<1> QED
  BY <1>1, <1>2, ClientCallTyped, QueueEventTyped, UpdateFastTyped,
     EnvironmentTyped DEF Next

\* Every variable keeps its type.
THEOREM TypeCorrect == Spec => []TypeOK
BY InitTyped, NextTyped, PTL DEF Spec

-----------------------------------------------------------------------------
(* The inductive invariant.  ControllerFollowsState is what makes the      *)
(* others inductive: it excludes the controller's refusal in flight, which *)
(* would leave the flight state behind a cleared target or owed landing.   *)

IInv ==
  /\ TypeOK
  /\ ControllerFollowsState
  /\ LandingOwedOnlyInHover
  /\ ReturnHasTarget
  /\ ReturnTargetNotInherited

\* An event that is handled follows the table.
LEMMA HandlesTransition ==
  ASSUME NEW t, Handles(t)
  PROVE  /\ HasEvent
         /\ t = "TAKEOFF" => fsm = "OFF"
         /\ t = "OFF" => fsm \in LandingStates
         /\ t = "HOVER" => fsm \in {"TAKEOFF", "RETURN"} \cup ControlStates
         /\ t = "RETURN" => fsm \in {"HOVER"} \cup ControlStates
         /\ t \in ControlStates => fsm \in {"HOVER"} \cup ControlStates
         /\ t = "LAND" => fsm \in Interruptible
         /\ t = "EMERGENCY_LAND" => fsm # "OFF"
         /\ Current = "RETURN_COMPLETED" => fsm = "RETURN" /\ t = "HOVER"
         /\ Current = "EMERGENCY_REQUEST" => t = "EMERGENCY_LAND"
<1>1. HasEvent /\ <<fsm, Current, t>> \in Transitions
  BY DEF Handles, Resolve
<1> QED
  BY <1>1, TransitionFacts

\* In flight the controller is in a mode in which it refuses no landing,
\* hovering or emergency.
LEMMA AirborneInFlight ==
  ASSUME ControllerFollowsState, fsm # "OFF"
  PROVE  ctrl \in AirborneModes
BY DEF ControllerFollowsState, ModesOf, AirborneModes, ControllerState

LEMMA InitInv == Init => IInv
BY InitTyped
DEF Init, IInv, ControllerFollowsState, ModesOf, LandingOwedOnlyInHover,
    ReturnHasTarget, ReturnTargetNotInherited

\* A step that leaves the flight state, the controller's mode, the bookkeeping
\* of returns and the supervisor alone, and steers nowhere near home.
LEMMA FrameInv ==
  ASSUME IInv, TypeOK', UNCHANGED <<fsm, ctrl, sup.pc, retValid, landAfter, hoverT>>,
         ref' = ref \/ ref' # "home"
  PROVE  IInv'
BY DEF IInv, ControllerFollowsState, LandingOwedOnlyInHover, ReturnHasTarget,
       ReturnTargetNotInherited

LEMMA ClientCallInv ==
  ASSUME IInv, TypeOK', NEW w \in Workers, ClientCall(w)
  PROVE  IInv'
<1>1. UNCHANGED <<fsm, ctrl, sup, retValid, landAfter, hoverT>>
  BY DEF ClientCall, TakeoffSrv, LandSrv, ReturnSrv, PositionSrv, VelocityCmd,
         AttitudeCmd, TrajectoryCmd, TrajectoryRefused, ComplexCmd,
         AcceptCommand, RefuseCommand, control, returning
<1>2. ref' = ref \/ ref' # "home"
  BY GoalsAssumption
  DEF ClientCall, TakeoffSrv, LandSrv, ReturnSrv, PositionSrv, VelocityCmd,
      AttitudeCmd, TrajectoryCmd, TrajectoryRefused, ComplexCmd,
      AcceptCommand, RefuseCommand, control
<1> QED
  BY <1>1, <1>2, FrameInv

LEMMA QueueEventInv ==
  ASSUME IInv, TypeOK', NEW w \in Workers, QueueEvent(w)
  PROVE  IInv'
<1>1. UNCHANGED <<fsm, ctrl, sup, retValid, landAfter, hoverT, ref>>
  BY DEF QueueEvent, CheckEvent, PushEvent, ClearSource, control, returning
<1> QED
  BY <1>1, FrameInv

LEMMA UpdateFastInv ==
  ASSUME IInv, TypeOK', NEW w \in Workers, UpdateFast(w)
  PROVE  IInv'
<1>1. CASE FastUpdate(w)
  <2>1. UNCHANGED <<fsm, sup, retValid, landAfter, hoverT, ref>>
    BY <1>1 DEF FastUpdate, returning
  <2>2. ctrl' \in ModesOf(fsm)
    BY <1>1 DEF FastUpdate, IInv, ControllerFollowsState, ModesOf
  <2> QED
    BY <2>1, <2>2 DEF IInv, ControllerFollowsState, LandingOwedOnlyInHover,
       ReturnHasTarget, ReturnTargetNotInherited
<1>2. CASE FastTakeoffReached(w)
  <2>1. UNCHANGED <<fsm, sup, retValid, landAfter, hoverT>> /\ ref' = "hold"
    BY <1>2 DEF FastTakeoffReached, returning
  <2>2. ctrl' \in ModesOf(fsm)
    BY <1>2 DEF FastTakeoffReached, IInv, ControllerFollowsState, ModesOf
  <2> QED
    BY <2>1, <2>2 DEF IInv, ControllerFollowsState, LandingOwedOnlyInHover,
       ReturnHasTarget, ReturnTargetNotInherited
<1>3. CASE FastTrajectoryEnds(w)
  <2>1. UNCHANGED <<fsm, ctrl, sup, retValid, landAfter, hoverT, ref>>
    BY <1>3 DEF FastTrajectoryEnds, returning
  <2> QED
    BY <2>1, FrameInv
<1> QED
  BY <1>1, <1>2, <1>3 DEF UpdateFast

LEMMA EnvironmentInv ==
  ASSUME IInv, TypeOK', Environment
  PROVE  IInv'
<1>1. UNCHANGED <<fsm, ctrl, sup, retValid, landAfter, ref>>
      /\ (hoverT' = hoverT \/ hoverT' = "elapsed")
  BY DEF Environment, OdomArrives, OdomTimesOut, Depart, Arrive, Wander, Arms,
         Disarms, LandedHoldElapses, ReturnHoverElapses, SourceTimesOut,
         control, returning
<1> QED
  BY <1>1 DEF IInv, ControllerFollowsState, LandingOwedOnlyInHover,
     ReturnHasTarget, ReturnTargetNotInherited

\* The supervisor's place after an event: it marks an owed landing only after a
\* completed return, which ends in HOVER.
LEMMA MarkOnlyAfterReturn ==
  ASSUME IInv, NEW t, Handles(t), NEW ok \in BOOLEAN, Advance(ok), sup'.pc = "mark"
  PROVE  ok /\ fsm = "RETURN" /\ t = "HOVER"
<1>1. ok /\ Current = "RETURN_COMPLETED"
  BY HandlesTransition, AdvanceTyped DEF IInv, HasEvent
<1> QED
  BY <1>1, HandlesTransition

\* The four parts of the invariant, for a step into a state by way of SwitchTo
\* that has dropped the return's bookkeeping.
LEMMA SwitchInv ==
  ASSUME IInv, TypeOK', NEW t, Handles(t), NEW mode, NEW ok \in BOOLEAN,
         SwitchTo(t, mode, ok),
         mode \in ModesOf(t),
         ok => (t = "HOVER" \/ ~landAfter'),
         ok => (t = "RETURN" => retValid'),
         ok => (ref' = "home" => t \in LandingStates \cup {"RETURN"}),
         ~ok => /\ ref' = ref
                /\ fsm # "RETURN"
                /\ ~landAfter' \/ UNCHANGED <<landAfter, hoverT>>,
         ok /\ t = "HOVER" => UNCHANGED <<landAfter, hoverT>>
  PROVE  IInv'
<1>1. fsm' = (IF ok THEN t ELSE fsm) /\ ctrl' = (IF ok THEN mode ELSE ctrl)
  BY DEF SwitchTo
<1>2. Advance(ok)
  BY DEF SwitchTo
<1>3. sup'.pc = "mark" => ok /\ t = "HOVER"
  BY <1>2, MarkOnlyAfterReturn
<1>4. t = "HOVER" => fsm # "HOVER"
  BY HandlesTransition DEF ControlStates
<1>5. ControllerFollowsState'
  BY <1>1 DEF IInv, ControllerFollowsState
<1>6. LandingOwedOnlyInHover'
  BY <1>1, <1>3, <1>4 DEF IInv, LandingOwedOnlyInHover
<1>7. ReturnHasTarget' /\ ReturnTargetNotInherited'
  BY <1>1 DEF IInv, ReturnHasTarget, ReturnTargetNotInherited
<1> QED
  BY <1>5, <1>6, <1>7 DEF IInv

LEMMA HandleEventInv ==
  ASSUME IInv, TypeOK', HandleEvent
  PROVE  IInv'
<1> USE DEF ForgetReturn
<1>a. IInv => ControllerFollowsState
  BY DEF IInv
<1>1. CASE HandleIgnored
  <2>1. sup'.pc = sup.pc
    BY <1>1, AdvanceTyped DEF HandleIgnored, IInv
  <2> QED
    BY <1>1, <2>1, FrameInv DEF HandleIgnored, control, returning
<1>2. CASE HandleSelf
  <2>1. sup'.pc = sup.pc
    <3>1. Handles(fsm) /\ Advance(TRUE) /\ HasEvent
      BY <1>2, HandlesTransition DEF HandleSelf
    <3>2. sup'.pc # "mark"
      BY <3>1, MarkOnlyAfterReturn
    <3> QED
      BY <3>1, <3>2, AdvanceTyped DEF IInv
  <2> QED
    BY <1>2, <2>1, FrameInv DEF HandleSelf, control, returning
<1>3. CASE EnterTakeoff
  <2>1. fsm = "OFF" /\ ref' = ref
    BY <1>3, HandlesTransition DEF EnterTakeoff
  <2>2. ref # "home"
    BY <2>1 DEF IInv, ReturnTargetNotInherited, LandingStates
  <2> QED
    BY <1>3, <2>1, <2>2, SwitchInv DEF EnterTakeoff, ModesOf
<1>4. CASE EnterHover
  <2>1. fsm # "OFF"
    BY <1>4, HandlesTransition DEF EnterHover, ControlStates
  <2>2. ctrl \in AirborneModes
    BY <1>a, <2>1, AirborneInFlight
  <2> QED
    BY <1>4, <2>2, SwitchInv DEF EnterHover, ModesOf
<1>5. CASE EnterReturn
  <2>1. fsm # "OFF" /\ fsm # "RETURN"
    BY <1>5, HandlesTransition DEF EnterReturn, ControlStates
  <2>2. ctrl \in AirborneModes /\ ctrl # "UNDEFINED"
    BY <1>a, <2>1, AirborneInFlight DEF AirborneModes
  <2> QED
    BY <1>5, <2>1, <2>2, SwitchInv DEF EnterReturn, ModesOf
<1>6. ASSUME NEW st \in ControlStates, EnterMove(st)
      PROVE  IInv'
  <2>1. fsm \in {"HOVER"} \cup ControlStates
    BY <1>6, HandlesTransition DEF EnterMove
  <2>2. fsm # "RETURN" /\ ref' = ref /\ ref # "home"
    BY <1>6, <2>1
    DEF EnterMove, IInv, ReturnTargetNotInherited, LandingStates, ControlStates
  <2>3. "MOVE" \in ModesOf(st) /\ st # "HOVER" /\ st # "RETURN"
    BY DEF ModesOf, ControlStates
  <2> QED
    BY <1>6, <2>2, <2>3, SwitchInv DEF EnterMove, returning
<1>7. CASE EnterLand
  <2>1. fsm # "OFF"
    BY <1>7, HandlesTransition
    DEF EnterLand, Interruptible, ControlStates
  <2>2. ctrl \in AirborneModes
    BY <1>a, <2>1, AirborneInFlight
  <2> QED
    BY <1>7, <2>2, SwitchInv DEF EnterLand, ModesOf, LandingStates
<1>8. CASE EnterEmergency
  <2>1. fsm # "OFF"
    BY <1>8, HandlesTransition DEF EnterEmergency
  <2>2. ctrl \in AirborneModes
    BY <1>a, <2>1, AirborneInFlight
  <2> QED
    BY <1>8, <2>2, SwitchInv DEF EnterEmergency, ModesOf, LandingStates
<1>9. CASE EnterOff
  <2>1. fsm # "OFF"
    BY <1>9, HandlesTransition DEF EnterOff, LandingStates
  <2>2. ctrl # "UNDEFINED"
    BY <1>a, <2>1, AirborneInFlight DEF AirborneModes
  <2> QED
    BY <1>9, <2>2, SwitchInv DEF EnterOff, ModesOf
<1> QED
  BY <1>1, <1>2, <1>3, <1>4, <1>5, <1>6, <1>7, <1>8, <1>9 DEF HandleEvent

LEMMA UpdateSlowInv ==
  ASSUME IInv, TypeOK', UpdateSlow
  PROVE  IInv'
<1>1. CASE SwapPending
  <2>1. sup'.pc = "drain"
    BY <1>1 DEF SwapPending, IInv, TypeOK, Supervisor
  <2> QED
    BY <1>1, <2>1
    DEF SwapPending, control, returning, IInv, ControllerFollowsState,
        LandingOwedOnlyInHover, ReturnHasTarget, ReturnTargetNotInherited
<1>2. CASE Sample
  <2>1. sup'.pc = "act"
    BY <1>2 DEF Sample
  <2>2. UNCHANGED <<fsm, ctrl, ref, retValid>>
        /\ (landAfter' => landAfter /\ hoverT' = hoverT)
    BY <1>2 DEF Sample, control
  <2> QED
    BY <2>1, <2>2
    DEF IInv, ControllerFollowsState, LandingOwedOnlyInHover, ReturnHasTarget,
        ReturnTargetNotInherited
<1>3. CASE MarkLandAfterReturn
  <2>1. sup'.pc = "act"
    BY <1>3 DEF MarkLandAfterReturn, IInv, TypeOK, Supervisor
  <2> QED
    BY <1>3, <2>1
    DEF MarkLandAfterReturn, control, IInv, ControllerFollowsState,
        LandingOwedOnlyInHover, ReturnHasTarget, ReturnTargetNotInherited
<1>4. CASE Resample
  <2>1. sup'.pc = "finish"
    BY <1>4 DEF Resample, IInv, TypeOK, Supervisor
  <2> QED
    BY <1>4, <2>1
    DEF Resample, control, returning, IInv, ControllerFollowsState,
        LandingOwedOnlyInHover, ReturnHasTarget, ReturnTargetNotInherited
<1> QED
  BY <1>1, <1>2, <1>3, <1>4, HandleEventInv DEF UpdateSlow

LEMMA NextInv == IInv /\ [Next]_vars => IInv'
<1> SUFFICES ASSUME IInv, [Next]_vars PROVE IInv'
  OBVIOUS
<1>1. TypeOK'
  BY NextTyped DEF IInv
<1>2. CASE UNCHANGED vars
  BY <1>1, <1>2, FrameInv DEF vars, control, returning
<1> QED
  BY <1>1, <1>2, ClientCallInv, QueueEventInv, UpdateFastInv, EnvironmentInv,
     UpdateSlowInv DEF Next

THEOREM Invariant == Spec => []IInv
BY InitInv, NextInv, PTL DEF Spec

\* The controller is always in a mode of the flight state, whatever threads,
\* commands and losses of odometry interleave.
THEOREM ControllerFollows == Spec => []ControllerFollowsState
<1>1. IInv => ControllerFollowsState
  BY DEF IInv
<1> QED
  BY <1>1, Invariant, PTL

\* A landing is owed only in HOVER with the timer running.
THEOREM LandingOwed == Spec => []LandingOwedOnlyInHover
<1>1. IInv => LandingOwedOnlyInHover
  BY DEF IInv
<1> QED
  BY <1>1, Invariant, PTL

\* A return in progress has its target.
THEOREM ReturnTarget == Spec => []ReturnHasTarget
<1>1. IInv => ReturnHasTarget
  BY DEF IInv
<1> QED
  BY <1>1, Invariant, PTL

\* Home is steered to by nothing but a return and the landing after it.
THEOREM TargetNotInherited == Spec => []ReturnTargetNotInherited
<1>1. IInv => ReturnTargetNotInherited
  BY DEF IInv
<1> QED
  BY <1>1, Invariant, PTL

-----------------------------------------------------------------------------
\* Only handling an event shortens the supervisor's batch.
LEMMA OnlyHandlingShortens ==
  ASSUME IInv, [Next]_vars, sup.batch # << >>, Len(sup'.batch) < Len(sup.batch)
  PROVE  HandleEvent
<1>1. sup.batch \in Seq(SunrayEvent)
  BY DEF IInv, TypeOK, Supervisor
<1>2. sup' # sup
  BY <1>1, LenProperties
<1>3. ~SwapPending /\ ~Sample /\ ~Resample
  BY DEF SwapPending, Sample, Resample
<1>4. ~MarkLandAfterReturn
  <2>1. MarkLandAfterReturn => sup'.batch = sup.batch
    BY DEF MarkLandAfterReturn, IInv, TypeOK, Supervisor
  <2> QED
    BY <1>1, <2>1, LenProperties
<1>5. ~Environment /\ ~UNCHANGED vars
  BY <1>2 DEF Environment, OdomArrives, OdomTimesOut, Depart, Arrive, Wander,
     Arms, Disarms, LandedHoldElapses, ReturnHoverElapses, SourceTimesOut, vars
<1>6. \A w \in Workers : ~ClientCall(w) /\ ~QueueEvent(w) /\ ~UpdateFast(w)
  BY <1>2 DEF ClientCall, TakeoffSrv, LandSrv, ReturnSrv, PositionSrv,
     VelocityCmd, AttitudeCmd, TrajectoryCmd, TrajectoryRefused, ComplexCmd,
     AcceptCommand, RefuseCommand, QueueEvent, CheckEvent, PushEvent,
     ClearSource, UpdateFast, FastUpdate, FastTakeoffReached, FastTrajectoryEnds
<1> QED
  BY <1>3, <1>4, <1>5, <1>6 DEF Next, UpdateSlow

\* In every state but OFF and EMERGENCY_LAND the table takes the request.
LEMMA EmergencyTaken ==
  ASSUME TypeOK, fsm \notin {"OFF", "EMERGENCY_LAND"}
  PROVE  Resolve(fsm, "EMERGENCY_REQUEST", CanTakeoff) # {}
<1>1. <<fsm, "EMERGENCY_REQUEST", "EMERGENCY_LAND">> \in Transitions
  BY DEF TypeOK, Transitions
<1> QED
  BY <1>1 DEF Resolve, SunrayState, LandingStates

\* An emergency request handled in flight is obeyed.
THEOREM EmergencyObeyed == Spec => EmergencyIsObeyed
<1>1. ASSUME IInv, [Next]_vars, sup.batch # << >>,
             Head(sup.batch) = "EMERGENCY_REQUEST",
             Len(sup'.batch) < Len(sup.batch), fsm # "OFF"
      PROVE  fsm' = "EMERGENCY_LAND"
  <2>1. HandleEvent
    BY <1>1, OnlyHandlingShortens
  <2>2. Current = "EMERGENCY_REQUEST"
    BY <1>1 DEF Current
  <2>3. ASSUME NEW t, Handles(t) PROVE t = "EMERGENCY_LAND"
    BY <2>2, <2>3, HandlesTransition
  <2>4. CASE HandleIgnored
    BY <1>1, <2>2, <2>4, EmergencyTaken DEF HandleIgnored, IInv
  <2>5. CASE HandleSelf
    BY <2>3, <2>5 DEF HandleSelf
  <2>6. CASE EnterEmergency
    <3>1. ctrl \in AirborneModes
      BY <1>1, AirborneInFlight DEF IInv
    <3> QED
      BY <2>6, <3>1 DEF EnterEmergency, SwitchTo
  <2>7. ~EnterTakeoff /\ ~EnterHover /\ ~EnterReturn /\ ~EnterLand /\ ~EnterOff
    BY <2>3 DEF EnterTakeoff, EnterHover, EnterReturn, EnterLand, EnterOff
  <2>8. \A st \in ControlStates : ~EnterMove(st)
    BY <2>3 DEF EnterMove, ControlStates
  <2> QED
    BY <2>1, <2>4, <2>5, <2>6, <2>7, <2>8 DEF HandleEvent
<1>2. IInv /\ [Next]_vars
        => [/\ sup.batch # << >> /\ Head(sup.batch) = "EMERGENCY_REQUEST"
            /\ Len(sup'.batch) < Len(sup.batch)
            /\ fsm # "OFF"
            => fsm' = "EMERGENCY_LAND"]_vars
  BY <1>1
<1> QED
  BY <1>2, Invariant, PTL DEF Spec, EmergencyIsObeyed

=============================================================================
