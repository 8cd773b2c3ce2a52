------------------------ MODULE StateMachine_refinement ------------------------
(***************************************************************************)
(* Proof that StateMachine implements FlightLifecycle, for every number of *)
(* threads and every set of goals, sources and requests.                   *)
(***************************************************************************)
EXTENDS StateMachine_proofs

-----------------------------------------------------------------------------
(* The end of a take-off is reported only when the controller hovers: the  *)
(* one fact the mapping needs beyond IInv.                                 *)

OtherEvent == SunrayEvent \ {"TAKEOFF_COMPLETED"}

EndInv ==
  /\ \A w \in Workers : wk[w].ev # "TAKEOFF_COMPLETED"
  /\ pending \in Seq(OtherEvent)
  /\ \/ sup.batch \in Seq(OtherEvent)
     \/ sup.batch = <<"TAKEOFF_COMPLETED">> /\ fsm = "TAKEOFF" /\ ctrl = "HOVER"

LEMMA InitEnd == Init => EndInv
BY EmptySeq DEF Init, EndInv, IdleWorker

\* A callback queues other events only.
LEMMA BeginEnd ==
  ASSUME TypeOK, EndInv, NEW w \in Workers, NEW e \in OtherEvent,
         NEW service \in BOOLEAN, Begin(w, e, service)
  PROVE  \A v \in Workers : wk'[v].ev # "TAKEOFF_COMPLETED"
BY DEF TypeOK, EndInv, Begin, OtherEvent

LEMMA RequestsAreOther ==
  /\ {"TAKEOFF_REQUEST", "LAND_REQUEST", "RETURN_REQUEST", "EMERGENCY_REQUEST",
      "RETURN_COMPLETED", "ENTER_POSITION_CONTROL"} \subseteq OtherEvent
  /\ \A st \in ControlStates : Enter[st] \in OtherEvent
BY DEF OtherEvent, SunrayEvent, ControlStates, Enter

LEMMA ClientCallEnd ==
  ASSUME TypeOK, EndInv, NEW w \in Workers, ClientCall(w)
  PROVE  EndInv'
<1>1. UNCHANGED <<fsm, ctrl, pending, sup>>
  BY DEF ClientCall, TakeoffSrv, LandSrv, ReturnSrv, PositionSrv, VelocityCmd,
         AttitudeCmd, TrajectoryCmd, TrajectoryRefused, ComplexCmd,
         AcceptCommand, RefuseCommand, control
<1>2. \/ UNCHANGED wk
      \/ \E e \in OtherEvent, service \in BOOLEAN : Begin(w, e, service)
  <2>1. ControlStates = {"POSITION_CONTROL", "VELOCITY_CONTROL",
                         "ATTITUDE_CONTROL", "COMPLEX_CONTROL",
                         "TRAJECTORY_CONTROL"}
    BY DEF ControlStates
  <2>2. CASE VelocityCmd(w) \/ AttitudeCmd(w) \/ TrajectoryCmd(w) \/ ComplexCmd(w)
    <3>1. UNCHANGED wk \/ \E st \in ControlStates : Begin(w, Enter[st], FALSE)
      BY <2>1, <2>2 DEF VelocityCmd, AttitudeCmd, TrajectoryCmd, ComplexCmd,
                        AcceptCommand, RefuseCommand
    <3> QED
      BY <3>1, RequestsAreOther
  <2>3. CASE \/ TakeoffSrv(w) \/ LandSrv(w) \/ ReturnSrv(w) \/ PositionSrv(w)
             \/ TrajectoryRefused(w)
    BY <2>3, RequestsAreOther
    DEF TakeoffSrv, LandSrv, ReturnSrv, PositionSrv, TrajectoryRefused
  <2> QED
    BY <2>2, <2>3 DEF ClientCall
<1>3. \A v \in Workers : wk'[v].ev # "TAKEOFF_COMPLETED"
  BY <1>2, BeginEnd DEF EndInv
<1> QED
  BY <1>1, <1>3 DEF EndInv

LEMMA QueueEventEnd ==
  ASSUME TypeOK, EndInv, NEW w \in Workers, QueueEvent(w)
  PROVE  EndInv'
<1>1. UNCHANGED <<fsm, ctrl, sup>>
  BY DEF QueueEvent, CheckEvent, PushEvent, ClearSource, control
<1>2. \A v \in Workers : wk'[v].ev # "TAKEOFF_COMPLETED"
  BY DEF QueueEvent, CheckEvent, PushEvent, ClearSource, TypeOK, EndInv,
         IdleWorker, Worker
<1>3. pending' \in Seq(OtherEvent)
  <2>1. CASE PushEvent(w)
    <3>1. wk[w].ev \in OtherEvent
      BY <2>1 DEF PushEvent, TypeOK, EndInv, Worker, IdleWorker, OtherEvent
    <3> QED
      BY <2>1, <3>1, AppendProperties DEF PushEvent, EndInv
  <2>2. CASE CheckEvent(w) \/ ClearSource(w)
    BY <2>2 DEF CheckEvent, ClearSource, EndInv
  <2> QED
    BY <2>1, <2>2 DEF QueueEvent
<1> QED
  BY <1>1, <1>2, <1>3 DEF EndInv

LEMMA UpdateFastEnd ==
  ASSUME TypeOK, EndInv, NEW w \in Workers, UpdateFast(w)
  PROVE  EndInv'
<1>1. UNCHANGED <<fsm, pending, sup>> /\ (ctrl = "HOVER" => ctrl' = "HOVER")
  BY DEF UpdateFast, FastUpdate, FastTakeoffReached, FastTrajectoryEnds
<1>2. UNCHANGED wk \/ Begin(w, "EMERGENCY_REQUEST", FALSE)
  BY DEF UpdateFast, FastUpdate, FastTakeoffReached, FastTrajectoryEnds,
         ReportStaleOdom
<1>3. \A v \in Workers : wk'[v].ev # "TAKEOFF_COMPLETED"
  BY <1>2, BeginEnd, RequestsAreOther DEF EndInv
<1> QED
  BY <1>1, <1>3 DEF EndInv

LEMMA EnvironmentEnd ==
  ASSUME EndInv, Environment
  PROVE  EndInv'
BY DEF Environment, OdomArrives, OdomTimesOut, Depart, Arrive, Wander, Arms,
       Disarms, LandedHoldElapses, ReturnHoverElapses, SourceTimesOut, control,
       EndInv

\* What handling an event leaves of the batch is free of it.
LEMMA HandleEventEnd ==
  ASSUME TypeOK, EndInv, HandleEvent
  PROVE  EndInv'
<1>1. HasEvent /\ UNCHANGED <<pending, wk>> /\ \E ok : Advance(ok)
  BY HandlesTransition
  DEF HandleEvent, HandleIgnored, HandleSelf, EnterTakeoff, EnterHover,
      EnterReturn, EnterMove, EnterLand, EnterEmergency, EnterOff, SwitchTo
<1>2. sup'.batch = Tail(sup.batch)
  BY <1>1, AdvanceTyped
<1>3. sup'.batch \in Seq(OtherEvent)
  <2>1. CASE sup.batch \in Seq(OtherEvent)
    BY <1>1, <1>2, <2>1, HeadTailProperties DEF HasEvent
  <2>2. CASE sup.batch = <<"TAKEOFF_COMPLETED">>
    <3>1. Tail(sup.batch) = << >>
      BY <2>2
    <3> QED
      BY <1>2, <3>1, EmptySeq
  <2> QED
    BY <2>1, <2>2 DEF EndInv
<1> QED
  BY <1>1, <1>3 DEF EndInv

LEMMA UpdateSlowEnd ==
  ASSUME TypeOK, EndInv, UpdateSlow
  PROVE  EndInv'
<1>1. CASE SwapPending
  <2>1. sup'.batch = pending
    BY <1>1 DEF SwapPending, TypeOK, Supervisor
  <2> QED
    BY <1>1, <2>1, EmptySeq DEF SwapPending, EndInv
<1>2. CASE Sample
  <2> DEFINE emergency == If(StaleInFlight, "EMERGENCY_REQUEST")
             returned  == If(fsm = "RETURN" /\ ReturnTargetReached,
                             "RETURN_COMPLETED")
             landNow   == If(landAfter /\ fsm = "HOVER" /\ hoverT = "elapsed",
                             "LAND_REQUEST")
  <2>1. /\ emergency \in Seq(OtherEvent)
        /\ returned \in Seq(OtherEvent)
        /\ landNow \in Seq(OtherEvent)
    BY RequestsAreOther, EmptySeq DEF If
  <2>2. (emergency \o returned) \o landNow \in Seq(OtherEvent)
    BY <2>1, ConcatProperties
  <2>3. sup'.batch = (emergency \o returned) \o landNow
    BY <1>2 DEF Sample
  <2> HIDE DEF emergency, returned, landNow
  <2>4. sup'.batch \in Seq(OtherEvent)
    BY <2>2, <2>3
  <2> QED
    BY <1>2, <2>4 DEF Sample, EndInv
<1>3. CASE MarkLandAfterReturn
  <2>1. sup'.batch = sup.batch
    BY <1>3 DEF MarkLandAfterReturn, TypeOK, Supervisor
  <2> QED
    BY <1>3, <2>1 DEF MarkLandAfterReturn, control, EndInv
<1>4. CASE Resample
  <2>1. \/ /\ sup'.batch = <<"TAKEOFF_COMPLETED">>
           /\ fsm = "TAKEOFF" /\ ctrl = "HOVER"
        \/ sup'.batch \in {<<"LAND_COMPLETED">>, <<"EMERGENCY_COMPLETED">>,
                           <<"POSITION_COMPLETED">>, <<"TRAJECTORY_COMPLETED">>,
                           << >>}
    BY <1>4 DEF Resample, TypeOK, Supervisor, If
  <2>2. {"LAND_COMPLETED", "EMERGENCY_COMPLETED", "POSITION_COMPLETED",
         "TRAJECTORY_COMPLETED"} \subseteq OtherEvent
    BY DEF OtherEvent, SunrayEvent, ControlStates, Completed
  <2>3. \A e \in OtherEvent : <<e>> \in Seq(OtherEvent)
    OBVIOUS
  <2> QED
    BY <1>4, <2>1, <2>2, <2>3, EmptySeq DEF Resample, control, EndInv
<1> QED
  BY <1>1, <1>2, <1>3, <1>4, HandleEventEnd DEF UpdateSlow

LEMMA NextEnd == IInv /\ EndInv /\ [Next]_vars => EndInv'
<1> SUFFICES ASSUME IInv, EndInv, [Next]_vars PROVE EndInv'
  OBVIOUS
<1>1. CASE UNCHANGED vars
  BY <1>1 DEF vars, control, EndInv
<1> QED
  BY <1>1, ClientCallEnd, QueueEventEnd, UpdateFastEnd, EnvironmentEnd,
     UpdateSlowEnd DEF Next, IInv

-----------------------------------------------------------------------------
(* Every step is a step of the lifecycle or a stutter.                     *)

Owed == IF landAfter THEN "owed" ELSE IF sup.pc = "mark" THEN "due" ELSE "no"

Mapped == <<PhaseOf(fsm), MotionOf(ctrl), Owed>>

\* One step of the abstract specification, or a stutter.
AbstractStep == [Lifecycle!Next]_(Lifecycle!lvars)

LEMMA StutterRefines ==
  ASSUME UNCHANGED Mapped
  PROVE  AbstractStep
BY DEF Mapped, Owed, AbstractStep, Lifecycle!lvars

LEMMA PhaseValues ==
  /\ PhaseOf("OFF") = "ground"
  /\ PhaseOf("TAKEOFF") = "climb"
  /\ PhaseOf("RETURN") = "return"
  /\ PhaseOf("HOVER") = "air"
  /\ \A st \in ControlStates : PhaseOf(st) = "air"
  /\ \A st \in LandingStates : PhaseOf(st) = "descend"
BY DEF PhaseOf, ControlStates, LandingStates

LEMMA MotionValues ==
  /\ MotionOf("UNDEFINED") = "idle" /\ MotionOf("OFF") = "idle"
  /\ MotionOf("TAKEOFF") = "climb"
  /\ MotionOf("HOVER") = "hold"
  /\ MotionOf("MOVE") = "move"
  /\ MotionOf("LAND") = "descend" /\ MotionOf("EMERGENCY_LAND") = "descend"
BY DEF MotionOf

LEMMA InitRefines == Init => Lifecycle!Init
BY PhaseValues, MotionValues DEF Init, Lifecycle!Init

\* The threads, the controller and the environment: only the end of a climb
\* shows.
LEMMA OthersRefine ==
  ASSUME IInv,
         \/ UNCHANGED vars
         \/ \E w \in Workers : ClientCall(w) \/ QueueEvent(w) \/ UpdateFast(w)
         \/ Environment
  PROVE  AbstractStep
<1>1. CASE \E w \in Workers : FastTakeoffReached(w)
  <2>1. ctrl = "TAKEOFF" /\ ctrl' = "HOVER" /\ UNCHANGED <<fsm, sup, landAfter>>
    BY <1>1 DEF FastTakeoffReached, returning
  <2>2. fsm = "TAKEOFF"
    BY <2>1 DEF IInv, TypeOK, ControllerFollowsState, ModesOf, SunrayState
  <2>3. Lifecycle!HoldHeight
    BY <2>1, <2>2, PhaseValues, MotionValues
    DEF Lifecycle!HoldHeight, Lifecycle!Become
  <2> QED
    BY <2>3 DEF AbstractStep, Lifecycle!Next
<1>2. CASE \E w \in Workers : FastUpdate(w)
  <2>1. UNCHANGED <<fsm, sup, landAfter, MotionOf(ctrl)>>
    BY <1>2 DEF FastUpdate, returning, MotionOf
  <2> QED
    BY <2>1, StutterRefines DEF Mapped, Owed
<1>3. CASE \/ UNCHANGED vars
            \/ \E w \in Workers : \/ ClientCall(w) \/ QueueEvent(w)
                                  \/ FastTrajectoryEnds(w)
  <2>1. UNCHANGED <<fsm, ctrl, sup, landAfter>>
    BY <1>3
    DEF ClientCall, TakeoffSrv, LandSrv, ReturnSrv, PositionSrv, VelocityCmd,
        AttitudeCmd, TrajectoryCmd, TrajectoryRefused, ComplexCmd,
        AcceptCommand, RefuseCommand, QueueEvent, CheckEvent, PushEvent,
        ClearSource, FastTrajectoryEnds, control, returning, vars
  <2> QED
    BY <2>1, StutterRefines DEF Mapped, Owed
<1>4. CASE Environment
  <2>1. UNCHANGED <<fsm, ctrl, sup, landAfter>>
    BY <1>4
    DEF Environment, OdomArrives, OdomTimesOut, Depart, Arrive, Wander, Arms,
        Disarms, LandedHoldElapses, ReturnHoverElapses, SourceTimesOut,
        control, returning
  <2> QED
    BY <2>1, StutterRefines DEF Mapped, Owed
<1> QED
  <2>1. ASSUME NEW w \in Workers, ClientCall(w) \/ QueueEvent(w)
        PROVE  AbstractStep
    BY <1>3, <2>1
  <2>2. ASSUME NEW w \in Workers, UpdateFast(w)
        PROVE  AbstractStep
    BY <1>1, <1>2, <1>3, <2>2 DEF UpdateFast
  <2> QED
    BY <1>3, <1>4, <2>1, <2>2

\* The supervisor's own sections.
LEMMA SectionsRefine ==
  ASSUME IInv, SwapPending \/ Sample \/ MarkLandAfterReturn \/ Resample
  PROVE  AbstractStep
<1>0. sup \in Supervisor /\ landAfter \in BOOLEAN
  BY DEF IInv, TypeOK
<1>1. CASE SwapPending \/ Resample
  <2>1. /\ UNCHANGED <<fsm, ctrl, landAfter>>
        /\ sup.pc # "mark" /\ sup'.pc # "mark"
    BY <1>0, <1>1 DEF SwapPending, Resample, Supervisor, control, returning
  <2> QED
    BY <2>1, StutterRefines DEF Mapped, Owed
<1>2. CASE MarkLandAfterReturn
  <2>1. /\ UNCHANGED <<fsm, ctrl>> /\ landAfter'
        /\ sup.pc = "mark" /\ sup'.pc # "mark"
    BY <1>0, <1>2 DEF MarkLandAfterReturn, Supervisor, control
  <2>2. CASE landAfter
    BY <2>1, <2>2, StutterRefines DEF Mapped, Owed
  <2>3. CASE ~landAfter
    <3>1. Lifecycle!OweLanding
      BY <2>1, <2>3 DEF Lifecycle!OweLanding, Lifecycle!Become
    <3> QED
      BY <3>1 DEF AbstractStep, Lifecycle!Next
  <2> QED
    BY <2>2, <2>3
<1>3. CASE Sample
  <2>1. /\ UNCHANGED <<fsm, ctrl>> /\ (landAfter' => landAfter)
        /\ sup.pc # "mark" /\ sup'.pc # "mark"
    BY <1>0, <1>3 DEF Sample, Supervisor, control
  <2>2. CASE ~landAfter \/ landAfter'
    BY <1>0, <2>1, <2>2, StutterRefines DEF Mapped, Owed
  <2>3. CASE landAfter /\ ~landAfter'
    <3>1. Lifecycle!AskLanding
      BY <2>1, <2>3 DEF Lifecycle!AskLanding, Lifecycle!Become
    <3> QED
      BY <3>1 DEF AbstractStep, Lifecycle!Next
  <2> QED
    BY <2>2, <2>3
<1> QED
  BY <1>1, <1>2, <1>3

\* HOVER is entered at the end of a climb, of a return or of a command.
LEMMA HoverFrom ==
  ASSUME NEW s, NEW e, <<s, e, "HOVER">> \in Transitions
  PROVE  \/ s = "TAKEOFF" /\ e = "TAKEOFF_COMPLETED"
         \/ s = "RETURN" /\ e = "RETURN_COMPLETED"
         \/ s \in ControlStates
BY DEF Transitions, ControlStates, LandingStates

\* What handling an event leaves of the bookkeeping of returns.
LEMMA HandleOwes ==
  ASSUME IInv, NEW t, Handles(t), NEW ok \in BOOLEAN, Advance(ok)
  PROVE  /\ sup.pc # "mark"
         /\ sup'.pc = "mark" => ok /\ fsm = "RETURN" /\ t = "HOVER"
         /\ fsm = "RETURN" /\ t = "HOVER" /\ ok => sup'.pc = "mark"
         /\ fsm = "TAKEOFF" /\ t = "HOVER" => Current = "TAKEOFF_COMPLETED"
<1>1. HasEvent /\ <<fsm, Current, t>> \in Transitions
  BY DEF Handles, Resolve
<1>2. t = "HOVER" => \/ fsm = "TAKEOFF" /\ Current = "TAKEOFF_COMPLETED"
                     \/ fsm = "RETURN" /\ Current = "RETURN_COMPLETED"
                     \/ fsm \in ControlStates
  BY <1>1, HoverFrom
<1>3. fsm = "RETURN" /\ t = "HOVER" /\ ok => sup'.pc = "mark"
  BY <1>2 DEF Advance, IInv, TypeOK, Supervisor, ControlStates
<1> QED
  BY <1>1, <1>2, <1>3, MarkOnlyAfterReturn DEF HasEvent, ControlStates

\* A refused event may still forget the landing owed: as if it were asked for.
LEMMA DroppedRefines ==
  ASSUME UNCHANGED <<fsm, ctrl>>, landAfter \in BOOLEAN,
         landAfter' => landAfter,
         sup.pc # "mark", sup'.pc # "mark"
  PROVE  AbstractStep
<1>1. CASE landAfter /\ ~landAfter'
  <2>1. Lifecycle!AskLanding
    BY <1>1 DEF Lifecycle!AskLanding, Lifecycle!Become
  <2> QED
    BY <2>1 DEF AbstractStep, Lifecycle!Next
<1>2. CASE ~landAfter \/ landAfter'
  BY <1>2, StutterRefines DEF Mapped, Owed
<1> QED
  BY <1>1, <1>2

\* A handled event moves the vehicle along the lifecycle: in flight the
\* controller never refuses its mode, except a move without a reference.
LEMMA HandleRefines ==
  ASSUME IInv, EndInv, HandleEvent
  PROVE  AbstractStep
<1> USE DEF ForgetReturn
<1>0. /\ landAfter \in BOOLEAN /\ fsm \in SunrayState
      /\ ctrl \in ControllerState
      /\ landAfter => fsm = "HOVER"
      /\ ControllerFollowsState
  BY DEF IInv, TypeOK, LandingOwedOnlyInHover
<1>1. CASE HandleIgnored
  <2>1. HasEvent /\ UNCHANGED <<fsm, ctrl, landAfter>> /\ Advance(FALSE)
    BY <1>1 DEF HandleIgnored, control, returning
  <2>2. sup.pc # "mark" /\ sup'.pc # "mark"
    BY <2>1, AdvanceTyped DEF HasEvent, IInv
  <2> QED
    BY <2>1, <2>2, StutterRefines DEF Mapped, Owed
<1>2. CASE HandleSelf
  <2>1. Handles(fsm) /\ UNCHANGED <<fsm, ctrl, landAfter>> /\ Advance(TRUE)
    BY <1>2 DEF HandleSelf, control, returning
  <2>2. sup.pc # "mark" /\ sup'.pc # "mark"
    BY <2>1, HandleOwes
  <2> QED
    BY <2>1, <2>2, StutterRefines DEF Mapped, Owed
<1>3. CASE EnterTakeoff
  <2>1. /\ Handles("TAKEOFF") /\ fsm = "OFF" /\ ~landAfter'
        /\ SwitchTo("TAKEOFF", "TAKEOFF", ctrl = "OFF")
    BY <1>3, HandlesTransition DEF EnterTakeoff
  <2>2. sup.pc # "mark" /\ sup'.pc # "mark"
    BY <2>1, HandleOwes DEF SwitchTo
  <2>3. CASE ctrl = "OFF"
    <3>1. Lifecycle!TakeOff
      BY <2>1, <2>2, <2>3, PhaseValues, MotionValues
      DEF SwitchTo, Lifecycle!TakeOff, Lifecycle!Become
    <3> QED
      BY <3>1 DEF AbstractStep, Lifecycle!Next
  <2>4. CASE ctrl # "OFF"
    <3>1. UNCHANGED <<fsm, ctrl>> /\ ~landAfter
      BY <1>0, <2>1, <2>4 DEF SwitchTo
    <3> QED
      BY <2>1, <2>2, <3>1, StutterRefines DEF Mapped, Owed
  <2> QED
    BY <2>3, <2>4
<1>4. CASE EnterHover
  <2>1. /\ Handles("HOVER") /\ landAfter' = landAfter
        /\ SwitchTo("HOVER", "HOVER", ctrl \in AirborneModes)
    BY <1>4 DEF EnterHover
  <2>2. fsm \in {"TAKEOFF", "RETURN"} \cup ControlStates
    BY <2>1, HandlesTransition
  <2>3. ctrl \in AirborneModes /\ ~landAfter /\ ~landAfter'
    BY <1>0, <2>1, <2>2, AirborneInFlight DEF ControlStates
  <2>4. fsm' = "HOVER" /\ ctrl' = "HOVER" /\ Advance(TRUE)
    BY <2>1, <2>3 DEF SwitchTo
  <2>5. sup.pc # "mark" /\ (sup'.pc = "mark" <=> fsm = "RETURN")
    BY <2>1, <2>4, HandleOwes
  <2>6. CASE fsm = "TAKEOFF"
    <3>1. sup.batch = <<"TAKEOFF_COMPLETED">>
      <4>1. HasEvent /\ Current = "TAKEOFF_COMPLETED"
        BY <2>1, <2>4, <2>6, HandleOwes DEF Handles
      <4>2. sup.batch \notin Seq(OtherEvent)
        BY <4>1, HeadTailProperties DEF HasEvent, Current, OtherEvent
      <4> QED
        BY <4>2 DEF EndInv
    <3>2. ctrl = "HOVER"
      BY <3>1 DEF EndInv, OtherEvent
    <3>3. Lifecycle!EndClimb
      BY <2>3, <2>4, <2>5, <2>6, <3>2, PhaseValues, MotionValues
      DEF Lifecycle!EndClimb, Lifecycle!Become
    <3> QED
      BY <3>3 DEF AbstractStep, Lifecycle!Next
  <2>7. CASE fsm = "RETURN"
    <3>1. Lifecycle!ComeHome
      BY <2>3, <2>4, <2>5, <2>7, PhaseValues, MotionValues
      DEF Lifecycle!ComeHome, Lifecycle!Become
    <3> QED
      BY <3>1 DEF AbstractStep, Lifecycle!Next
  <2>8. CASE fsm \in ControlStates
    <3>1. ctrl = "MOVE" /\ fsm # "RETURN"
      BY <1>0, <2>8
      DEF ControllerFollowsState, ModesOf, ControlStates, LandingStates
    <3>2. Lifecycle!Settle
      BY <2>3, <2>4, <2>5, <2>8, <3>1, PhaseValues, MotionValues
      DEF Lifecycle!Settle, Lifecycle!Become
    <3> QED
      BY <3>2 DEF AbstractStep, Lifecycle!Next
  <2> QED
    BY <2>2, <2>6, <2>7, <2>8
<1>5. CASE EnterReturn
  <2>1. PICK ok \in BOOLEAN : SwitchTo("RETURN", "MOVE", ok)
    BY <1>5 DEF EnterReturn
  <2>2. /\ Handles("RETURN") /\ ~landAfter'
        /\ fsm \in {"HOVER"} \cup ControlStates
    BY <1>5, HandlesTransition DEF EnterReturn
  <2>3. sup.pc # "mark" /\ sup'.pc # "mark"
    BY <2>1, <2>2, HandleOwes DEF SwitchTo
  <2>4. CASE ok
    <3>1. Lifecycle!GoHome
      BY <2>1, <2>2, <2>3, <2>4, PhaseValues, MotionValues
      DEF SwitchTo, Lifecycle!GoHome, Lifecycle!Become
    <3> QED
      BY <3>1 DEF AbstractStep, Lifecycle!Next
  <2>5. CASE ~ok
    BY <1>0, <2>1, <2>2, <2>3, <2>5, DroppedRefines DEF SwitchTo
  <2> QED
    BY <2>4, <2>5
<1>6. CASE \E st \in ControlStates : EnterMove(st)
  <2>1. PICK st \in ControlStates : EnterMove(st)
    BY <1>6
  <2>2. PICK ok \in BOOLEAN :
          SwitchTo(st, "MOVE", ok) /\ (ok => ~landAfter')
    BY <2>1 DEF EnterMove
  <2>3. /\ Handles(st) /\ (landAfter' => landAfter)
        /\ fsm \in {"HOVER"} \cup ControlStates
    BY <2>1, HandlesTransition DEF EnterMove, returning
  <2>4. sup.pc # "mark" /\ sup'.pc # "mark"
    BY <2>2, <2>3, HandleOwes DEF SwitchTo, ControlStates
  <2>5. CASE ok
    <3>1. Lifecycle!Follow
      BY <2>2, <2>3, <2>4, <2>5, PhaseValues, MotionValues
      DEF SwitchTo, Lifecycle!Follow, Lifecycle!Become
    <3> QED
      BY <3>1 DEF AbstractStep, Lifecycle!Next
  <2>6. CASE ~ok
    <3>1. landAfter' \in BOOLEAN
      BY <1>0, <2>1 DEF EnterMove, returning
    <3> QED
      BY <1>0, <2>2, <2>3, <2>4, <2>6, <3>1, DroppedRefines DEF SwitchTo
  <2> QED
    BY <2>5, <2>6
<1>7. CASE EnterLand \/ EnterEmergency
  <2>1. PICK t \in LandingStates :
          /\ Handles(t) /\ ~landAfter'
          /\ SwitchTo(t, t, ctrl \in AirborneModes)
    BY <1>7 DEF EnterLand, EnterEmergency, LandingStates
  <2>2. /\ t = "LAND" => fsm \in Interruptible
        /\ fsm # "OFF"
    BY <2>1, HandlesTransition DEF LandingStates, Interruptible, ControlStates
  <2>3. fsm' = t /\ ctrl' = t /\ Advance(TRUE)
    BY <1>0, <2>1, <2>2, AirborneInFlight DEF SwitchTo
  <2>4. sup.pc # "mark" /\ sup'.pc # "mark"
    BY <2>1, <2>3, HandleOwes DEF LandingStates
  <2>5. PhaseOf(t) = "descend" /\ MotionOf(t) = "descend"
    BY PhaseValues, MotionValues DEF LandingStates
  <2>6. CASE fsm \in LandingStates
    <3>1. PhaseOf(fsm) = "descend" /\ MotionOf(ctrl) = "descend" /\ ~landAfter
      BY <1>0, <2>6, PhaseValues, MotionValues
      DEF ControllerFollowsState, ModesOf, LandingStates
    <3> QED
      BY <2>1, <2>3, <2>4, <2>5, <3>1, StutterRefines DEF Mapped, Owed
  <2>7. CASE fsm \notin LandingStates
    <3>1. PhaseOf(fsm) \in {"climb", "air", "return"}
      BY <1>0, <2>2, <2>7, PhaseValues DEF SunrayState
    <3>2. Lifecycle!Descend
      BY <2>1, <2>3, <2>4, <2>5, <3>1 DEF Lifecycle!Descend, Lifecycle!Become
    <3> QED
      BY <3>2 DEF AbstractStep, Lifecycle!Next
  <2> QED
    BY <2>6, <2>7
<1>8. CASE EnterOff
  <2>1. /\ Handles("OFF") /\ ~landAfter' /\ fsm \in LandingStates
        /\ SwitchTo("OFF", "OFF", ctrl # "UNDEFINED")
    BY <1>8, HandlesTransition DEF EnterOff
  <2>2. fsm' = "OFF" /\ ctrl' = "OFF" /\ Advance(TRUE)
    BY <1>0, <2>1 DEF SwitchTo, ControllerFollowsState, ModesOf, LandingStates
  <2>3. sup.pc # "mark" /\ sup'.pc # "mark"
    BY <2>1, <2>2, HandleOwes DEF LandingStates
  <2>4. Lifecycle!TouchDown
    BY <2>1, <2>2, <2>3, PhaseValues, MotionValues
    DEF Lifecycle!TouchDown, Lifecycle!Become
  <2> QED
    BY <2>4 DEF AbstractStep, Lifecycle!Next
<1> QED
  BY <1>1, <1>2, <1>3, <1>4, <1>5, <1>6, <1>7, <1>8 DEF HandleEvent

LEMMA StepRefines == IInv /\ EndInv /\ [Next]_vars => AbstractStep
BY OthersRefine, SectionsRefine, HandleRefines DEF Next, UpdateSlow

\* Whatever threads, commands and losses of odometry interleave, the command
\* path is a flight as FlightLifecycle describes it.
THEOREM Refinement == Spec => ImplementsLifecycle
<1>1. Init => IInv /\ EndInv /\ Lifecycle!Init
  BY InitInv, InitEnd, InitRefines
<1>2. IInv /\ EndInv /\ [Next]_vars
        => IInv' /\ EndInv' /\ [Lifecycle!Next]_(Lifecycle!lvars)
  BY NextInv, NextEnd, StepRefines DEF AbstractStep
<1> QED
  BY <1>1, <1>2, PTL DEF Spec, ImplementsLifecycle, Lifecycle!Spec
=============================================================================
