------------------------------ MODULE FsmTable ------------------------------
(***************************************************************************)
(* The flight state machine's states, events and transition table          *)
(* (Sunray_StateMachine::resolve_next_state_locked), and the modes of the  *)
(* flight controller the state machine drives.                             *)
(***************************************************************************)

\* The five states in which a client's command stream drives the vehicle.
ControlStates == {"POSITION_CONTROL", "VELOCITY_CONTROL", "ATTITUDE_CONTROL",
                  "COMPLEX_CONTROL", "TRAJECTORY_CONTROL"}

LandingStates == {"LAND", "EMERGENCY_LAND"}

SunrayState == {"OFF", "TAKEOFF", "HOVER", "RETURN"}
                 \cup LandingStates \cup ControlStates

\* ENTER_<state> and <state's> COMPLETED event of each control state.
Enter == [POSITION_CONTROL   |-> "ENTER_POSITION_CONTROL",
          VELOCITY_CONTROL   |-> "ENTER_VELOCITY_CONTROL",
          ATTITUDE_CONTROL   |-> "ENTER_ATTITUDE_CONTROL",
          COMPLEX_CONTROL    |-> "ENTER_COMPLEX_CONTROL",
          TRAJECTORY_CONTROL |-> "ENTER_TRAJECTORY_CONTROL"]

Completed == [POSITION_CONTROL   |-> "POSITION_COMPLETED",
              VELOCITY_CONTROL   |-> "VELOCITY_COMPLETED",
              ATTITUDE_CONTROL   |-> "ATTITUDE_COMPLETED",
              COMPLEX_CONTROL    |-> "COMPLEX_COMPLETED",
              TRAJECTORY_CONTROL |-> "TRAJECTORY_COMPLETED"]

SunrayEvent == {"TAKEOFF_REQUEST", "TAKEOFF_COMPLETED", "LAND_REQUEST",
                "LAND_COMPLETED", "EMERGENCY_REQUEST", "EMERGENCY_COMPLETED",
                "RETURN_REQUEST", "RETURN_COMPLETED", "WATCHDOG_ERROR"}
                 \cup {Enter[c] : c \in ControlStates}
                 \cup {Completed[c] : c \in ControlStates}

\* States from which a LAND_REQUEST is honoured.
Interruptible == ControlStates \cup {"HOVER", "RETURN"}

(***************************************************************************)
(* resolve_next_state_locked: the triples <<state, event, next state>>.    *)
(* OFF -> TAKEOFF has the further condition can_takeoff_locked.            *)
(***************************************************************************)
Transitions ==
  {<<"OFF", "TAKEOFF_REQUEST", "TAKEOFF">>,
   <<"TAKEOFF", "TAKEOFF_COMPLETED", "HOVER">>,
   <<"RETURN", "RETURN_COMPLETED", "HOVER">>,
   <<"LAND", "LAND_COMPLETED", "OFF">>,
   <<"EMERGENCY_LAND", "EMERGENCY_COMPLETED", "OFF">>}
    \cup {<<"HOVER", Enter[c], c>> : c \in ControlStates}
    \cup {<<c, Enter[c], c>> : c \in ControlStates}
    \cup {<<c, Completed[c], "HOVER">> : c \in ControlStates}
    \cup {<<s, "LAND_REQUEST", "LAND">> : s \in Interruptible}
    \cup {<<s, "RETURN_REQUEST", "RETURN">> : s \in Interruptible \ {"RETURN"}}
    \cup {<<s, e, "EMERGENCY_LAND">> :
            s \in SunrayState \ {"OFF", "EMERGENCY_LAND"},
            e \in {"EMERGENCY_REQUEST", "WATCHDOG_ERROR"}}

\* Mutants of Resolve: the end of a take-off, or of an emergency landing, has
\* no case.
Resolve_NoTakeoffEnd(s, e, canTakeoff) ==
  {t \in SunrayState : /\ <<s, e, t>> \in Transitions
                       /\ e # "TAKEOFF_COMPLETED"
                       /\ s = "OFF" => canTakeoff}

Resolve_NoEmergencyEnd(s, e, canTakeoff) ==
  {t \in SunrayState : /\ <<s, e, t>> \in Transitions
                       /\ e # "EMERGENCY_COMPLETED"
                       /\ s = "OFF" => canTakeoff}

\* The states event e may lead to from state s: at most one, none if e is
\* refused there.
Resolve(s, e, canTakeoff) ==
  {t \in SunrayState : /\ <<s, e, t>> \in Transitions
                       /\ s = "OFF" => canTakeoff}

\* uav_control::ControllerState.
ControllerState == {"UNDEFINED", "OFF", "TAKEOFF", "HOVER", "MOVE", "LAND",
                    "EMERGENCY_LAND"}

\* Mutant of AirborneModes: the modes are refused while climbing, too.
AirborneModes_NotClimbing == ControllerState \ {"OFF", "UNDEFINED", "TAKEOFF"}

\* The modes in which set_land_mode, set_emergency_mode, set_hover_mode and
\* set_move_mode do not refuse.
AirborneModes == ControllerState \ {"OFF", "UNDEFINED"}
=============================================================================
