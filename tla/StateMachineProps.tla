------------------------- MODULE StateMachineProps --------------------------
(***************************************************************************)
(* What the command path of the flight state machine is to guarantee.      *)
(***************************************************************************)
EXTENDS StateMachine

\* The controller is in the mode that belongs to the flight state: nothing a
\* callback, the 100 Hz loop or the supervisor does in between separates the
\* two state machines (take-off alone lets the controller hover first).
ModesOf(s) ==
  CASE s = "OFF" -> {"UNDEFINED", "OFF"}
    [] s = "TAKEOFF" -> {"TAKEOFF", "HOVER"}
    [] s \in {"HOVER", "LAND", "EMERGENCY_LAND"} -> {s}
    [] OTHER -> {"MOVE"}

ControllerFollowsState == ctrl \in ModesOf(fsm)

\* A landing is owed only while the vehicle hovers at the end of a return,
\* with its one-second timer running: any command accepted in between, an
\* emergency or a new flight cancels it.
LandingOwedOnlyInHover ==
  /\ landAfter => fsm = "HOVER" /\ hoverT # "unset"
  /\ sup.pc = "mark" => fsm = "HOVER"

\* A return in progress has a target to be compared with: otherwise it could
\* never be found completed (active_return_target_valid_).
ReturnHasTarget == fsm = "RETURN" => retValid

\* No control state inherits the target of a return: whichever event a callback
\* queued while the return was flown, home is steered to only by the return
\* itself or by the landing that interrupts it.
ReturnTargetNotInherited ==
  ref = "home" => fsm \in LandingStates \cup {"RETURN"}

\* While the vehicle flies, an emergency request the supervisor handles is
\* obeyed at once: the controller never refuses it.
EmergencyIsObeyed ==
  [][/\ sup.batch # << >> /\ Head(sup.batch) = "EMERGENCY_REQUEST"
     /\ Len(sup'.batch) < Len(sup.batch)
     /\ fsm # "OFF"
     => fsm' = "EMERGENCY_LAND"]_vars

\* While the vehicle returns, it is steered to the return target.
ReturnFliesHome == fsm = "RETURN" => ref = "home"

-----------------------------------------------------------------------------
(* The abstract specification the command path implements.                 *)

PhaseOf(s) ==
  CASE s = "OFF" -> "ground"
    [] s = "TAKEOFF" -> "climb"
    [] s = "RETURN" -> "return"
    [] s \in LandingStates -> "descend"
    [] OTHER -> "air"

MotionOf(m) ==
  CASE m \in {"UNDEFINED", "OFF"} -> "idle"
    [] m = "TAKEOFF" -> "climb"
    [] m = "HOVER" -> "hold"
    [] m = "MOVE" -> "move"
    [] OTHER -> "descend"

Lifecycle == INSTANCE FlightLifecycle WITH
  phase  <- PhaseOf(fsm),
  motion <- MotionOf(ctrl),
  owed   <- IF landAfter THEN "owed" ELSE IF sup.pc = "mark" THEN "due" ELSE "no"

\* Queue, threads, timers and refused modes notwithstanding, every behaviour of
\* the command path is a flight as FlightLifecycle describes it.
ImplementsLifecycle == Lifecycle!Spec

-----------------------------------------------------------------------------
(* Liveness, under FairSpec.                                               *)

\* Odometry that stays lost in flight brings the vehicle into a landing state.
OdomLossLands ==
  odom = "stale" /\ fsm # "OFF"
    ~> odom = "fresh" \/ fsm \in {"EMERGENCY_LAND", "OFF"}

\* A take-off ends in hovering or in an emergency landing, if the vehicle
\* stays armed.
TakeoffEnds ==
  fsm = "TAKEOFF" /\ armed
    ~> ~armed \/ fsm \in {"HOVER", "EMERGENCY_LAND"}

\* A landing of either kind ends with the state machine off.
LandingEnds == fsm \in LandingStates ~> fsm = "OFF"

\* A return ends in a landing as long as it steers home and no other return is
\* asked for: a queued one is handled while the vehicle hovers at the end of the
\* first, and cancels the landing even if it is then refused.  The reference of
\* a return is the client's doing, too: a position request that the flight state
\* refuses, or the command of any stream, replaces it, and that return has no end.
ReturnLands ==
  fsm = "RETURN"
    ~> \/ fsm \in LandingStates \cup ControlStates
       \/ fsm = "RETURN" /\ ref # "home"
       \/ \E i \in DOMAIN pending : pending[i] = "RETURN_REQUEST"

=============================================================================
