-------------------------------- MODULE RcGuard --------------------------------
(***************************************************************************)
(* RcOffboardExitGuard against the supervisor: the guard asks PX4 to leave *)
(* OFFBOARD when the pilot's switch says so, the supervisor asks for the   *)
(* mode its flight state needs, and each knows PX4's mode only from        *)
(* messages.  The guard is single-threaded: while it is in a callback,     *)
(* state messages queue up, and an old one may be read after its request.  *)
(*                                                                         *)
(* Time is counted in the guard's cooldown (0.2 s).                        *)
(***************************************************************************)
EXTENDS Integers, Sequences

CONSTANTS
  RequireOffboard, \* require_offboard
  Cooldown,        \* request_cooldown_s, in ticks
  Retry,           \* set_mode_retry_interval_s, in ticks
  QueueSize,       \* the guard's queue of state messages
  Choices          \* bound: how often the pilot chooses a mode himself

ASSUME RequireOffboardAssumption == RequireOffboard \in BOOLEAN
ASSUME IntervalAssumption == Cooldown \in Nat /\ Retry \in Nat
ASSUME RcQueueAssumption == QueueSize \in Nat \ {0}
ASSUME ChoicesAssumption == Choices \in Nat

VARIABLES
  mode,     \* PX4's flight mode
  wants,    \* the mode the flight state needs
  seen,     \* flight_mode in the supervisor's PX4DataReader
  retry,    \* ticks since its last mode request, up to Retry
  position, \* the pilot's switch, as decoded; "UNKNOWN" without a signal
  last,     \* last_switch_state_
  topic,    \* state messages the guard has not handled, oldest first
  known,    \* current_mode_, or "unknown" before state_received_
  cool,     \* ticks since last_mode_request_time_, up to Cooldown
  choices   \* the pilot's choices still to come, at most

supervisor == <<wants, seen, retry>>
guard == <<last, topic, known, cool>>
pilot == <<position, choices>>
vars == <<mode, supervisor, guard, pilot>>

\* STABILIZED is target_mode.
Mode == {"OFFBOARD", "AUTO.LAND", "STABILIZED"}
SwitchState == {"UNKNOWN", "LOW", "MID", "HIGH"}

RcTypeOK ==
  /\ mode \in Mode /\ seen \in Mode
  /\ wants \in {"nothing", "OFFBOARD", "AUTO.LAND"}
  /\ retry \in 0..Retry /\ cool \in 0..Cooldown
  /\ position \in SwitchState /\ last \in SwitchState
  /\ topic \in Seq(Mode) /\ Len(topic) <= QueueSize
  /\ known \in Mode \cup {"unknown"}
  /\ choices \in 0..Choices

RcInit ==
  /\ mode = "STABILIZED" /\ seen = "STABILIZED"
  /\ wants = "nothing" /\ retry = Retry /\ cool = Cooldown
  /\ position = "UNKNOWN" /\ last = "UNKNOWN"
  /\ topic = << >> /\ known = "unknown"
  /\ choices = Choices

-----------------------------------------------------------------------------
(* The guard.                                                              *)

\* state_cb.
StateCb ==
  /\ topic # << >>
  /\ known' = Head(topic) /\ topic' = Tail(topic)
  /\ UNCHANGED <<mode, supervisor, last, cool, pilot>>

\* Mutant of Triggers: only the edge counts.
Triggers_EdgeOnly == last = "LOW" /\ position = "HIGH"

\* rising_edge_to_high, hold_high_override.
Triggers == \/ last = "LOW" /\ position = "HIGH"
            \/ position = "HIGH" /\ known = "OFFBOARD"

\* Mutant of MayRequest: the mode is not asked for.
MayRequest_AnyMode == cool = Cooldown

\* The early returns of request_target_mode.
MayRequest ==
  /\ cool = Cooldown
  /\ RequireOffboard => known \in {"OFFBOARD", "unknown"}

\* rc_cb: PX4 does as asked or not; or there is nothing to ask for, or no
\* service to ask.
RcCb ==
  /\ \/ /\ Triggers /\ MayRequest
        /\ mode' \in {mode, "STABILIZED"} /\ cool' = 0
     \/ UNCHANGED <<mode, cool>>
  /\ last' = position
  /\ UNCHANGED <<supervisor, topic, known, pilot>>

-----------------------------------------------------------------------------
(* The supervisor.                                                         *)

\* Its flight state changes: requires_offboard_locked,
\* should_use_px4_auto_land_locked.
Fly ==
  /\ wants' \in {"nothing", "OFFBOARD", "AUTO.LAND"} \ {wants}
  /\ UNCHANGED <<mode, seen, retry, guard, pilot>>

\* state_callback of PX4DataReader.
Sees ==
  /\ seen # mode /\ seen' = mode
  /\ UNCHANGED <<mode, wants, retry, guard, pilot>>

\* The mode requests of ensure_offboard_and_arm and ensure_auto_land_mode.
EnsureMode ==
  /\ wants # "nothing" /\ seen # wants /\ retry = Retry
  /\ mode' \in {mode, wants} /\ retry' = 0
  /\ UNCHANGED <<wants, seen, guard, pilot>>

-----------------------------------------------------------------------------
(* The pilot, MAVROS and time.                                             *)

MoveSwitch ==
  /\ position' \in SwitchState \ {position}
  /\ UNCHANGED <<mode, supervisor, guard, choices>>

ChooseMode ==
  /\ choices > 0 /\ choices' = choices - 1
  /\ mode' \in Mode \ {mode}
  /\ UNCHANGED <<supervisor, guard, position>>

\* Mutant of PublishState: the queue is not bounded.
PublishState_Unbounded ==
  /\ topic' = Append(topic, mode)
  /\ UNCHANGED <<mode, supervisor, last, known, cool, pilot>>

\* MAVROS publishes PX4's mode with every heartbeat; a full queue loses its
\* oldest message.
PublishState ==
  /\ topic' = Append(IF Len(topic) = QueueSize THEN Tail(topic) ELSE topic, mode)
  /\ UNCHANGED <<mode, supervisor, last, known, cool, pilot>>

Tick ==
  /\ cool' = IF cool < Cooldown THEN cool + 1 ELSE cool
  /\ retry' = IF retry < Retry THEN retry + 1 ELSE retry
  /\ UNCHANGED <<mode, wants, seen, last, topic, known, pilot>>

Next == \/ StateCb \/ RcCb \/ Fly \/ Sees \/ EnsureMode
        \/ MoveSwitch \/ ChooseMode \/ PublishState \/ Tick

Spec == RcInit /\ [][Next]_vars

(* The remote control and MAVROS keep sending, the guard and the supervisor*)
(* keep running, and PX4 does what it is asked again and again.            *)
FairSpec ==
  /\ Spec
  /\ WF_vars(StateCb) /\ WF_vars(RcCb) /\ WF_vars(Sees) /\ WF_vars(EnsureMode)
  /\ WF_vars(PublishState) /\ WF_vars(Tick)
  /\ SF_vars(RcCb /\ mode' # mode) /\ SF_vars(EnsureMode /\ mode' # mode)

-----------------------------------------------------------------------------
\* A pilot who keeps the switch high gets the vehicle out of OFFBOARD, even if
\* the guard missed the edge or its request was refused, skipped or came before
\* PX4 entered the mode; and however often the supervisor asks for it again.
SwitchGetsThrough ==
  position = "HIGH" /\ mode = "OFFBOARD" ~> position # "HIGH" \/ mode # "OFFBOARD"

\* A landing left to PX4 is not kept from it by the guard: whatever the switch
\* does and however old the guard's messages are, PX4 ends up in AUTO.LAND.
AutoLandSettles == <>[](wants = "AUTO.LAND") => <>[](mode = "AUTO.LAND")
=============================================================================
