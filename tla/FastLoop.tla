-------------------------------- MODULE FastLoop --------------------------------
(***************************************************************************)
(* update_fast and the arbiter it feeds, against a supervisor that changes *)
(* the flight state at any moment.  A round takes its snapshot under       *)
(* fsm_mutex_ (the state and the controller's output for it) and hands the *)
(* output to the arbiter after the lock is released.                       *)
(*                                                                         *)
(* The supervisor is any sequence of transitions of FsmTable; the          *)
(* controller is in the mode of the flight state (ControllerFollowsState   *)
(* of StateMachineProps), so it has no output in OFF and none in a LAND    *)
(* that is left to PX4.  What update_fast does besides (holds, touchdown,  *)
(* report of stale odometry) is in Landing and StateMachine.               *)
(***************************************************************************)
EXTENDS ControlArbiter, FsmTable

VARIABLES
  fsm,        \* fsm_current_state_
  autoLand,   \* the controller's land_type_ = 1
  round,      \* the round in progress: its snapshot, or Idle
  slots,      \* arbiter_.slots_
  arbFsm,     \* arbiter_.fsm_state_
  late,       \* since fsm changed an output has been sent that was made for another
              \* flight state (history)
  calm        \* ticks since the last round of an emergency was published

vars == <<fsm, autoLand, round, slots, arbFsm, late, calm>>

Idle == [pc |-> "idle"]
Snapshot == [pc : {"computed"}, st : SunrayState, auto : BOOLEAN,
             out : {"none", "invalid", "valid"}, confirmed : BOOLEAN]

FastTypeOK ==
  /\ fsm \in SunrayState /\ arbFsm \in SunrayState
  /\ autoLand \in BOOLEAN
  /\ round \in {Idle} \cup Snapshot
  /\ slots \in [ControlSource -> Slot]
  /\ late \in BOOLEAN
  /\ calm \in 0..TooOld

FastInit ==
  /\ fsm = "OFF" /\ arbFsm = "OFF"
  /\ autoLand = FALSE
  /\ round = Idle
  /\ slots = NoSlots
  /\ late = FALSE
  /\ calm = TooOld

\* handle_event of the supervisor; LAND takes the landing type over.
Supervise ==
  /\ \E e \in SunrayEvent : \E t \in Resolve(fsm, e, TRUE) :
       /\ t # fsm
       /\ fsm' = t
       /\ autoLand' \in IF t = "LAND" THEN BOOLEAN ELSE {autoLand}
  /\ late' = FALSE
  /\ UNCHANGED <<round, slots, arbFsm, calm>>

\* What the controller's update may yield in the present state.  Without a valid
\* estimate it yields nothing.
Outputs == IF fsm = "OFF" \/ (fsm = "LAND" /\ autoLand)
             THEN {"none"} ELSE {"none", "invalid", "valid"}

\* Mutant of TakeSnapshot: the state is the one the arbiter was last told.
TakeSnapshot_ArbiterState ==
  /\ round = Idle
  /\ \E out \in Outputs, confirmed \in IF fsm \in LandingStates THEN BOOLEAN ELSE {FALSE} :
       round' = [pc |-> "computed", st |-> arbFsm, auto |-> autoLand,
                 out |-> out, confirmed |-> confirmed]
  /\ UNCHANGED <<fsm, autoLand, slots, arbFsm, late, calm>>

\* The section of update_fast.
TakeSnapshot ==
  /\ round = Idle
  /\ \E out \in Outputs, confirmed \in IF fsm \in LandingStates THEN BOOLEAN ELSE {FALSE} :
       round' = [pc |-> "computed", st |-> fsm, auto |-> autoLand,
                 out |-> out, confirmed |-> confirmed]
  /\ UNCHANGED <<fsm, autoLand, slots, arbFsm, late, calm>>

\* No effective output: a confirmed AUTO.LAND landing withdraws the last one.
\* (The other withdrawal needs a controller that is OFF in a landing state.)
EndWithoutOutput ==
  /\ round # Idle /\ round.out = "none"
  /\ slots' = IF round.st = "LAND" /\ round.auto /\ round.confirmed
                THEN Clear(slots, "EXTERNAL") ELSE slots
  /\ round' = Idle
  /\ UNCHANGED <<fsm, autoLand, arbFsm, late, calm>>

SlotFor(state) == IF state = "EMERGENCY_LAND" THEN "EMERGENCY" ELSE "EXTERNAL"

\* The slots once the round has submitted its output, and what is then sent.
Submitted == Submit(slots, SlotFor(round.st), round.out = "valid")
Sent == Published(Submitted, round.st = "EMERGENCY_LAND")

\* The flight state an output sent from a slot was made for: the emergency's slot
\* holds what its last round left there, the other one what this round submits.
MadeFor(source) == IF source = "EMERGENCY" THEN "EMERGENCY_LAND" ELSE round.st

\* set_fsm_state, submit, arbitrate_and_publish: only this loop uses the
\* arbiter, so the three are one step.
EndWithOutput ==
  /\ round # Idle /\ round.out # "none"
  /\ arbFsm' = round.st
  /\ slots' = Submitted
  /\ late' = (late \/ \E s \in Sent : MadeFor(s) # fsm)
  /\ calm' = IF round.st = "EMERGENCY_LAND" THEN 0 ELSE calm
  /\ round' = Idle
  /\ UNCHANGED <<fsm, autoLand>>

\* Mutant of Older: ages are not capped.
Older_Uncapped(age) == age + 1

Older(age) == IF age = TooOld THEN age ELSE age + 1

\* Time passes between rounds: a round takes far less than a tick.
Tick ==
  /\ round = Idle
  /\ slots' = [s \in ControlSource |-> [slots[s] EXCEPT !.age = Older(@)]]
  /\ calm' = Older(calm)
  /\ UNCHANGED <<fsm, autoLand, round, arbFsm, late>>

Next == Supervise \/ TakeSnapshot \/ EndWithoutOutput \/ EndWithOutput \/ Tick

Spec == FastInit /\ [][Next]_vars

-----------------------------------------------------------------------------
\* Whatever the supervisor does while a round is under way, one output at most
\* that was made for another flight state is sent to PX4 after the state has
\* changed: after an emergency was entered, after the machine went OFF, or after
\* a landing was handed to PX4.  The one kind that may be sent over and over is
\* the emergency's last output, which outranks the rounds of the next flight until
\* it is older than the output timeout.
LateOutputIsOne ==
  [][late /\ round # Idle /\ round.out # "none" /\ round' = Idle
     => \A s \in Sent :
          MadeFor(s) = fsm \/ (s = "EMERGENCY" /\ calm <= OutputTimeout)]_vars

\* A round sends its own output whenever that is valid: no slot left by an
\* earlier round takes its place, except the emergency's within the output
\* timeout after the emergency's last round.
OwnOutputSent ==
  [][round # Idle /\ round.out = "valid" /\ round' = Idle
     => \/ Sent = {SlotFor(round.st)}
        \/ round.st # "EMERGENCY_LAND" /\ calm <= OutputTimeout]_vars
=============================================================================
