------------------------------- MODULE Landing ------------------------------
(***************************************************************************)
(* How a landing is brought to its end between Sunray_StateMachine, its    *)
(* controller and PX4: the two landing holds, the touchdown latch, and the *)
(* requests to disarm, to arm and to change PX4's mode.                    *)
(*                                                                         *)
(* The supervisor (update_slow) and the 100 Hz loop (update_fast) each     *)
(* read the PX4 state from PX4DataReader's cache before they take          *)
(* fsm_mutex_, and the supervisor reads it again before every request;     *)
(* the cache follows PX4 with a delay.  Of the flight states only those    *)
(* the PX4 side tells apart are kept: HOVER stands for every state in the  *)
(* air that needs OFFBOARD.  The controller's mode is the flight state's   *)
(* (ControllerFollowsState of StateMachineProps).                          *)
(*                                                                         *)
(* One tick is the retry interval of a request (1 s); a hold takes         *)
(* HoldTicks of them.                                                      *)
(***************************************************************************)
EXTENDS Integers, FsmTable

CONSTANTS
  HoldTicks,    \* px4_landed_hold_required_s_, in ticks
  LandTypes     \* the landings requested: TRUE for land_type 1 (AUTO.LAND)

ASSUME HoldTicksAssumption == HoldTicks \in Nat \ {0}
ASSUME LandTypesAssumption == LandTypes \subseteq BOOLEAN /\ LandTypes # {}

VARIABLES
  fsm,      \* fsm_current_state_
  autoLand, \* the controller's land_type_ = 1
  landInit, \* the controller's land_initialized_
  latch,    \* its land_touchdown_detected_time_ is set
  pxHold,   \* age of px4_landed_hold_start_time_, or Unset
  ctHold,   \* age of controller_touchdown_hold_start_time_, or Unset
  waits,    \* the requests made less than a retry interval ago
  sup,      \* the supervisor: its place in a round and what it has read
  fast,     \* the 100 Hz loop: its place, and the landed state it has read
  px,       \* PX4: armed, and its flight mode
  alt,      \* the vehicle: "ground" or "air"
  seen,     \* the cache of PX4DataReader
  ran,      \* the loops that have taken a section since the last tick
  race      \* of PX4's own disarming with the supervisor's round (history)

code == <<fsm, autoLand, landInit, latch, pxHold, ctHold, waits, sup, fast>>
system == <<code, px, alt, seen, ran>>
vars == <<system, race>>

Unset == -1
Age == Unset..HoldTicks
Mode == {"OFFBOARD", "AUTO.LAND", "OTHER"}
LandedState == {"ground", "air", "missing"}
FlightState == {"OFF", "TAKEOFF", "HOVER"} \cup LandingStates

Supervisor == [pc : {"events", "sample", "react", "disarm", "mode", "complete"},
               armed : BOOLEAN,         \* px4_state.armed
               landed : LandedState,    \* px4_state.landed_state
               pxOk : BOOLEAN,          \* px4_landed_hold_satisfied
               ctOk : BOOLEAN]          \* controller_touchdown_hold_satisfied

LandingTypeOK ==
  /\ fsm \in FlightState
  /\ autoLand \in BOOLEAN /\ landInit \in BOOLEAN /\ latch \in BOOLEAN
  /\ pxHold \in Age /\ ctHold \in Age
  /\ waits \subseteq {"mode", "arm", "disarm"}
  /\ sup \in Supervisor
  /\ fast \in [pc : {"idle", "section"}, landed : LandedState]
  /\ px \in [armed : BOOLEAN, mode : Mode]
  /\ alt \in {"ground", "air"}
  /\ seen \in [armed : BOOLEAN, mode : Mode, landed : LandedState]
  /\ ran \subseteq {"slow", "fast"}
  /\ race \in {"none", "open", "lost"}

LandingInit ==
  /\ fsm = "OFF"
  /\ autoLand = FALSE /\ landInit = FALSE /\ latch = FALSE
  /\ pxHold = Unset /\ ctHold = Unset
  /\ waits = {}
  /\ sup = [pc |-> "events", armed |-> FALSE, landed |-> "missing",
            pxOk |-> FALSE, ctOk |-> FALSE]
  /\ fast = [pc |-> "idle", landed |-> "missing"]
  /\ px = [armed |-> FALSE, mode |-> "OTHER"]
  /\ alt = "ground"
  /\ seen = [armed |-> FALSE, mode |-> "OTHER", landed |-> "missing"]
  /\ ran = {}
  /\ race = "none"

-----------------------------------------------------------------------------
(* The holds.                                                              *)

InLanding == fsm \in LandingStates

\* Mutants of Held: the hold is counted in rounds; it is kept outside a
\* landing; it restarts every round.
Held_CountsRounds(age, detected) ==
  IF ~(InLanding /\ detected) THEN Unset ELSE age + 1

Held_AnyState(age, detected) ==
  IF ~detected THEN Unset ELSE IF age = Unset THEN 0 ELSE age

Held_Restarts(age, detected) == IF InLanding /\ detected THEN 0 ELSE Unset

\* update_px4_landed_hold_locked, update_controller_touchdown_hold_locked.
Held(age, detected) ==
  IF ~(InLanding /\ detected) THEN Unset
  ELSE IF age = Unset THEN 0 ELSE age

-----------------------------------------------------------------------------
(* update_slow.                                                            *)

\* An entry action: all but HOVER's forget the last disarm request; LAND takes
\* over the landing type and starts with the latch open.
EnterState(state) ==
  /\ fsm' = state
  /\ waits' = IF state = "HOVER" THEN waits ELSE waits \ {"disarm"}
  /\ IF state = "LAND"
       THEN autoLand' \in LandTypes /\ landInit' = FALSE /\ latch' = FALSE
       ELSE UNCHANGED <<autoLand, landInit, latch>>

\* handle_event, for a queued event or one this round's sampling asked for.
HandleRequest ==
  /\ sup.pc \in {"events", "react"}
  /\ \E e \in {"TAKEOFF_REQUEST", "LAND_REQUEST", "EMERGENCY_REQUEST"} :
       /\ e = "TAKEOFF_REQUEST" => sup.pc = "events"
       /\ \E s \in Resolve(fsm, e, TRUE) : EnterState(s)
  /\ UNCHANGED <<pxHold, ctHold, sup, fast, px, alt, seen, ran>>

\* The cache is read before the lock is taken.
ReadPx4 ==
  /\ sup.pc = "events"
  /\ sup' = [sup EXCEPT !.pc = "sample", !.armed = seen.armed,
                        !.landed = seen.landed]
  /\ UNCHANGED <<fsm, autoLand, landInit, latch, pxHold, ctHold, waits, fast,
                 px, alt, seen, ran>>

SampleHolds ==
  /\ sup.pc = "sample"
  /\ pxHold' = Held(pxHold, sup.landed = "ground")
  /\ ctHold' = Held(ctHold, latch)
  /\ sup' = [sup EXCEPT !.pc = "react", !.pxOk = pxHold' = HoldTicks,
                        !.ctOk = ctHold' = HoldTicks]
  /\ ran' = ran \cup {"slow"}
  /\ UNCHANGED <<fsm, autoLand, landInit, latch, waits, fast, px, alt, seen>>

\* request_disarm: as sampled, although an emergency may have been handled
\* since.
Confirmed == sup.pxOk \/ sup.ctOk

EndReact ==
  /\ sup.pc = "react"
  /\ sup' = [sup EXCEPT !.pc = IF Confirmed /\ sup.armed THEN "disarm" ELSE "mode"]
  /\ UNCHANGED <<fsm, autoLand, landInit, latch, pxHold, ctHold, waits, fast,
                 px, alt, seen, ran>>

\* A request that was due is made, and PX4 does as asked or not.
Request(kind, wanted) ==
  /\ kind \notin waits
  /\ waits' = waits \cup {kind}
  /\ px' \in {px, wanted}

\* ensure_disarm.
EnsureDisarm ==
  /\ sup.pc = "disarm"
  /\ IF seen.armed /\ "disarm" \notin waits
       THEN Request("disarm", [px EXCEPT !.armed = FALSE])
       ELSE UNCHANGED <<waits, px>>
  /\ sup' = [sup EXCEPT !.pc = "mode"]
  /\ UNCHANGED <<fsm, autoLand, landInit, latch, pxHold, ctHold, fast, alt,
                 seen, ran>>

\* should_use_px4_auto_land_locked, requires_offboard_locked.
UsesAutoLand == fsm = "LAND" /\ autoLand
RequiresOffboard == fsm # "OFF" /\ ~UsesAutoLand

\* Mutant of Finalizing: a vehicle already disarmed is not told apart.
Finalizing_Confirmed == InLanding /\ Confirmed

\* Nothing is asked of PX4 while a landing is being finished.
Finalizing == InLanding /\ (Confirmed \/ ~sup.armed)

\* ensure_auto_land_mode.
EnsureAutoLand ==
  IF seen.mode # "AUTO.LAND" /\ "mode" \notin waits
    THEN Request("mode", [px EXCEPT !.mode = "AUTO.LAND"])
    ELSE UNCHANGED <<waits, px>>

\* ensure_offboard_and_arm: the mode first, then the motors.
EnsureOffboardAndArm ==
  CASE seen.mode # "OFFBOARD" /\ "mode" \notin waits ->
         Request("mode", [px EXCEPT !.mode = "OFFBOARD"])
    [] seen.mode = "OFFBOARD" /\ ~seen.armed /\ "arm" \notin waits ->
         Request("arm", [px EXCEPT !.armed = TRUE])
    [] OTHER -> UNCHANGED <<waits, px>>

EnsureMode ==
  /\ sup.pc = "mode"
  /\ CASE ~Finalizing /\ UsesAutoLand -> EnsureAutoLand
       [] ~Finalizing /\ RequiresOffboard -> EnsureOffboardAndArm
       [] OTHER -> UNCHANGED <<waits, px>>
  /\ sup' = [sup EXCEPT !.pc = "complete"]
  /\ UNCHANGED <<fsm, autoLand, landInit, latch, pxHold, ctHold, fast, alt,
                 seen, ran>>

\* Mutant of Complete: a landing is completed before PX4 has disarmed.
Complete_StillArmed ==
  /\ sup.pc = "complete"
  /\ \/ InLanding /\ Confirmed /\ EnterState("OFF")
     \/ fsm = "TAKEOFF" /\ alt = "air" /\ EnterState("HOVER")
     \/ ~(InLanding /\ Confirmed)
        /\ UNCHANGED <<fsm, autoLand, landInit, latch, waits>>
  /\ sup' = [sup EXCEPT !.pc = "events", !.pxOk = FALSE, !.ctOk = FALSE]
  /\ UNCHANGED <<pxHold, ctHold, fast, px, alt, seen, ran>>

\* LAND_COMPLETED and EMERGENCY_COMPLETED; TAKEOFF_COMPLETED in the air.
Complete ==
  /\ sup.pc = "complete"
  /\ \/ InLanding /\ Confirmed /\ ~sup.armed /\ EnterState("OFF")
     \/ fsm = "TAKEOFF" /\ alt = "air" /\ EnterState("HOVER")
     \/ ~(InLanding /\ Confirmed /\ ~sup.armed)
        /\ UNCHANGED <<fsm, autoLand, landInit, latch, waits>>
  /\ sup' = [sup EXCEPT !.pc = "events", !.pxOk = FALSE, !.ctOk = FALSE]
  /\ UNCHANGED <<pxHold, ctHold, fast, px, alt, seen, ran>>

\* A round of update_slow, and what it or a client asks for in between.
Round == \/ ReadPx4 \/ SampleHolds \/ EndReact
         \/ EnsureDisarm \/ EnsureMode \/ Complete

UpdateSlow == HandleRequest \/ Round

-----------------------------------------------------------------------------
(* update_fast.                                                            *)

FastReadPx4 ==
  /\ fast.pc = "idle"
  /\ fast' = [pc |-> "section", landed |-> seen.landed]
  /\ UNCHANGED <<fsm, autoLand, landInit, latch, pxHold, ctHold, waits, sup,
                 px, alt, seen, ran>>

\* handle_land_state: does the controller find that it has touched down?  By
\* PX4's report, or by a second of low velocity at ground height, which
\* starts to count after the landing was initialised.
Touches == \/ fast.landed = "ground"
           \/ landInit /\ alt = "ground"

\* reset_land_context_if_needed, out of a landing.
ResetLandContext == landInit' = FALSE /\ latch' = (latch /\ ~landInit)

\* In a landing; with land_type 1 a LAND, not an emergency, is left to PX4.
HandleLandState ==
  IF UsesAutoLand THEN UNCHANGED <<landInit, latch>>
  ELSE /\ landInit' = TRUE
       /\ \/ latch' = ((landInit /\ latch) \/ fast.landed = "ground")
          \/ Touches /\ latch' = TRUE

FastSection ==
  /\ fast.pc = "section"
  /\ pxHold' = Held(pxHold, fast.landed = "ground")
  /\ IF InLanding THEN HandleLandState ELSE ResetLandContext
  /\ ctHold' = Held(ctHold, latch')
  /\ fast' = [fast EXCEPT !.pc = "idle"]
  /\ ran' = ran \cup {"fast"}
  /\ UNCHANGED <<fsm, autoLand, waits, sup, px, alt, seen>>

UpdateFast == FastReadPx4 \/ FastSection

-----------------------------------------------------------------------------
(* PX4, the vehicle and time.                                              *)

\* state_callback, extended_state_callback: PX4's landed state is right, the
\* cache's is late.
StateArrives ==
  /\ seen' = [seen EXCEPT !.armed = px.armed, !.mode = px.mode]
  /\ seen' # seen
  /\ UNCHANGED <<code, px, alt, ran>>

ExtStateArrives ==
  /\ seen' = [seen EXCEPT !.landed = alt]
  /\ seen' # seen
  /\ UNCHANGED <<code, px, alt, ran>>

LiftOff ==
  /\ alt = "ground" /\ fsm = "TAKEOFF"
  /\ px.armed /\ px.mode = "OFFBOARD"
  /\ alt' = "air"
  /\ UNCHANGED <<code, px, seen, ran>>

\* PX4 flies the landing in AUTO.LAND, the controller in OFFBOARD.
TouchDown ==
  /\ alt = "air"
  /\ \/ ~px.armed
     \/ InLanding /\ px.mode = IF UsesAutoLand THEN "AUTO.LAND" ELSE "OFFBOARD"
  /\ alt' = "ground"
  /\ UNCHANGED <<code, px, seen, ran>>

\* As PX4 does some seconds after it has found itself landed.
Px4Disarms ==
  /\ alt = "ground" /\ px.armed
  /\ px' = [px EXCEPT !.armed = FALSE]
  /\ UNCHANGED <<code, alt, seen, ran>>

Older(age) == IF age \in 0..HoldTicks - 1 THEN age + 1 ELSE age

\* Neither loop holds a reading it has yet to act on.
BetweenRounds == sup.pc # "sample" /\ fast.pc # "section"

\* A retry interval passes.  It is long enough for both loops to run and for the
\* cache to catch up with PX4, and neither loop keeps a reading over it.
Tick ==
  /\ BetweenRounds
  /\ ran = {"slow", "fast"} /\ ran' = {}
  /\ seen = [armed |-> px.armed, mode |-> px.mode, landed |-> alt]
  /\ pxHold' = Older(pxHold) /\ ctHold' = Older(ctHold)
  /\ waits' = {}
  /\ UNCHANGED <<fsm, autoLand, landInit, latch, sup, fast, px, alt, seen>>

-----------------------------------------------------------------------------
Step == \/ UpdateSlow \/ UpdateFast
        \/ StateArrives \/ ExtStateArrives \/ LiftOff \/ TouchDown
        \/ Px4Disarms \/ Tick

\* The race is open from PX4's own disarming until a round begins that reads of
\* it.  It is lost when a landing arms the vehicle, until the motors are armed
\* for a flight.
Arming == ~px.armed /\ px'.armed
DisarmedByItself == px.armed /\ ~px'.armed /\ sup' = sup
RoundKnows == sup.pc = "events" /\ sup'.pc = "sample" /\ ~sup'.armed

Race == CASE Arming -> IF InLanding THEN "lost" ELSE "none"
          [] race = "none" /\ DisarmedByItself -> "open"
          [] race = "open" /\ RoundKnows -> "none"
          [] OTHER -> race

Next == Step /\ race' = Race

Spec == LandingInit /\ [][Next]_vars

\* Both loops run and rest in between, messages arrive, time passes and a landing vehicle comes
\* down; PX4 obeys a request that is repeated for ever.
Fairness ==
  /\ WF_system(Round) /\ WF_system(UpdateFast)
  /\ WF_system(StateArrives) /\ WF_system(ExtStateArrives)
  /\ []<>BetweenRounds /\ SF_system(Tick) /\ WF_system(TouchDown)
  /\ SF_system(EnsureDisarm /\ ~px'.armed)
  /\ SF_system(EnsureMode /\ px' # px)

FairSpec == Spec /\ Fairness

-----------------------------------------------------------------------------
(* What a landing is to guarantee.                                         *)

\* A landing arms nobody, neither after an emergency before the take-off nor at
\* its own end, except in the race ensure_offboard_and_arm can lose: PX4 has
\* disarmed by itself after the reading the supervisor's round rests on, and the
\* round's second reading finds the motors off.  A vehicle armed so is no longer
\* spoken of until its next flight.
NeverArmedToLand == [][InLanding /\ Arming => race # "none"]_vars

\* The machine is OFF only with the motors disarmed: a landing is not completed
\* on an arming state that the round's own requests, or the flight before, have
\* made obsolete.  The one exception is a vehicle armed in that race.
OffIsDisarmed == fsm = "OFF" => ~px.armed \/ race = "lost"

\* A disarm request that rests on PX4's landed hold is made on the ground,
\* whatever flight the hold and the cached landed state were left from, unless
\* the flight began with motors armed in that race.
DisarmByPx4Grounded ==
  [][sup.pc = "disarm" /\ px' # px /\ sup.pxOk
     => alt = "ground" \/ race = "lost"]_vars

\* A landing of either kind comes to its end: the hold runs out, PX4 disarms and
\* one round finds both.
LandingIsFinished == InLanding ~> fsm = "OFF"

=============================================================================
