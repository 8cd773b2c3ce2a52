-------------------------- MODULE Landing_proofs ----------------------------
(***************************************************************************)
(* Landing, for every hold and every set of landing types, with a PX4 that *)
(* may disarm by itself at any moment on the ground.                       *)
(***************************************************************************)
EXTENDS Landing, TLAPS

\* The requests a landing knows lead from a flight state to a flight state
\* (resolve_next_state_locked).
LEMMA RequestsStay ==
  ASSUME NEW s \in FlightState,
         NEW e \in {"TAKEOFF_REQUEST", "LAND_REQUEST", "EMERGENCY_REQUEST"},
         NEW t \in Resolve(s, e, TRUE)
  PROVE  t \in {"TAKEOFF", "LAND", "EMERGENCY_LAND"}
<1>1. <<s, e, t>> \in Transitions
  BY DEF Resolve
<1> QED
  BY <1>1 DEF Transitions, Enter, Completed, ControlStates, FlightState

\* A hold stays within its bounds when it is sampled and when it ages.
LEMMA HoldsStay ==
  ASSUME NEW age \in Age, NEW detected \in BOOLEAN
  PROVE  Held(age, detected) \in Age /\ Older(age) \in Age
BY HoldTicksAssumption DEF Age, Unset, Held, Older

\* An entry action keeps the types of what it writes.
LEMMA EntryTyped ==
  ASSUME LandingTypeOK, NEW s \in FlightState, EnterState(s)
  PROVE  /\ fsm' \in FlightState /\ waits' \subseteq {"mode", "arm", "disarm"}
         /\ autoLand' \in BOOLEAN /\ landInit' \in BOOLEAN /\ latch' \in BOOLEAN
BY LandTypesAssumption DEF LandingTypeOK, EnterState

\* A request to PX4 keeps the types, whether or not PX4 follows it.
LEMMA RequestTyped ==
  ASSUME LandingTypeOK, NEW k \in {"mode", "arm", "disarm"},
         NEW w \in [armed : BOOLEAN, mode : Mode], Request(k, w)
  PROVE  /\ waits' \subseteq {"mode", "arm", "disarm"}
         /\ px' \in [armed : BOOLEAN, mode : Mode]
BY DEF LandingTypeOK, Request

-----------------------------------------------------------------------------
LEMMA InitTyped == LandingInit => LandingTypeOK
<1> SUFFICES ASSUME LandingInit PROVE LandingTypeOK
  OBVIOUS
<1>1. pxHold \in Age /\ ctHold \in Age
  BY HoldTicksAssumption DEF LandingInit, Age, Unset
<1>2. sup \in Supervisor
  BY DEF LandingInit, Supervisor, LandedState
<1>3. /\ fast \in [pc : {"idle", "section"}, landed : LandedState]
      /\ px \in [armed : BOOLEAN, mode : Mode]
      /\ seen \in [armed : BOOLEAN, mode : Mode, landed : LandedState]
  BY DEF LandingInit, LandedState, Mode
<1> QED
  BY <1>1, <1>2, <1>3 DEF LandingInit, LandingTypeOK, FlightState

LEMMA SlowTyped ==
  ASSUME LandingTypeOK, UpdateSlow, race' \in {"none", "open", "lost"}
  PROVE  LandingTypeOK'
<1>1. CASE HandleRequest
  <2>1. PICK e \in {"TAKEOFF_REQUEST", "LAND_REQUEST", "EMERGENCY_REQUEST"} :
          \E s \in Resolve(fsm, e, TRUE) : EnterState(s)
    BY <1>1 DEF HandleRequest
  <2>2. PICK s \in Resolve(fsm, e, TRUE) : EnterState(s)
    BY <2>1
  <2>3. s \in FlightState
    BY <2>2, RequestsStay DEF LandingTypeOK, FlightState, LandingStates
  <2> QED
    BY <1>1, <2>2, <2>3, EntryTyped DEF HandleRequest, LandingTypeOK
<1>2. CASE ReadPx4
  BY <1>2 DEF ReadPx4, LandingTypeOK, Supervisor
<1>3. CASE SampleHolds
  <2>1. pxHold' \in Age /\ ctHold' \in Age
    BY <1>3, HoldsStay DEF SampleHolds, LandingTypeOK
  <2> QED
    BY <1>3, <2>1 DEF SampleHolds, LandingTypeOK, Supervisor
<1>4. CASE EndReact
  BY <1>4 DEF EndReact, LandingTypeOK, Supervisor
<1>5. CASE EnsureDisarm
  <2>1. [px EXCEPT !.armed = FALSE] \in [armed : BOOLEAN, mode : Mode]
    BY DEF LandingTypeOK
  <2>2. /\ waits' \subseteq {"mode", "arm", "disarm"}
        /\ px' \in [armed : BOOLEAN, mode : Mode]
    BY <1>5, <2>1, RequestTyped DEF EnsureDisarm, LandingTypeOK
  <2> QED
    BY <1>5, <2>2 DEF EnsureDisarm, LandingTypeOK, Supervisor
<1>6. CASE EnsureMode
  <2>1. /\ [px EXCEPT !.mode = "AUTO.LAND"] \in [armed : BOOLEAN, mode : Mode]
        /\ [px EXCEPT !.mode = "OFFBOARD"] \in [armed : BOOLEAN, mode : Mode]
        /\ [px EXCEPT !.armed = TRUE] \in [armed : BOOLEAN, mode : Mode]
    BY DEF LandingTypeOK, Mode
  <2>2. ASSUME EnsureAutoLand
        PROVE  /\ waits' \subseteq {"mode", "arm", "disarm"}
               /\ px' \in [armed : BOOLEAN, mode : Mode]
    BY <2>1, <2>2, RequestTyped DEF EnsureAutoLand, LandingTypeOK
  <2>3. ASSUME EnsureOffboardAndArm
        PROVE  /\ waits' \subseteq {"mode", "arm", "disarm"}
               /\ px' \in [armed : BOOLEAN, mode : Mode]
    BY <2>1, <2>3, RequestTyped DEF EnsureOffboardAndArm, LandingTypeOK
  <2>4. /\ waits' \subseteq {"mode", "arm", "disarm"}
        /\ px' \in [armed : BOOLEAN, mode : Mode]
    BY <1>6, <2>2, <2>3 DEF EnsureMode, LandingTypeOK
  <2> QED
    BY <1>6, <2>4 DEF EnsureMode, LandingTypeOK, Supervisor
<1>7. CASE Complete
  <2>1. /\ fsm' \in FlightState /\ waits' \subseteq {"mode", "arm", "disarm"}
        /\ autoLand' \in BOOLEAN /\ landInit' \in BOOLEAN /\ latch' \in BOOLEAN
    BY <1>7, EntryTyped DEF Complete, LandingTypeOK, FlightState
  <2> QED
    BY <1>7, <2>1 DEF Complete, LandingTypeOK, Supervisor
<1> QED
  BY <1>1, <1>2, <1>3, <1>4, <1>5, <1>6, <1>7 DEF UpdateSlow, Round

LEMMA FastTyped ==
  ASSUME LandingTypeOK, UpdateFast, race' \in {"none", "open", "lost"}
  PROVE  LandingTypeOK'
<1>1. CASE FastReadPx4
  BY <1>1 DEF FastReadPx4, LandingTypeOK
<1>2. CASE FastSection
  <2>1. landInit' \in BOOLEAN /\ latch' \in BOOLEAN
    BY <1>2 DEF FastSection, HandleLandState, ResetLandContext, LandingTypeOK
  <2>2. pxHold' \in Age /\ ctHold' \in Age
    BY <1>2, <2>1, HoldsStay DEF FastSection, LandingTypeOK
  <2> QED
    BY <1>2, <2>1, <2>2 DEF FastSection, LandingTypeOK
<1> QED
  BY <1>1, <1>2 DEF UpdateFast

LEMMA WorldTyped ==
  ASSUME LandingTypeOK,
         \/ StateArrives \/ ExtStateArrives \/ LiftOff \/ TouchDown
         \/ Px4Disarms \/ Tick,
         race' \in {"none", "open", "lost"}
  PROVE  LandingTypeOK'
<1>1. CASE StateArrives
  BY <1>1 DEF StateArrives, LandingTypeOK, code
<1>2. CASE ExtStateArrives
  BY <1>2 DEF ExtStateArrives, LandingTypeOK, LandedState, code
<1>3. CASE LiftOff
  BY <1>3 DEF LiftOff, LandingTypeOK, code
<1>4. CASE TouchDown
  BY <1>4 DEF TouchDown, LandingTypeOK, code
<1>5. CASE Px4Disarms
  BY <1>5 DEF Px4Disarms, LandingTypeOK, code
<1>6. CASE Tick
  BY <1>6, HoldsStay DEF Tick, LandingTypeOK
<1> QED
  BY <1>1, <1>2, <1>3, <1>4, <1>5, <1>6

\* Every variable keeps its type: in particular neither loop nor the passing of
\* time takes a hold beyond what it is compared with.
THEOREM LandingTypeCorrect == Spec => []LandingTypeOK
<1>1. LandingTypeOK /\ [Next]_vars => LandingTypeOK'
  <2> SUFFICES ASSUME LandingTypeOK, [Next]_vars PROVE LandingTypeOK'
    OBVIOUS
  <2>1. CASE UNCHANGED vars
    BY <2>1 DEF vars, system, code, LandingTypeOK
  <2>2. CASE Next
    <3>1. race' \in {"none", "open", "lost"}
      BY <2>2 DEF Next, Race, LandingTypeOK
    <3> QED
      BY <2>2, <3>1, SlowTyped, FastTyped, WorldTyped DEF Next, Step
  <2> QED
    BY <2>1, <2>2
<1> QED
  BY <1>1, InitTyped, PTL DEF Spec

-----------------------------------------------------------------------------
(* What holds whatever PX4 does by itself.                                 *)

Late == {"react", "disarm", "mode", "complete"}

\* A latch belongs to the landing context it was set in.
LatchHasContext == latch => landInit

\* A hold left from the last landing is gone before a round asks for anything.
OldHoldIsDropped ==
  ~InLanding /\ (pxHold # Unset \/ ctHold # Unset)
    => fsm \in {"OFF", "TAKEOFF"} /\ sup.pc \in {"events", "sample"}

\* What the supervisor takes for confirmed belongs to a landing of this round.
ConfirmedInLanding ==
  /\ Confirmed => sup.pc \in Late /\ InLanding
  /\ sup.pc = "disarm" => Confirmed

Always == LatchHasContext /\ OldHoldIsDropped /\ ConfirmedInLanding

LEMMA InitAlways == LandingInit => Always
BY DEF LandingInit, Always, LatchHasContext, OldHoldIsDropped, ConfirmedInLanding,
       Confirmed, Unset, Late

\* What the supervisor and the holds say, in numbers.
LEMMA HoldFacts ==
  ASSUME LandingTypeOK
  PROVE  /\ HoldTicks \in Nat \ {0}
         /\ pxHold \in Int /\ ctHold \in Int
         /\ pxHold >= -1 /\ ctHold >= -1
         /\ pxHold <= HoldTicks /\ ctHold <= HoldTicks
BY HoldTicksAssumption DEF LandingTypeOK, Age, Unset

\* The requests a client makes.
LEMMA RequestFacts ==
  ASSUME LandingTypeOK,
         NEW e \in {"TAKEOFF_REQUEST", "LAND_REQUEST", "EMERGENCY_REQUEST"},
         NEW s \in Resolve(fsm, e, TRUE)
  PROVE  \/ e = "TAKEOFF_REQUEST" /\ s = "TAKEOFF" /\ fsm = "OFF"
         \/ s = "LAND" /\ fsm = "HOVER"
         \/ s = "EMERGENCY_LAND" /\ fsm \in {"TAKEOFF", "HOVER", "LAND"}
<1>1. <<fsm, e, s>> \in Transitions
  BY DEF Resolve
<1>2. fsm \in {"OFF", "TAKEOFF", "HOVER", "LAND", "EMERGENCY_LAND"}
  BY DEF LandingTypeOK, FlightState, LandingStates
<1> QED
  BY <1>1, <1>2 DEF Transitions, Enter, Completed, ControlStates, Interruptible,
                    SunrayState, LandingStates

LEMMA HandleRequestAlways ==
  ASSUME LandingTypeOK, Always, HandleRequest
  PROVE  Always' /\ (InLanding => InLanding' /\ latch' = latch)
<1>1. PICK e \in {"TAKEOFF_REQUEST", "LAND_REQUEST", "EMERGENCY_REQUEST"} :
        /\ e = "TAKEOFF_REQUEST" => sup.pc = "events"
        /\ \E s \in Resolve(fsm, e, TRUE) : EnterState(s)
  BY DEF HandleRequest
<1>2. PICK s \in Resolve(fsm, e, TRUE) : EnterState(s)
  BY <1>1
<1>3. UNCHANGED <<pxHold, ctHold, sup>>
  BY DEF HandleRequest
<1>4. /\ \/ sup.pc = "events" /\ s = "TAKEOFF" /\ fsm = "OFF"
         \/ s = "LAND" /\ fsm = "HOVER"
         \/ s = "EMERGENCY_LAND" /\ fsm \in {"TAKEOFF", "HOVER", "LAND"}
      /\ fsm' = s
      /\ s = "LAND" => latch' = FALSE
      /\ s # "LAND" => latch' = latch /\ landInit' = landInit
  BY <1>1, <1>2, RequestFacts DEF EnterState
<1>5. LatchHasContext'
  <2>1. CASE s = "LAND"
    BY <1>4, <2>1 DEF LatchHasContext
  <2>2. CASE s # "LAND"
    <3>1. latch' = latch /\ landInit' = landInit
      BY <1>4, <2>2
    <3> QED
      BY <3>1, Zenon DEF Always, LatchHasContext
  <2> QED
    BY <2>1, <2>2
<1>6. OldHoldIsDropped'
  BY <1>3, <1>4 DEF Always, OldHoldIsDropped, InLanding, LandingStates
<1>7. InLanding => InLanding' /\ latch' = latch
  BY <1>4 DEF InLanding, LandingStates
<1>8. ConfirmedInLanding'
  BY <1>3, <1>7 DEF Always, ConfirmedInLanding, Confirmed
<1> QED
  BY <1>5, <1>6, <1>7, <1>8 DEF Always

LEMMA RoundAlways ==
  ASSUME LandingTypeOK, Always, Round
  PROVE  Always'
<1>1. CASE ReadPx4
  <2>1. /\ UNCHANGED <<fsm, landInit, latch, pxHold, ctHold>>
        /\ sup.pc = "events" /\ sup'.pc = "sample"
        /\ sup'.pxOk = sup.pxOk /\ sup'.ctOk = sup.ctOk
    BY <1>1 DEF ReadPx4, LandingTypeOK, Supervisor
  <2> QED
    BY <2>1 DEF Always, LatchHasContext, OldHoldIsDropped, ConfirmedInLanding,
                InLanding, Confirmed, Late
<1>2. CASE SampleHolds
  <2>1. /\ UNCHANGED <<fsm, landInit, latch>>
        /\ sup'.pc = "react"
        /\ sup'.pxOk <=> pxHold' = HoldTicks
        /\ sup'.ctOk <=> ctHold' = HoldTicks
        /\ pxHold' = Held(pxHold, sup.landed = "ground")
        /\ ctHold' = Held(ctHold, latch)
    BY <1>2 DEF SampleHolds, LandingTypeOK, Supervisor
  <2>2. ~InLanding => pxHold' = Unset /\ ctHold' = Unset
    BY <2>1 DEF Held
  <2>3. Unset # HoldTicks
    BY HoldFacts DEF Unset
  <2> QED
    BY <2>1, <2>2, <2>3
       DEF Always, LatchHasContext, OldHoldIsDropped, ConfirmedInLanding,
           InLanding, Confirmed, Late
<1>3. CASE EndReact
  <2>1. /\ UNCHANGED <<fsm, landInit, latch, pxHold, ctHold>>
        /\ sup.pc = "react" /\ sup'.pc \in {"disarm", "mode"}
        /\ sup'.pxOk = sup.pxOk /\ sup'.ctOk = sup.ctOk
        /\ sup'.pc = "disarm" => Confirmed
    BY <1>3 DEF EndReact, LandingTypeOK, Supervisor
  <2> QED
    BY <2>1 DEF Always, LatchHasContext, OldHoldIsDropped, ConfirmedInLanding,
                InLanding, Confirmed, Late
<1>4. CASE EnsureDisarm \/ EnsureMode
  <2>1. /\ UNCHANGED <<fsm, landInit, latch, pxHold, ctHold>>
        /\ sup.pc \in {"disarm", "mode"} /\ sup'.pc \in {"mode", "complete"}
        /\ sup'.pxOk = sup.pxOk /\ sup'.ctOk = sup.ctOk
    BY <1>4 DEF EnsureDisarm, EnsureMode, LandingTypeOK, Supervisor
  <2> QED
    BY <2>1 DEF Always, LatchHasContext, OldHoldIsDropped, ConfirmedInLanding,
                InLanding, Confirmed, Late
<1>5. CASE Complete
  <2>1. /\ UNCHANGED <<pxHold, ctHold, landInit, latch>>
        /\ sup.pc = "complete" /\ sup'.pc = "events"
        /\ ~sup'.pxOk /\ ~sup'.ctOk
        /\ \/ InLanding /\ fsm' = "OFF"
           \/ fsm = "TAKEOFF" /\ fsm' = "HOVER"
           \/ fsm' = fsm
    BY <1>5 DEF Complete, EnterState, LandingTypeOK, Supervisor
  <2>2. LatchHasContext'
    BY <2>1, Zenon DEF Always, LatchHasContext
  <2>3. OldHoldIsDropped' /\ ConfirmedInLanding'
    BY <2>1 DEF Always, OldHoldIsDropped, ConfirmedInLanding, InLanding,
                LandingStates, Confirmed
  <2> QED
    BY <2>2, <2>3 DEF Always
<1> QED
  BY <1>1, <1>2, <1>3, <1>4, <1>5 DEF Round

\* What a section of the 100 Hz loop does to the latch and to old holds.
LEMMA FastSectionAlways ==
  ASSUME LandingTypeOK, Always, FastSection
  PROVE  Always' /\ (InLanding /\ latch => latch')
<1>1. /\ UNCHANGED <<fsm, autoLand, sup>>
      /\ pxHold' = Held(pxHold, fast.landed = "ground")
      /\ ctHold' = Held(ctHold, latch')
  BY DEF FastSection
<1>2. /\ latch' => landInit'
      /\ InLanding /\ latch => latch'
  <2>1. CASE InLanding /\ UsesAutoLand
    BY <2>1, Zenon DEF Always, LatchHasContext, FastSection, HandleLandState
  <2>2. CASE InLanding /\ ~UsesAutoLand
    BY <2>2 DEF Always, LatchHasContext, FastSection, HandleLandState
  <2>3. CASE ~InLanding
    BY <2>3 DEF Always, LatchHasContext, FastSection, ResetLandContext
  <2> QED
    BY <2>1, <2>2, <2>3
<1>3. OldHoldIsDropped'
  BY <1>1 DEF OldHoldIsDropped, Held, InLanding
<1>4. ConfirmedInLanding'
  BY <1>1 DEF Always, ConfirmedInLanding, Confirmed, InLanding
<1> QED
  BY <1>2, <1>3, <1>4 DEF Always, LatchHasContext

LEMMA WorldAlways ==
  ASSUME LandingTypeOK, Always,
         \/ FastReadPx4 \/ StateArrives \/ ExtStateArrives \/ LiftOff \/ TouchDown
         \/ Px4Disarms \/ Tick \/ UNCHANGED vars
  PROVE  Always'
<1>1. UNCHANGED <<fsm, latch, landInit, sup>>
  BY DEF FastReadPx4, StateArrives, ExtStateArrives, LiftOff, TouchDown, Px4Disarms,
         Tick, vars, system, code
<1>2. (pxHold' = Unset <=> pxHold = Unset) /\ (ctHold' = Unset <=> ctHold = Unset)
  BY HoldFacts
     DEF FastReadPx4, StateArrives, ExtStateArrives, LiftOff, TouchDown, Px4Disarms,
         Tick, vars, system, code, Older, Unset
<1>3. LatchHasContext'
  BY <1>1, Zenon DEF Always, LatchHasContext
<1> QED
  BY <1>1, <1>2, <1>3
     DEF Always, OldHoldIsDropped, ConfirmedInLanding, InLanding, Confirmed

LEMMA NextAlways ==
  ASSUME LandingTypeOK, Always, [Next]_vars
  PROVE  Always'
BY HandleRequestAlways, RoundAlways, FastSectionAlways, WorldAlways
   DEF Next, Step, UpdateSlow, UpdateFast

-----------------------------------------------------------------------------
(* Safety, as long as the race is not lost.  The hold is longer than the   *)
(* retry interval: a hold of a single tick may rest on one old reading.    *)

\* The landed states somebody may still act on.
Reported == {seen.landed}
              \cup (IF sup.pc = "sample" THEN {sup.landed} ELSE {})
              \cup (IF fast.pc = "section" THEN {fast.landed} ELSE {})

\* A hold that has lasted over a tick, and one that confirms the landing.
Lasting == pxHold > 0 \/ ctHold > 0
FullHold == InLanding /\ (pxHold = HoldTicks \/ (ctHold = HoldTicks /\ latch))

\* The motors are armed after a hold left from the last landing is gone.
OldHoldIsDisarmed ==
  ~InLanding /\ (pxHold # Unset \/ ctHold # Unset) => ~px.armed

\* In the air a lasting hold of PX4's landed state is about to be dropped.
HoldInAirIsDropped == pxHold > 0 /\ alt = "air" => "ground" \notin Reported

\* It has survived a look at PX4's landed state only on the ground.
HoldSurvivesOnGround == pxHold > 0 /\ ran # {} => alt = "ground"

\* After a second tick everybody knows of the ground.
GroundIsKnown == pxHold > 1 => alt = "ground" /\ Reported \subseteq {"ground"}

\* What the supervisor takes for confirmed is held, as long as it does.
ConfirmedIsHeld ==
  /\ sup.pxOk => pxHold = HoldTicks
  /\ sup.ctOk => ctHold = HoldTicks /\ latch

\* An armed vehicle is known to be armed once a hold has lasted.
ArmedIsKnown ==
  /\ Lasting /\ px.armed => seen.armed
  /\ Lasting /\ sup.pc = "sample" /\ seen.armed => sup.armed
  /\ Confirmed /\ seen.armed => sup.armed

\* Out of the race a vehicle is believed armed after its disarming only in a
\* confirmed landing, which stays confirmed.
DisarmedIsConfirmed ==
  ~px.armed /\ race # "open"
    => /\ seen.armed => FullHold
       /\ sup.pc = "sample" /\ sup.armed => FullHold
       /\ sup.pc \in Late /\ sup.armed => Confirmed

\* The race begins with a disarming, and ends with an arming.
OpenIsDisarmed == race = "open" => ~px.armed

OffMeansDisarmed == fsm = "OFF" => ~px.armed

Safe == /\ OldHoldIsDisarmed
        /\ HoldInAirIsDropped /\ HoldSurvivesOnGround /\ GroundIsKnown
        /\ ConfirmedIsHeld /\ ArmedIsKnown /\ DisarmedIsConfirmed
        /\ OpenIsDisarmed /\ OffMeansDisarmed

SafeUnlessLost == race = "lost" \/ Safe

LongHold == HoldTicks > 1

LEMMA InitSafe == LandingInit => Safe
BY HoldTicksAssumption
DEF LandingInit, Safe, OldHoldIsDisarmed, HoldInAirIsDropped, HoldSurvivesOnGround,
    GroundIsKnown, ConfirmedIsHeld, ArmedIsKnown, DisarmedIsConfirmed,
    OpenIsDisarmed, OffMeansDisarmed, Lasting, Confirmed, Unset, Late

\* A confirmed landing has a full hold.
LEMMA ConfirmedIsFull ==
  ASSUME LandingTypeOK, Always, Safe, Confirmed
  PROVE  FullHold /\ Lasting /\ InLanding /\ sup.pc \in Late
BY HoldFacts DEF Always, ConfirmedInLanding, Safe, ConfirmedIsHeld, Confirmed,
                 FullHold, Lasting

LEMMA HandleRequestSafe ==
  ASSUME LandingTypeOK, Always, Safe, HandleRequest, race' = race
  PROVE  Safe'
<1>1. UNCHANGED <<pxHold, ctHold, sup, fast, px, alt, seen, ran>>
  BY DEF HandleRequest
<1>2. InLanding => InLanding' /\ latch' = latch
  BY HandleRequestAlways
<1>3. fsm' # "OFF"
  BY RequestFacts DEF HandleRequest, EnterState
<1>4. OldHoldIsDisarmed' /\ OpenIsDisarmed' /\ OffMeansDisarmed'
  BY <1>1, <1>2, <1>3 DEF Safe, OldHoldIsDisarmed, OpenIsDisarmed, OffMeansDisarmed
<1>5. HoldInAirIsDropped' /\ HoldSurvivesOnGround' /\ GroundIsKnown'
  BY <1>1 DEF Safe, HoldInAirIsDropped, HoldSurvivesOnGround, GroundIsKnown, Reported
<1>6. ConfirmedIsHeld'
  BY <1>1, <1>2
     DEF Always, ConfirmedInLanding, Safe, ConfirmedIsHeld, Confirmed
<1>7. ArmedIsKnown'
  BY <1>1 DEF Safe, ArmedIsKnown, Lasting, Confirmed
<1>8. DisarmedIsConfirmed'
  BY <1>1, <1>2 DEF Safe, DisarmedIsConfirmed, FullHold, Confirmed
<1> QED
  BY <1>4, <1>5, <1>6, <1>7, <1>8 DEF Safe

\* A round that reads of the disarming ends the race.
LEMMA ReadPx4Safe ==
  ASSUME LandingTypeOK, Always, Safe, ReadPx4,
         race' = IF race = "open" /\ ~sup'.armed THEN "none" ELSE race
  PROVE  Safe'
<1>1. /\ UNCHANGED <<fsm, autoLand, landInit, latch, pxHold, ctHold, fast, px, alt,
                     seen, ran>>
      /\ sup.pc = "events" /\ sup'.pc = "sample"
      /\ sup'.armed = seen.armed /\ sup'.landed = seen.landed
      /\ sup'.pxOk = sup.pxOk /\ sup'.ctOk = sup.ctOk
  BY DEF ReadPx4, LandingTypeOK, Supervisor
<1>2. ~Confirmed /\ ~Confirmed'
  BY <1>1 DEF Always, ConfirmedInLanding, Confirmed, Late
<1>3. Reported' = Reported
  BY <1>1 DEF Reported
<1>4. OldHoldIsDisarmed' /\ OpenIsDisarmed' /\ OffMeansDisarmed'
  BY <1>1 DEF Safe, OldHoldIsDisarmed, OpenIsDisarmed, OffMeansDisarmed, InLanding
<1>5. HoldInAirIsDropped' /\ HoldSurvivesOnGround' /\ GroundIsKnown'
  BY <1>1, <1>3 DEF Safe, HoldInAirIsDropped, HoldSurvivesOnGround, GroundIsKnown
<1>6. ConfirmedIsHeld'
  BY <1>1, <1>2 DEF ConfirmedIsHeld, Confirmed
<1>7. ArmedIsKnown'
  BY <1>1, <1>2 DEF Safe, ArmedIsKnown, Lasting
<1>8. DisarmedIsConfirmed'
  BY <1>1 DEF Safe, DisarmedIsConfirmed, FullHold, InLanding, Late
<1> QED
  BY <1>4, <1>5, <1>6, <1>7, <1>8 DEF Safe

LEMMA SampleHoldsSafe ==
  ASSUME LandingTypeOK, Always, Safe, LongHold, SampleHolds, race' = race
  PROVE  Safe'
<1>1. /\ UNCHANGED <<fsm, autoLand, landInit, latch, fast, px, alt, seen>>
      /\ sup.pc = "sample" /\ sup'.pc = "react"
      /\ sup'.armed = sup.armed
      /\ sup'.pxOk <=> pxHold' = HoldTicks
      /\ sup'.ctOk <=> ctHold' = HoldTicks
  BY DEF SampleHolds, LandingTypeOK, Supervisor
<1>2. /\ pxHold' = Held(pxHold, sup.landed = "ground")
      /\ ctHold' = Held(ctHold, latch)
  BY DEF SampleHolds
<1>3. /\ pxHold' > 0 => InLanding /\ sup.landed = "ground" /\ pxHold = pxHold'
      /\ ctHold' > 0 => InLanding /\ latch /\ ctHold = ctHold'
      /\ pxHold' \in Int /\ ctHold' \in Int
  BY <1>2, HoldFacts DEF Held, Unset
<1>4. InLanding' = InLanding
  BY <1>1 DEF InLanding
<1>5. ran' # {}
  BY DEF SampleHolds
<1>6. Reported' \subseteq Reported
  BY <1>1 DEF Reported
<1>7. OpenIsDisarmed' /\ OffMeansDisarmed'
  BY <1>1 DEF Safe, OpenIsDisarmed, OffMeansDisarmed
<1>8. OldHoldIsDisarmed'
  BY <1>2, <1>4 DEF OldHoldIsDisarmed, Held
<1>9. "ground" \in Reported \/ ~(pxHold' > 0)
  BY <1>1, <1>3 DEF Reported
<1>10. HoldInAirIsDropped' /\ HoldSurvivesOnGround'
  BY <1>1, <1>3, <1>9, HoldFacts
     DEF Safe, HoldInAirIsDropped, HoldSurvivesOnGround, LandingTypeOK
<1>11. GroundIsKnown'
  BY <1>1, <1>3, <1>6, HoldFacts DEF Safe, GroundIsKnown
<1>12. ConfirmedIsHeld'
  BY <1>1, <1>3, HoldFacts DEF ConfirmedIsHeld
<1>13. ArmedIsKnown'
  <2>1. Lasting' => Lasting
    BY <1>3 DEF Lasting
  <2>2. Confirmed' => Lasting
    BY <1>1, <1>3, HoldFacts DEF Confirmed, Lasting
  <2> QED
    BY <1>1, <2>1, <2>2 DEF Safe, ArmedIsKnown
<1>14. DisarmedIsConfirmed'
  <2>1. FullHold => FullHold' /\ Confirmed'
    <3>1. InLanding /\ pxHold = HoldTicks => pxHold' = HoldTicks
      <4>1. pxHold = HoldTicks => sup.landed = "ground"
        BY <1>1, HoldFacts DEF Safe, GroundIsKnown, Reported, LongHold
      <4> QED
        BY <1>2, <4>1, HoldFacts DEF Held, Unset
    <3>2. InLanding /\ ctHold = HoldTicks /\ latch => ctHold' = HoldTicks
      BY <1>2, HoldFacts DEF Held, Unset
    <3> QED
      BY <1>1, <1>4, <3>1, <3>2 DEF FullHold, Confirmed
  <2> QED
    BY <1>1, <2>1 DEF Safe, DisarmedIsConfirmed
<1> QED
  BY <1>7, <1>8, <1>10, <1>11, <1>12, <1>13, <1>14 DEF Safe

LEMMA EndReactSafe ==
  ASSUME LandingTypeOK, Always, Safe, EndReact, race' = race
  PROVE  Safe'
<1>1. /\ UNCHANGED <<fsm, autoLand, landInit, latch, pxHold, ctHold, fast, px, alt,
                     seen, ran>>
      /\ sup.pc = "react" /\ sup'.pc \in {"disarm", "mode"}
      /\ sup'.armed = sup.armed /\ sup'.pxOk = sup.pxOk /\ sup'.ctOk = sup.ctOk
  BY DEF EndReact, LandingTypeOK, Supervisor
<1>2. Confirmed' = Confirmed /\ Reported' = Reported
  BY <1>1 DEF Confirmed, Reported
<1>3. OldHoldIsDisarmed' /\ OpenIsDisarmed' /\ OffMeansDisarmed'
  BY <1>1 DEF Safe, OldHoldIsDisarmed, OpenIsDisarmed, OffMeansDisarmed, InLanding
<1>4. HoldInAirIsDropped' /\ HoldSurvivesOnGround' /\ GroundIsKnown'
  BY <1>1, <1>2 DEF Safe, HoldInAirIsDropped, HoldSurvivesOnGround, GroundIsKnown
<1>5. ConfirmedIsHeld'
  BY <1>1 DEF Safe, ConfirmedIsHeld
<1>6. ArmedIsKnown'
  BY <1>1, <1>2 DEF Safe, ArmedIsKnown, Lasting
<1>7. DisarmedIsConfirmed'
  BY <1>1, <1>2 DEF Safe, DisarmedIsConfirmed, FullHold, InLanding, Late
<1> QED
  BY <1>3, <1>4, <1>5, <1>6, <1>7 DEF Safe

LEMMA EnsureDisarmSafe ==
  ASSUME LandingTypeOK, Always, Safe, EnsureDisarm, race' = race
  PROVE  Safe'
<1>1. /\ UNCHANGED <<fsm, autoLand, landInit, latch, pxHold, ctHold, fast, alt,
                     seen, ran>>
      /\ sup.pc = "disarm" /\ sup'.pc = "mode"
      /\ sup'.armed = sup.armed /\ sup'.pxOk = sup.pxOk /\ sup'.ctOk = sup.ctOk
  BY DEF EnsureDisarm, LandingTypeOK, Supervisor
<1>2. px'.armed = px.armed \/ px'.armed = FALSE
  BY DEF EnsureDisarm, Request, LandingTypeOK
<1>3. Confirmed /\ Confirmed'
  BY <1>1 DEF Always, ConfirmedInLanding, Confirmed
<1>4. FullHold /\ FullHold' /\ InLanding /\ InLanding'
  BY <1>1, <1>3, ConfirmedIsFull DEF FullHold, InLanding
<1>5. Reported' = Reported
  BY <1>1 DEF Reported
<1>6. HoldInAirIsDropped' /\ HoldSurvivesOnGround' /\ GroundIsKnown'
  BY <1>1, <1>5 DEF Safe, HoldInAirIsDropped, HoldSurvivesOnGround, GroundIsKnown
<1>7. ConfirmedIsHeld'
  BY <1>1 DEF Safe, ConfirmedIsHeld
<1>8. ArmedIsKnown'
  BY <1>1, <1>2, <1>3 DEF Safe, ArmedIsKnown, Lasting
<1>9. DisarmedIsConfirmed'
  BY <1>3, <1>4 DEF DisarmedIsConfirmed
<1>10. OldHoldIsDisarmed' /\ OpenIsDisarmed' /\ OffMeansDisarmed'
  BY <1>1, <1>2, <1>4 DEF Safe, OldHoldIsDisarmed, OpenIsDisarmed, OffMeansDisarmed,
                          InLanding, LandingStates
<1> QED
  BY <1>6, <1>7, <1>8, <1>9, <1>10 DEF Safe

\* In a landing the mode is asked for, and nobody arms out of the race.
LEMMA NobodyArmsToLand ==
  ASSUME LandingTypeOK, Safe, EnsureMode, InLanding, Arming
  PROVE  race = "open"
<1> SUFFICES ASSUME race # "open" PROVE FALSE
  OBVIOUS
<1>1. px' # px /\ ~px.armed /\ px'.armed
  BY DEF Arming
<1>2. EnsureOffboardAndArm /\ ~Finalizing
  BY <1>1 DEF EnsureMode, EnsureAutoLand, Request, LandingTypeOK
<1>3. sup.armed /\ ~Confirmed /\ sup.pc = "mode"
  BY <1>2 DEF Finalizing, EnsureMode
<1> QED
  BY <1>1, <1>3 DEF Safe, DisarmedIsConfirmed, Late

LEMMA EnsureModeSafe ==
  ASSUME LandingTypeOK, Always, Safe, EnsureMode, ~Arming, race' = race
  PROVE  Safe'
<1>1. /\ UNCHANGED <<fsm, autoLand, landInit, latch, pxHold, ctHold, fast, alt,
                     seen, ran>>
      /\ sup.pc = "mode" /\ sup'.pc = "complete"
      /\ sup'.armed = sup.armed /\ sup'.pxOk = sup.pxOk /\ sup'.ctOk = sup.ctOk
  BY DEF EnsureMode, LandingTypeOK, Supervisor
<1>2. px'.armed = px.armed
  <2>1. px.armed => px'.armed
    BY DEF EnsureMode, EnsureAutoLand, EnsureOffboardAndArm, Request, LandingTypeOK
  <2>2. px'.armed \in BOOLEAN
    BY DEF EnsureMode, EnsureAutoLand, EnsureOffboardAndArm, Request, LandingTypeOK
  <2> QED
    BY <2>1, <2>2 DEF Arming, LandingTypeOK
<1>3. Confirmed' = Confirmed /\ Reported' = Reported
  BY <1>1 DEF Confirmed, Reported
<1>4. HoldInAirIsDropped' /\ HoldSurvivesOnGround' /\ GroundIsKnown'
  BY <1>1, <1>3 DEF Safe, HoldInAirIsDropped, HoldSurvivesOnGround, GroundIsKnown
<1>5. ConfirmedIsHeld'
  BY <1>1 DEF Safe, ConfirmedIsHeld
<1>6. ArmedIsKnown'
  BY <1>1, <1>2, <1>3 DEF Safe, ArmedIsKnown, Lasting
<1>7. DisarmedIsConfirmed'
  BY <1>1, <1>2, <1>3 DEF Safe, DisarmedIsConfirmed, FullHold, InLanding, Late
<1>8. OldHoldIsDisarmed' /\ OpenIsDisarmed' /\ OffMeansDisarmed'
  BY <1>1, <1>2 DEF Safe, OldHoldIsDisarmed, OpenIsDisarmed, OffMeansDisarmed, InLanding
<1> QED
  BY <1>4, <1>5, <1>6, <1>7, <1>8 DEF Safe

\* Motors armed for a flight begin it with nothing left of the last landing,
\* whatever the race did to that.
LEMMA FreshArming ==
  ASSUME LandingTypeOK, Always, EnsureMode, Arming, ~InLanding, race' = "none"
  PROVE  Safe'
<1>1. /\ UNCHANGED <<fsm, autoLand, landInit, latch, pxHold, ctHold, fast, alt,
                     seen, ran>>
      /\ sup.pc = "mode" /\ sup'.pc = "complete"
      /\ sup'.armed = sup.armed /\ sup'.pxOk = sup.pxOk /\ sup'.ctOk = sup.ctOk
  BY DEF EnsureMode, LandingTypeOK, Supervisor
<1>2. pxHold' = Unset /\ ctHold' = Unset /\ ~Confirmed'
  BY <1>1 DEF Always, OldHoldIsDropped, ConfirmedInLanding, Confirmed
<1>3. px'.armed /\ px' # px
  BY DEF Arming
<1>4. fsm' # "OFF"
  BY <1>1, <1>3 DEF EnsureMode, RequiresOffboard, UsesAutoLand
<1>5. ~Lasting' /\ ~(pxHold' > 1) /\ ~(pxHold' > 0)
  BY <1>2 DEF Lasting, Unset
<1> QED
  BY <1>2, <1>3, <1>4, <1>5
     DEF Safe, OldHoldIsDisarmed, HoldInAirIsDropped, HoldSurvivesOnGround,
         GroundIsKnown, ConfirmedIsHeld, Confirmed, ArmedIsKnown,
         DisarmedIsConfirmed, OpenIsDisarmed, OffMeansDisarmed

LEMMA CompleteSafe ==
  ASSUME LandingTypeOK, Always, Safe, Complete, race' = race
  PROVE  Safe'
<1>1. /\ UNCHANGED <<pxHold, ctHold, fast, px, alt, seen, ran>>
      /\ sup.pc = "complete" /\ sup'.pc = "events"
      /\ sup'.armed = sup.armed /\ ~sup'.pxOk /\ ~sup'.ctOk
  BY DEF Complete, LandingTypeOK, Supervisor
<1>2. \/ InLanding /\ Confirmed /\ ~sup.armed /\ fsm' = "OFF"
      \/ fsm = "TAKEOFF" /\ fsm' = "HOVER"
      \/ fsm' = fsm
  BY DEF Complete, EnterState
<1>3. latch' = latch
  BY <1>2 DEF Complete, EnterState, InLanding, LandingStates
<1>4. ~Confirmed' /\ Reported' = Reported
  BY <1>1 DEF Confirmed, Reported
<1>5. OpenIsDisarmed'
  BY <1>1 DEF Safe, OpenIsDisarmed
<1>6. HoldSurvivesOnGround' /\ HoldInAirIsDropped' /\ GroundIsKnown'
  BY <1>1, <1>4 DEF Safe, HoldSurvivesOnGround, HoldInAirIsDropped, GroundIsKnown
<1>7. ConfirmedIsHeld'
  BY <1>1 DEF ConfirmedIsHeld
<1>8. ArmedIsKnown'
  BY <1>1, <1>4 DEF Safe, ArmedIsKnown, Lasting
<1>9. CASE InLanding /\ Confirmed /\ ~sup.armed /\ fsm' = "OFF"
  <2>1. ~seen.armed /\ ~px.armed
    BY <1>9, ConfirmedIsFull DEF Safe, ArmedIsKnown
  <2> QED
    BY <1>1, <1>5, <1>6, <1>7, <1>8, <1>9, <2>1
       DEF Safe, OldHoldIsDisarmed, DisarmedIsConfirmed, OffMeansDisarmed, Late
<1>10. CASE fsm = "TAKEOFF" /\ fsm' = "HOVER"
  <2>1. ~InLanding /\ pxHold = Unset /\ ctHold = Unset
    BY <1>1, <1>10 DEF Always, OldHoldIsDropped, InLanding, LandingStates
  <2>2. ~(seen.armed /\ ~px.armed /\ race # "open")
    BY <2>1 DEF Safe, DisarmedIsConfirmed, FullHold
  <2> QED
    BY <1>1, <1>5, <1>6, <1>7, <1>8, <1>10, <2>1, <2>2
       DEF Safe, OldHoldIsDisarmed, DisarmedIsConfirmed, OffMeansDisarmed, Late
<1>11. CASE fsm' = fsm
  <2>1. InLanding' = InLanding /\ FullHold' = FullHold
    BY <1>1, <1>3, <1>11 DEF InLanding, FullHold
  <2>2. OldHoldIsDisarmed' /\ OffMeansDisarmed'
    BY <1>1, <1>11, <2>1 DEF Safe, OldHoldIsDisarmed, OffMeansDisarmed
  <2>3. DisarmedIsConfirmed'
    BY <1>1, <2>1 DEF Safe, DisarmedIsConfirmed, Late
  <2> QED
    BY <1>5, <1>6, <1>7, <1>8, <2>2, <2>3 DEF Safe
<1> QED
  BY <1>2, <1>9, <1>10, <1>11

-----------------------------------------------------------------------------
(* The 100 Hz loop.                                                        *)

LEMMA FastReadPx4Safe ==
  ASSUME LandingTypeOK, Safe, FastReadPx4, race' = race
  PROVE  Safe'
<1>1. /\ UNCHANGED <<fsm, latch, landInit, pxHold, ctHold, sup, px, alt, seen, ran>>
      /\ fast'.landed = seen.landed
  BY DEF FastReadPx4
<1>2. Reported' \subseteq Reported
  BY <1>1 DEF Reported
<1> QED
  BY <1>1, <1>2
     DEF Safe, OldHoldIsDisarmed, HoldInAirIsDropped, HoldSurvivesOnGround,
         GroundIsKnown, ConfirmedIsHeld, ArmedIsKnown, DisarmedIsConfirmed,
         OpenIsDisarmed, OffMeansDisarmed, Lasting, FullHold, InLanding, Confirmed

LEMMA FastSectionSafe ==
  ASSUME LandingTypeOK, Always, Safe, LongHold, FastSection, race' = race
  PROVE  Safe'
<1>1. /\ UNCHANGED <<fsm, autoLand, sup, px, alt, seen>>
      /\ fast.pc = "section" /\ fast'.pc = "idle" /\ ran' # {}
      /\ pxHold' = Held(pxHold, fast.landed = "ground")
      /\ ctHold' = Held(ctHold, latch')
  BY DEF FastSection, LandingTypeOK
<1>2. InLanding' = InLanding /\ Confirmed' = Confirmed
  BY <1>1 DEF InLanding, Confirmed
<1>3. /\ pxHold' > 0 => InLanding /\ fast.landed = "ground" /\ pxHold = pxHold'
      /\ ctHold' > 0 => InLanding /\ latch' /\ ctHold = ctHold'
      /\ pxHold' \in Int /\ ctHold' \in Int
  BY <1>1, HoldFacts DEF Held, Unset
<1>4. InLanding /\ latch => latch'
  BY FastSectionAlways
<1>5. Reported' \subseteq Reported
  BY <1>1 DEF Reported
<1>6. OldHoldIsDisarmed'
  BY <1>1, <1>2 DEF OldHoldIsDisarmed, Held
<1>7. "ground" \in Reported \/ ~(pxHold' > 0)
  BY <1>1, <1>3 DEF Reported
<1>8. HoldInAirIsDropped' /\ HoldSurvivesOnGround'
  BY <1>1, <1>3, <1>7, HoldFacts
     DEF Safe, HoldInAirIsDropped, HoldSurvivesOnGround, LandingTypeOK
<1>9. GroundIsKnown'
  BY <1>1, <1>3, <1>5, HoldFacts DEF Safe, GroundIsKnown
<1>10. InLanding /\ pxHold = HoldTicks => pxHold' = HoldTicks
  <2>1. pxHold = HoldTicks => fast.landed = "ground"
    BY <1>1, HoldFacts DEF Safe, GroundIsKnown, Reported, LongHold
  <2> QED
    BY <1>1, <2>1, HoldFacts DEF Held, Unset
<1>11. InLanding /\ ctHold = HoldTicks /\ latch => ctHold' = HoldTicks /\ latch'
  BY <1>1, <1>4, HoldFacts DEF Held, Unset
<1>12. ConfirmedIsHeld'
  BY <1>1, <1>10, <1>11
     DEF Always, ConfirmedInLanding, Confirmed, Safe, ConfirmedIsHeld
<1>13. ArmedIsKnown'
  <2>1. Lasting' => Lasting
    BY <1>3 DEF Lasting
  <2> QED
    BY <1>1, <1>2, <2>1 DEF Safe, ArmedIsKnown
<1>14. DisarmedIsConfirmed'
  <2>1. FullHold => FullHold'
    BY <1>2, <1>10, <1>11 DEF FullHold
  <2> QED
    BY <1>1, <1>2, <2>1 DEF Safe, DisarmedIsConfirmed
<1>15. OpenIsDisarmed' /\ OffMeansDisarmed'
  BY <1>1 DEF Safe, OpenIsDisarmed, OffMeansDisarmed
<1> QED
  BY <1>6, <1>8, <1>9, <1>12, <1>13, <1>14, <1>15 DEF Safe

-----------------------------------------------------------------------------
(* PX4, the vehicle and time.                                              *)

LEMMA StateArrivesSafe ==
  ASSUME LandingTypeOK, Always, Safe, StateArrives, race' = race
  PROVE  Safe'
<1>1. /\ UNCHANGED <<fsm, latch, landInit, pxHold, ctHold, sup, fast, px, alt, ran>>
      /\ seen'.armed = px.armed /\ seen'.landed = seen.landed
  BY DEF StateArrives, code, LandingTypeOK
<1>2. Reported' = Reported /\ Confirmed' = Confirmed
  BY <1>1 DEF Reported, Confirmed
<1>3. ArmedIsKnown'
  <2>1. Confirmed => Lasting
    BY ConfirmedIsFull
  <2> QED
    BY <1>1, <1>2, <2>1 DEF Safe, ArmedIsKnown, Lasting
<1>4. DisarmedIsConfirmed'
  BY <1>1, <1>2 DEF Safe, DisarmedIsConfirmed, FullHold, InLanding
<1> QED
  BY <1>1, <1>2, <1>3, <1>4
     DEF Safe, OldHoldIsDisarmed, HoldInAirIsDropped, HoldSurvivesOnGround,
         GroundIsKnown, ConfirmedIsHeld, OpenIsDisarmed, OffMeansDisarmed, InLanding

LEMMA ExtStateArrivesSafe ==
  ASSUME LandingTypeOK, Safe, ExtStateArrives, race' = race
  PROVE  Safe'
<1>1. /\ UNCHANGED <<fsm, latch, landInit, pxHold, ctHold, sup, fast, px, alt, ran>>
      /\ seen'.armed = seen.armed /\ seen'.landed = alt
  BY DEF ExtStateArrives, code, LandingTypeOK
<1>2. Reported' \subseteq Reported \cup {alt}
  BY <1>1 DEF Reported
<1>3. HoldInAirIsDropped' /\ GroundIsKnown'
  BY <1>1, <1>2 DEF Safe, HoldInAirIsDropped, GroundIsKnown
<1> QED
  BY <1>1, <1>3
     DEF Safe, OldHoldIsDisarmed, HoldSurvivesOnGround, ConfirmedIsHeld, ArmedIsKnown,
         DisarmedIsConfirmed, OpenIsDisarmed, OffMeansDisarmed, Lasting, FullHold,
         InLanding, Confirmed

\* A vehicle lifts off with no hold left.
LEMMA MovesSafe ==
  ASSUME LandingTypeOK, Safe, LiftOff \/ TouchDown, race' = race
  PROVE  Safe'
<1>1. /\ UNCHANGED <<fsm, latch, landInit, pxHold, ctHold, sup, fast, px, seen, ran>>
      /\ alt' = "ground" \/ pxHold = Unset
  BY DEF LiftOff, TouchDown, code, Safe, OldHoldIsDisarmed, InLanding, LandingStates
<1>2. Reported' = Reported
  BY <1>1 DEF Reported
<1>3. HoldInAirIsDropped' /\ HoldSurvivesOnGround' /\ GroundIsKnown'
  BY <1>1, <1>2
     DEF Safe, HoldInAirIsDropped, HoldSurvivesOnGround, GroundIsKnown, Unset
<1> QED
  BY <1>1, <1>3
     DEF Safe, OldHoldIsDisarmed, ConfirmedIsHeld, ArmedIsKnown, DisarmedIsConfirmed,
         OpenIsDisarmed, OffMeansDisarmed, Lasting, FullHold, InLanding, Confirmed

\* PX4's own disarming opens the race, and changes nothing the code has seen.
LEMMA Px4DisarmsSafe ==
  ASSUME LandingTypeOK, Safe, Px4Disarms, race' = "open"
  PROVE  Safe'
<1>1. /\ UNCHANGED <<fsm, latch, landInit, pxHold, ctHold, sup, fast, alt, seen, ran>>
      /\ px'.armed = FALSE
  BY DEF Px4Disarms, code, LandingTypeOK
<1>2. Reported' = Reported
  BY <1>1 DEF Reported
<1> QED
  BY <1>1, <1>2
     DEF Safe, OldHoldIsDisarmed, HoldInAirIsDropped, HoldSurvivesOnGround,
         GroundIsKnown, ConfirmedIsHeld, ArmedIsKnown, DisarmedIsConfirmed,
         OpenIsDisarmed, OffMeansDisarmed, Lasting, InLanding, Confirmed

LEMMA TickSafe ==
  ASSUME LandingTypeOK, Safe, Tick, race' = race
  PROVE  Safe'
<1>1. /\ UNCHANGED <<fsm, latch, landInit, sup, fast, px, alt, seen>>
      /\ sup.pc # "sample" /\ fast.pc # "section"
      /\ ran # {} /\ ran' = {}
      /\ seen.armed = px.armed /\ seen.landed = alt
  BY DEF Tick, BetweenRounds
<1>2. pxHold' = Older(pxHold) /\ ctHold' = Older(ctHold)
  BY DEF Tick
<1>3. /\ pxHold = HoldTicks => pxHold' = HoldTicks
      /\ ctHold = HoldTicks => ctHold' = HoldTicks
      /\ pxHold = Unset <=> pxHold' = Unset
      /\ ctHold = Unset <=> ctHold' = Unset
      /\ pxHold' > 1 => pxHold > 0
  BY <1>2, HoldFacts DEF Older, Unset
<1>4. Reported' = {alt} /\ alt \in {"ground", "air"}
  BY <1>1 DEF Reported, LandingTypeOK
<1>5. HoldInAirIsDropped' /\ HoldSurvivesOnGround'
  BY <1>1, <1>4 DEF HoldInAirIsDropped, HoldSurvivesOnGround
<1>6. GroundIsKnown'
  BY <1>1, <1>3, <1>4 DEF Safe, HoldSurvivesOnGround, GroundIsKnown
<1>7. OldHoldIsDisarmed'
  BY <1>1, <1>3 DEF Safe, OldHoldIsDisarmed, InLanding
<1>8. ConfirmedIsHeld'
  BY <1>1, <1>3 DEF Safe, ConfirmedIsHeld
<1>9. ArmedIsKnown'
  BY <1>1 DEF Safe, ArmedIsKnown, Confirmed
<1>10. DisarmedIsConfirmed'
  BY <1>1, <1>3 DEF Safe, DisarmedIsConfirmed, FullHold, InLanding, Confirmed
<1>11. OpenIsDisarmed' /\ OffMeansDisarmed'
  BY <1>1 DEF Safe, OpenIsDisarmed, OffMeansDisarmed
<1> QED
  BY <1>5, <1>6, <1>7, <1>8, <1>9, <1>10, <1>11 DEF Safe

-----------------------------------------------------------------------------
(* The race.                                                               *)

\* Who changes the motors and the mode, and how.
LEMMA WhoChangesPx4 ==
  ASSUME LandingTypeOK, Step
  PROVE  /\ Arming => EnsureMode
         /\ DisarmedByItself => Px4Disarms
<1>1. CASE EnsureMode
  <2>1. px.armed => px'.armed
    BY <1>1 DEF EnsureMode, EnsureAutoLand, EnsureOffboardAndArm, Request, LandingTypeOK
  <2> QED
    BY <1>1, <2>1 DEF DisarmedByItself
<1>2. CASE EnsureDisarm
  <2>1. sup' # sup
    BY <1>2 DEF EnsureDisarm, LandingTypeOK, Supervisor
  <2>2. px'.armed => px.armed
    BY <1>2 DEF EnsureDisarm, Request, LandingTypeOK
  <2> QED
    BY <2>1, <2>2 DEF Arming, DisarmedByItself
<1>3. CASE Px4Disarms
  BY <1>3 DEF Px4Disarms, Arming
<1>4. CASE ~EnsureMode /\ ~EnsureDisarm /\ ~Px4Disarms
  <2>1. px' = px
    BY <1>4
       DEF Step, code, UpdateSlow, Round, HandleRequest, ReadPx4, SampleHolds,
           EndReact, Complete, UpdateFast, FastReadPx4, FastSection, StateArrives,
           ExtStateArrives, LiftOff, TouchDown, Tick
  <2> QED
    BY <2>1 DEF Arming, DisarmedByItself
<1> QED
  BY <1>1, <1>2, <1>3, <1>4

\* Nothing else moves the race than arming, PX4's own disarming, and a round
\* that begins.
LEMMA RaceStays ==
  ASSUME LandingTypeOK, Step, race' = Race, ~Arming, ~Px4Disarms, ~ReadPx4
  PROVE  race' = race
<1>1. ~DisarmedByItself
  BY WhoChangesPx4
<1>2. ~RoundKnows
  <2>1. CASE Round
    BY <2>1 DEF Round, SampleHolds, EndReact, EnsureDisarm, EnsureMode, Complete,
                RoundKnows, LandingTypeOK, Supervisor
  <2>2. CASE ~Round
    BY <2>2 DEF Step, UpdateSlow, HandleRequest, UpdateFast, FastReadPx4, FastSection,
                StateArrives, ExtStateArrives, LiftOff, TouchDown, Tick, code, RoundKnows
  <2> QED
    BY <2>1, <2>2
<1> QED
  BY <1>1, <1>2 DEF Race

\* Once lost, the race stays lost until the motors are armed for a flight.
LEMMA LostStays ==
  ASSUME race = "lost", race' = Race, ~Arming
  PROVE  race' = "lost"
BY DEF Race

LEMMA NextSafe ==
  ASSUME LandingTypeOK, Always, SafeUnlessLost, LongHold, [Next]_vars
  PROVE  SafeUnlessLost'
<1>1. CASE UNCHANGED vars
  BY <1>1
     DEF vars, system, code, SafeUnlessLost, Safe, OldHoldIsDisarmed,
         HoldInAirIsDropped, HoldSurvivesOnGround, GroundIsKnown, ConfirmedIsHeld,
         ArmedIsKnown, DisarmedIsConfirmed, OpenIsDisarmed, OffMeansDisarmed,
         Lasting, FullHold, InLanding, Confirmed, Reported
<1>2. CASE Next /\ Arming
  <2>1. EnsureMode /\ ~DisarmedByItself /\ ~RoundKnows
    BY <1>2, WhoChangesPx4 DEF Next, EnsureMode, Arming, DisarmedByItself, RoundKnows
  <2>2. race' = IF InLanding THEN "lost" ELSE "none"
    BY <1>2, <2>1 DEF Next, Race
  <2> QED
    BY <1>2, <2>1, <2>2, FreshArming DEF SafeUnlessLost
<1>3. CASE Next /\ ~Arming /\ race = "lost"
  BY <1>3, LostStays DEF Next, SafeUnlessLost
<1>4. CASE Next /\ ~Arming /\ race # "lost"
  <2>1. Safe /\ Step /\ race' = Race
    BY <1>4 DEF Next, SafeUnlessLost
  <2>2. CASE Px4Disarms
    <3>1. DisarmedByItself /\ race = "none"
      BY <1>4, <2>1, <2>2
         DEF Px4Disarms, DisarmedByItself, code, Safe, OpenIsDisarmed, LandingTypeOK
    <3>2. race' = "open"
      BY <1>4, <2>1, <3>1 DEF Race
    <3> QED
      BY <2>1, <2>2, <3>2, Px4DisarmsSafe DEF SafeUnlessLost
  <2>3. CASE ReadPx4
    <3>1. ~DisarmedByItself /\ (RoundKnows <=> ~sup'.armed)
      BY <2>3 DEF ReadPx4, DisarmedByItself, RoundKnows, LandingTypeOK, Supervisor
    <3>2. race' = IF race = "open" /\ ~sup'.armed THEN "none" ELSE race
      BY <1>4, <2>1, <3>1 DEF Race
    <3> QED
      BY <2>1, <2>3, <3>2, ReadPx4Safe DEF SafeUnlessLost
  <2>4. CASE ~Px4Disarms /\ ~ReadPx4
    <3>1. race' = race
      BY <1>4, <2>1, <2>4, RaceStays
    <3>2. CASE UpdateSlow \/ UpdateFast
      BY <1>4, <2>1, <2>4, <3>1, <3>2, HandleRequestSafe, SampleHoldsSafe, EndReactSafe,
         EnsureDisarmSafe, EnsureModeSafe, CompleteSafe, FastReadPx4Safe, FastSectionSafe
         DEF UpdateSlow, Round, UpdateFast, SafeUnlessLost
    <3> QED
      BY <2>1, <2>4, <3>1, <3>2, StateArrivesSafe, ExtStateArrivesSafe, MovesSafe,
         TickSafe DEF Step, SafeUnlessLost
  <2> QED
    BY <2>2, <2>3, <2>4
<1> QED
  BY <1>1, <1>2, <1>3, <1>4

-----------------------------------------------------------------------------
\* The inductive invariant, for every hold longer than a retry interval: the
\* holds and readings agree with PX4 unless a landing has armed the vehicle.
THEOREM LandingInvariant ==
  ASSUME LongHold
  PROVE  Spec => [](LandingTypeOK /\ Always /\ SafeUnlessLost)
<1>1. LandingTypeOK /\ Always /\ [Next]_vars => Always'
  BY NextAlways
<1>2. LandingTypeOK /\ Always /\ SafeUnlessLost /\ [Next]_vars => SafeUnlessLost'
  BY NextSafe
<1>3. LandingInit => Always /\ SafeUnlessLost
  BY InitAlways, InitSafe DEF SafeUnlessLost
<1> QED
  BY <1>1, <1>2, <1>3, LandingTypeCorrect, PTL DEF Spec

\* The machine is in OFF only with its motors disarmed, however late PX4's state
\* is seen, whichever of the two holds has confirmed the landing and whenever PX4
\* disarms by itself, unless ensure_offboard_and_arm has armed the landed vehicle.
THEOREM OffDisarmed ==
  ASSUME LongHold
  PROVE  Spec => []OffIsDisarmed
<1>1. SafeUnlessLost => OffIsDisarmed
  BY DEF SafeUnlessLost, Safe, OffMeansDisarmed, OffIsDisarmed
<1> QED
  BY <1>1, LandingInvariant, PTL

\* PX4 is asked to disarm on the strength of its own landed state only on the
\* ground, unless ensure_offboard_and_arm has armed the landed vehicle.
THEOREM DisarmGrounded ==
  ASSUME LongHold
  PROVE  Spec => DisarmByPx4Grounded
<1>1. LandingTypeOK /\ SafeUnlessLost
        => [sup.pc = "disarm" /\ px' # px /\ sup.pxOk
            => alt = "ground" \/ race = "lost"]_vars
  BY HoldFacts DEF SafeUnlessLost, Safe, ConfirmedIsHeld, GroundIsKnown, LongHold
<1> QED
  BY <1>1, LandingInvariant, PTL DEF DisarmByPx4Grounded

\* A landing arms the vehicle only if PX4 has disarmed it by itself since the
\* reading the supervisor's round rests on, or if it was armed so before.
THEOREM NeverArmed ==
  ASSUME LongHold
  PROVE  Spec => NeverArmedToLand
<1>1. LandingTypeOK /\ SafeUnlessLost /\ [Next]_vars
        => [InLanding /\ Arming => race # "none"]_vars
  <2> SUFFICES ASSUME LandingTypeOK, SafeUnlessLost, Next, InLanding, Arming,
                      race = "none"
               PROVE  FALSE
    BY Zenon
  <2>1. Safe /\ EnsureMode
    BY WhoChangesPx4 DEF SafeUnlessLost, Next
  <2> QED
    BY <2>1, NobodyArmsToLand
<1> QED
  BY <1>1, LandingInvariant, PTL DEF Spec, NeverArmedToLand
=============================================================================
