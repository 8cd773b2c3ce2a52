----------------------------- MODULE FastLoop_proofs -----------------------------
(***************************************************************************)
(* Proofs that the fast loop's two properties hold for every output        *)
(* timeout, whatever transitions the supervisor makes.                     *)
(***************************************************************************)
EXTENDS FastLoop, TLAPS

\* After a late output the loop rests, or works for the present state; and the
\* emergency's slot is as old as its last round.
FastInv ==
  /\ FastTypeOK
  /\ late => round = Idle \/ round.st = fsm
  /\ slots["EMERGENCY"].age = calm

USE OutputTimeoutAssumption

-----------------------------------------------------------------------------
LEMMA InitInv == FastInit => FastInv
<1> SUFFICES ASSUME FastInit PROVE FastInv
  OBVIOUS
<1>1. TooOld \in 0..TooOld
  BY DEF TooOld
<1>2. slots \in [ControlSource -> Slot] /\ slots["EMERGENCY"].age = TooOld
  BY <1>1 DEF FastInit, NoSlots, NoSlot, Slot, ControlSource
<1>3. fsm \in SunrayState /\ arbFsm \in SunrayState
  BY DEF FastInit, SunrayState
<1>4. autoLand \in BOOLEAN /\ round \in {Idle} \cup Snapshot
  BY DEF FastInit
<1>5. late = FALSE /\ calm = TooOld
  BY DEF FastInit
<1> QED
  BY <1>1, <1>2, <1>3, <1>4, <1>5 DEF FastInv, FastTypeOK

LEMMA SuperviseInv == FastInv /\ Supervise => FastInv'
<1> SUFFICES ASSUME FastInv, Supervise PROVE FastInv'
  OBVIOUS
<1>1. fsm' \in SunrayState /\ autoLand' \in BOOLEAN
  BY DEF Supervise, Resolve, FastInv, FastTypeOK
<1> QED
  BY <1>1 DEF Supervise, FastInv, FastTypeOK

LEMMA TakeSnapshotInv == FastInv /\ TakeSnapshot => FastInv'
<1> SUFFICES ASSUME FastInv, TakeSnapshot PROVE FastInv'
  OBVIOUS
<1>1. PICK out \in Outputs, confirmed \in BOOLEAN :
        round' = [pc |-> "computed", st |-> fsm, auto |-> autoLand,
                  out |-> out, confirmed |-> confirmed]
  BY DEF TakeSnapshot
<1>2. round' \in Snapshot /\ round'.st = fsm
  BY <1>1 DEF Snapshot, Outputs, FastInv, FastTypeOK
<1> QED
  BY <1>2 DEF TakeSnapshot, FastInv, FastTypeOK

LEMMA EndWithoutOutputInv == FastInv /\ EndWithoutOutput => FastInv'
<1> SUFFICES ASSUME FastInv, EndWithoutOutput PROVE FastInv'
  OBVIOUS
<1>1. /\ slots' \in [ControlSource -> Slot]
      /\ slots'["EMERGENCY"] = slots["EMERGENCY"]
  BY DEF FastInv, FastTypeOK, EndWithoutOutput, Clear, NoSlot, Slot, TooOld,
         ControlSource
<1> QED
  BY <1>1 DEF EndWithoutOutput, FastInv, FastTypeOK

LEMMA EndWithOutputInv == FastInv /\ EndWithOutput => FastInv'
<1> SUFFICES ASSUME FastInv, EndWithOutput PROVE FastInv'
  OBVIOUS
<1>1. round \in Snapshot
  BY DEF FastInv, FastTypeOK, EndWithOutput
<1>2. slots' \in [ControlSource -> Slot]
  BY DEF FastInv, FastTypeOK, EndWithOutput, Submitted, Submit, Slot, SlotFor,
         ControlSource, TooOld
<1>3. slots'["EMERGENCY"].age = calm' /\ calm' \in 0..TooOld
  BY DEF FastInv, FastTypeOK, EndWithOutput, Submitted, Submit, SlotFor,
         ControlSource, TooOld
<1>4. late' \in BOOLEAN
  BY DEF FastInv, FastTypeOK, EndWithOutput
<1> QED
  BY <1>1, <1>2, <1>3, <1>4
  DEF EndWithOutput, FastInv, FastTypeOK, Snapshot

LEMMA TickInv == FastInv /\ Tick => FastInv'
<1> SUFFICES ASSUME FastInv, Tick PROVE FastInv'
  OBVIOUS
<1>1. \A age \in 0..TooOld : Older(age) \in 0..TooOld
  BY DEF Older, TooOld
<1>2. slots' \in [ControlSource -> Slot]
  BY <1>1 DEF FastInv, FastTypeOK, Tick, Slot
<1>3. slots'["EMERGENCY"].age = Older(calm) /\ Older(calm) \in 0..TooOld
  BY <1>1 DEF FastInv, FastTypeOK, Tick, Slot, ControlSource
<1> QED
  BY <1>2, <1>3 DEF Tick, FastInv, FastTypeOK

LEMMA StutterInv == FastInv /\ UNCHANGED vars => FastInv'
BY DEF vars, FastInv, FastTypeOK

\* The inductive invariant, for every output timeout.
THEOREM FastInvariant == Spec => []FastInv
<1>1. FastInv /\ [Next]_vars => FastInv'
  BY SuperviseInv, TakeSnapshotInv, EndWithoutOutputInv, EndWithOutputInv,
     TickInv, StutterInv DEF Next
<1> QED
  BY InitInv, <1>1, PTL DEF Spec

\* Every variable keeps its type: the ages of the slots stay within their cap.
THEOREM FastTypeCorrect == Spec => []FastTypeOK
BY FastInvariant, PTL DEF FastInv

\* After a change of state one output at most is sent that was made for another
\* flight state, but for the emergency's within the output timeout.
THEOREM LateOutputIsOnly == Spec => LateOutputIsOne
<1> DEFINE Step == late /\ round # Idle /\ round.out # "none" /\ round' = Idle
                   => \A s \in Sent :
                        MadeFor(s) = fsm \/ (s = "EMERGENCY" /\ calm <= OutputTimeout)
<1>1. FastInv => Step
  <2> SUFFICES ASSUME FastInv, late, round # Idle, NEW s \in Sent, MadeFor(s) # fsm
               PROVE  s = "EMERGENCY" /\ calm <= OutputTimeout
    OBVIOUS
  <2>1. round.st = fsm /\ s = "EMERGENCY" /\ round.st # "EMERGENCY_LAND"
    BY DEF FastInv, MadeFor
  <2>2. Fresh(Submitted["EMERGENCY"])
    BY <2>1 DEF Sent, Published, Selected, Candidates
  <2>3. Submitted["EMERGENCY"].age = calm
    BY <2>1 DEF FastInv, FastTypeOK, Submitted, Submit, SlotFor, ControlSource
  <2> QED
    BY <2>1, <2>2, <2>3 DEF Fresh
<1> QED
  BY <1>1, FastInvariant, PTL DEF LateOutputIsOne, Spec

-----------------------------------------------------------------------------
\* The slot just submitted is selected, unless an emergency's slot of an earlier
\* round is still fresh.
LEMMA OwnSlotSelected ==
  ASSUME FastInv, round # Idle, round.st # "EMERGENCY_LAND" => calm > OutputTimeout
  PROVE  Selected(Submitted, round.st = "EMERGENCY_LAND") = {SlotFor(round.st)}
<1> DEFINE mode == round.st = "EMERGENCY_LAND"
           own == SlotFor(round.st)
<1>1. Submitted \in [ControlSource -> Slot] /\ own \in ControlSource
      /\ Submitted[own].age = 0
  BY DEF FastInv, FastTypeOK, Submitted, Submit, Slot, SlotFor, ControlSource, TooOld
<1>2. ~mode => Submitted["EMERGENCY"].age = calm
  BY DEF FastInv, FastTypeOK, Submitted, Submit, SlotFor, ControlSource
<1>3. calm \in Int
  BY DEF FastInv, FastTypeOK
<1>4. Candidates(Submitted, mode) = {own}
  BY <1>1, <1>2, <1>3 DEF Candidates, Fresh, SlotFor, ControlSource
<1>5. ~Preferred(Submitted, own, own)
  BY <1>1 DEF Preferred, SlotPriority, ControlSource, SlotFor
<1> HIDE DEF mode, own
<1>6. Selected(Submitted, mode) = {own}
  BY <1>4, <1>5 DEF Selected
<1> QED
  BY <1>6 DEF mode, own

\* A round sends its own valid output: only an emergency that was over less than
\* the output timeout ago can keep it from doing so.
THEOREM OwnOutputAlwaysSent == Spec => OwnOutputSent
<1> DEFINE Step == round # Idle /\ round.out = "valid" /\ round' = Idle
                   => \/ Sent = {SlotFor(round.st)}
                      \/ round.st # "EMERGENCY_LAND" /\ calm <= OutputTimeout
<1>1. FastInv => Step
  <2> SUFFICES ASSUME FastInv, round # Idle, round.out = "valid",
                      round.st # "EMERGENCY_LAND" => ~(calm <= OutputTimeout)
               PROVE  Sent = {SlotFor(round.st)}
    OBVIOUS
  <2>1. calm \in Int
    BY DEF FastInv, FastTypeOK
  <2>2. Selected(Submitted, round.st = "EMERGENCY_LAND") = {SlotFor(round.st)}
    BY <2>1, OwnSlotSelected
  <2>3. Submitted[SlotFor(round.st)].valid
    BY DEF FastInv, FastTypeOK, Submitted, Submit, Slot, SlotFor, ControlSource
  <2> QED
    BY <2>2, <2>3 DEF Sent, Published
<1> QED
  BY <1>1, FastInvariant, PTL DEF OwnOutputSent, Spec
=============================================================================
