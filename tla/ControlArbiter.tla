---------------------------- MODULE ControlArbiter ----------------------------
(***************************************************************************)
(* The slots of Sunray_Control_Arbiter and the choice between them.  Of    *)
(* the six sources the state machine submits two, EMERGENCY and EXTERNAL;  *)
(* the other slots are never written.  A slot keeps the age of its stamp   *)
(* in ticks, and of its output only whether validate_output would pass it. *)
(***************************************************************************)
EXTENDS Integers

CONSTANT OutputTimeout  \* output_timeout_s, in ticks

ASSUME OutputTimeoutAssumption == OutputTimeout \in Nat

ControlSource == {"EMERGENCY", "EXTERNAL"}

\* The priorities update_fast submits with.
SlotPriority == [EMERGENCY |-> 255, EXTERNAL |-> 100]

\* The age of a slot that is no longer fresh is not told apart any more.
TooOld == OutputTimeout + 1
Slot == [age : 0..TooOld, valid : BOOLEAN]
NoSlot == [age |-> TooOld, valid |-> FALSE]

NoSlots == [s \in ControlSource |-> NoSlot]

\* submit: the slot is overwritten, its stamp is now.
Submit(slots, source, valid) ==
  [slots EXCEPT ![source] = [age |-> 0, valid |-> valid]]

\* clear.
Clear(slots, source) == [slots EXCEPT ![source] = NoSlot]

\* Mutant of Fresh: a slot, once submitted, stays fresh.
Fresh_NeverOld(slot) == slot # NoSlot

\* is_slot_fresh.
Fresh(slot) == slot.age <= OutputTimeout

\* The sources select_candidate looks at.
Candidates(slots, emergencyMode) ==
  {s \in ControlSource : /\ Fresh(slots[s])
                         /\ emergencyMode => s = "EMERGENCY"}

\* Candidate s is preferred to t: the emergency source, then the priority,
\* then the later stamp.
Preferred(slots, s, t) ==
  \/ s = "EMERGENCY" /\ t # "EMERGENCY"
  \/ /\ (s = "EMERGENCY") = (t = "EMERGENCY")
     /\ \/ SlotPriority[s] > SlotPriority[t]
        \/ /\ SlotPriority[s] = SlotPriority[t]
           /\ slots[s].age < slots[t].age

\* select_candidate: the candidates to which no other is preferred.
Selected(slots, emergencyMode) ==
  {s \in Candidates(slots, emergencyMode) :
     \A t \in Candidates(slots, emergencyMode) : ~Preferred(slots, t, s)}

\* What arbitrate_and_publish sends: nothing if no candidate is fresh or the
\* one selected is invalid, whatever the others are.
Published(slots, emergencyMode) ==
  {s \in Selected(slots, emergencyMode) : slots[s].valid}
=============================================================================
