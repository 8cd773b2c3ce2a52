----------------------------- MODULE RcGuard_proofs -----------------------------
(***************************************************************************)
(* Proof that RcGuard's types are right, and with them its bounds, for     *)
(* every queue size, cooldown and retry interval.                          *)
(***************************************************************************)
EXTENDS RcGuard, SequenceTheorems, TLAPS

USE RequireOffboardAssumption, IntervalAssumption, RcQueueAssumption,
    ChoicesAssumption

\* What the queue holds: PX4's modes, no more of them than it has room for.
LEMMA TopicTyped ==
  ASSUME RcTypeOK
  PROVE  /\ topic \in Seq(Mode) /\ Len(topic) \in Nat /\ Len(topic) <= QueueSize
         /\ mode \in Mode
BY DEF RcTypeOK

LEMMA RcInitTyped == RcInit => RcTypeOK
<1> SUFFICES ASSUME RcInit PROVE RcTypeOK
  OBVIOUS
<1>1. topic \in Seq(Mode) /\ Len(topic) = 0
  BY DEF RcInit
<1> QED
  BY <1>1 DEF RcInit, RcTypeOK, Mode, SwitchState

LEMMA StateCbTyped ==
  ASSUME RcTypeOK, StateCb
  PROVE  RcTypeOK'
<1>1. /\ Head(topic) \in Mode /\ Tail(topic) \in Seq(Mode)
      /\ Len(Tail(topic)) = Len(topic) - 1
  BY TopicTyped, HeadTailProperties DEF StateCb
<1>2. topic' \in Seq(Mode) /\ Len(topic') <= QueueSize /\ known' \in Mode
  BY <1>1, TopicTyped DEF StateCb
<1> QED
  BY <1>2 DEF StateCb, supervisor, pilot, RcTypeOK

LEMMA PublishStateTyped ==
  ASSUME RcTypeOK, PublishState
  PROVE  RcTypeOK'
<1> DEFINE kept == IF Len(topic) = QueueSize THEN Tail(topic) ELSE topic
<1>1. kept \in Seq(Mode) /\ Len(kept) \in Nat /\ Len(kept) < QueueSize
  <2>1. CASE Len(topic) = QueueSize
    <3>1. topic # << >>
      BY <2>1
    <3>2. Tail(topic) \in Seq(Mode) /\ Len(Tail(topic)) = Len(topic) - 1
      BY <3>1, TopicTyped, HeadTailProperties
    <3> QED
      BY <2>1, <3>2
  <2>2. CASE Len(topic) # QueueSize
    BY <2>2, TopicTyped
  <2> QED
    BY <2>1, <2>2
<1> HIDE DEF kept
<1>2. Append(kept, mode) \in Seq(Mode) /\ Len(Append(kept, mode)) = Len(kept) + 1
  BY <1>1, TopicTyped
<1>3. topic' = Append(kept, mode)
  BY DEF PublishState, kept
<1>4. topic' \in Seq(Mode) /\ Len(topic') <= QueueSize
  BY <1>1, <1>2, <1>3
<1> QED
  BY <1>4 DEF PublishState, supervisor, pilot, RcTypeOK

LEMMA RcStepTyped == RcTypeOK /\ [Next]_vars => RcTypeOK'
<1> SUFFICES ASSUME RcTypeOK, [Next]_vars PROVE RcTypeOK'
  OBVIOUS
<1> USE DEF supervisor, guard, pilot
<1>1. CASE RcCb
  BY <1>1 DEF RcCb, RcTypeOK, Mode
<1>2. CASE Fly
  BY <1>2 DEF Fly, RcTypeOK
<1>3. CASE Sees
  BY <1>3 DEF Sees, RcTypeOK
<1>4. CASE EnsureMode
  BY <1>4 DEF EnsureMode, RcTypeOK, Mode
<1>5. CASE MoveSwitch
  BY <1>5 DEF MoveSwitch, RcTypeOK
<1>6. CASE ChooseMode
  BY <1>6 DEF ChooseMode, RcTypeOK
<1>7. CASE Tick
  BY <1>7 DEF Tick, RcTypeOK
<1>8. CASE UNCHANGED vars
  BY <1>8 DEF vars, RcTypeOK
<1> QED
  BY <1>1, <1>2, <1>3, <1>4, <1>5, <1>6, <1>7, <1>8, StateCbTyped,
     PublishStateTyped DEF Next

-----------------------------------------------------------------------------
\* The guard's queue never holds more than its size, and neither clock passes
\* the interval it is compared with.
THEOREM RcTypeCorrect == Spec => []RcTypeOK
  BY RcInitTyped, RcStepTyped, PTL DEF Spec

=============================================================================
