-------------------------- MODULE SunrayHelper_proofs --------------------------
(***************************************************************************)
(* Proof that a blocking take-off, landing or return reports success only  *)
(* for a flight of its own: for every queue of the client, every request   *)
(* of others, and however late messages and answers are.                   *)
(***************************************************************************)
EXTENDS SunrayHelper, TLAPS

\* No message of the topic says s.
Unheard(s) == \A i \in 1..Len(topic) : topic[i] # s

\* As many of the newest messages as rounds have gone by in this flight state
\* say so.
RecentAreCurrent ==
  \A i \in 1..Len(topic) : i > Len(topic) - stay => topic[i] = fsm

\* Nothing is delivered before the subscription is established.
UnlinkedHasNothing == ~linked => topic = << >>

\* A state that lasts flushes the queue: what a call will wait for has no
\* message under way when the call can be accepted.
OldFlightForgotten ==
  /\ fsm \notin {"OFF", "TAKEOFF", "EMERGENCY_LAND"} => Unheard("OFF")
  /\ fsm \in {"OFF", "TAKEOFF"} => Unheard("HOVER")

Active == pc \in {"called", "wait"}

\* While a call waits for a state that has not been entered, neither a message
\* nor the cache says that it has.
WaitsUnfooled ==
  Active /\ op \in HelperOps /\ ~reached
    => /\ Unheard(Calls[op].awaits)
       /\ IF op = "takeoff" THEN fsm \in {"OFF", "TAKEOFF", "EMERGENCY_LAND"}
                            ELSE fsm # "OFF"
       /\ pc = "wait" => cache.state # Calls[op].awaits

HInv ==
  /\ HelperTypeOK
  /\ queue \in Seq(SunrayEvent \ Ends)
  /\ RecentAreCurrent
  /\ UnlinkedHasNothing
  /\ OldFlightForgotten
  /\ WaitsUnfooled
  /\ SuccessWasReached

USE QueueSizeAssumption, MinStayAssumption, OthersAssumption, OpsAssumption

-----------------------------------------------------------------------------
(* The table, and what calls ask for and await.                            *)

LEMMA TransitionFacts ==
  ASSUME NEW s, NEW e, NEW t, <<s, e, t>> \in Transitions
  PROVE  /\ t = "TAKEOFF" => s = "OFF"
         /\ t = "OFF" => e \in Ends /\ s \in LandingStates
         /\ t = "HOVER" => e \in Ends \/ s \notin {"OFF", "TAKEOFF", "EMERGENCY_LAND"}
         /\ s = "OFF" => t = "TAKEOFF"
         /\ s = "TAKEOFF" => t \in {"HOVER", "EMERGENCY_LAND"}
         /\ s = "EMERGENCY_LAND" => t = "OFF"
         /\ e \in {"LAND_REQUEST", "RETURN_REQUEST"}
              => s \notin {"OFF", "TAKEOFF", "EMERGENCY_LAND"}
         /\ e = "TAKEOFF_REQUEST" => s = "OFF"
BY DEF Transitions, Interruptible, ControlStates, LandingStates, SunrayState,
       Enter, Completed, Ends

LEMMA CallFacts ==
  /\ \A o \in Ops : Calls[o].request \in SunrayEvent \ Ends
  /\ \A o \in Ops : Calls[o].awaits \in {"OFF", "HOVER"}
  /\ \A o \in Ops : Calls[o].writes # "nothing"
       => Calls[o].writes \in SunrayState /\ Calls[o].writes # Calls[o].awaits
  /\ \A o \in HelperOps : o \in Ops =>
       /\ Calls[o].writes # "nothing"
       /\ Calls[o].awaits = IF o = "takeoff" THEN "HOVER" ELSE "OFF"
       /\ Calls[o].request \in IF o = "takeoff" THEN {"TAKEOFF_REQUEST"}
                               ELSE {"LAND_REQUEST", "RETURN_REQUEST"}
BY DEF Calls, Call, HelperOps, SunrayEvent, SunrayState, Ends, LandingStates,
       ControlStates, Enter, Completed

LEMMA RequestsQueueable ==
  /\ Others \subseteq SunrayEvent \ Ends
  /\ "LAND_REQUEST" \in SunrayEvent \ Ends
BY DEF SunrayEvent, Ends

LEMMA QueueEventTyped ==
  ASSUME queue \in Seq(SunrayEvent \ Ends), NEW e \in SunrayEvent \ Ends, QueueEvent(e)
  PROVE  queue' \in Seq(SunrayEvent \ Ends) /\ queue' \in Seq(SunrayEvent)
BY DEF QueueEvent

LEMMA InitInv == HelperInit => HInv
<1> SUFFICES ASSUME HelperInit PROVE HInv
  OBVIOUS
<1>1. fsm \in SunrayState /\ cache \in [state : SunrayState, received : BOOLEAN]
  BY DEF HelperInit, SunrayState
<1>2. /\ stay \in 0..MinStay /\ Len(topic) <= QueueSize
      /\ queue \in Seq(SunrayEvent) /\ topic \in Seq(SunrayState)
  BY DEF HelperInit
<1>3. HelperTypeOK
  BY <1>1, <1>2, Zenon DEF HelperInit, HelperTypeOK
<1> QED
  BY <1>3 DEF HelperInit, HInv, RecentAreCurrent, UnlinkedHasNothing,
              OldFlightForgotten, Unheard, WaitsUnfooled, Active, SuccessWasReached

-----------------------------------------------------------------------------
(* The flight state changes: the queue may be told of it, the topic not.   *)

LEMMA FlushedTopic ==
  ASSUME HInv, stay = MinStay
  PROVE  \A s : s # fsm => Unheard(s)
<1>1. Len(topic) \in Nat /\ Len(topic) <= QueueSize
  BY DEF HInv, HelperTypeOK
<1>2. \A i \in 1..Len(topic) : i > Len(topic) - stay
  BY <1>1
<1> QED
  BY <1>2 DEF HInv, RecentAreCurrent, Unheard

LEMMA BecomeInv ==
  ASSUME HInv, NEW e, NEW t,
         t \in Resolve(fsm, e, TRUE) \/ t = fsm,
         e \in Ends => stay = MinStay,
         Become(t), UNCHANGED <<topic, client>>
  PROVE  /\ fsm' \in SunrayState /\ stay' \in 0..MinStay /\ reached' \in BOOLEAN
         /\ RecentAreCurrent' /\ UnlinkedHasNothing' /\ OldFlightForgotten'
         /\ WaitsUnfooled' /\ SuccessWasReached'
<1>1. fsm' \in SunrayState /\ stay' \in 0..MinStay /\ reached' \in BOOLEAN
  BY DEF HInv, HelperTypeOK, Become, Resolve
<1>2. RecentAreCurrent'
  <2>1. CASE t = fsm
    BY <2>1 DEF HInv, RecentAreCurrent, Become
  <2>2. CASE t # fsm
    <3>1. stay' = 0 /\ Len(topic') \in Nat
      BY <2>2 DEF HInv, HelperTypeOK, Become
    <3> QED
      BY <3>1 DEF RecentAreCurrent
  <2> QED
    BY <2>1, <2>2
<1>3. t # fsm => <<fsm, e, t>> \in Transitions
  BY DEF Resolve
<1>4. OldFlightForgotten'
  <2>1. CASE t = fsm
    BY <2>1 DEF HInv, OldFlightForgotten, Unheard, Become
  <2>2. CASE t # fsm
    <3>1. t \in {"OFF", "HOVER"} /\ e \in Ends => \A s : s # fsm => Unheard(s)
      BY FlushedTopic
    <3>2. fsm' = t
      BY DEF Become
    <3>3. t \notin {"OFF", "TAKEOFF", "EMERGENCY_LAND"} => Unheard("OFF")
      BY <3>1, <2>2, <1>3, TransitionFacts DEF HInv, OldFlightForgotten
    <3>4. t \in {"OFF", "TAKEOFF"} => Unheard("HOVER")
      BY <3>1, <2>2, <1>3, TransitionFacts DEF HInv, OldFlightForgotten, LandingStates
    <3> QED
      BY <3>2, <3>3, <3>4 DEF OldFlightForgotten, Unheard
  <2> QED
    BY <2>1, <2>2
<1>5. WaitsUnfooled'
  <2> SUFFICES ASSUME Active, op \in HelperOps, ~reached'
               PROVE  /\ Unheard(Calls[op].awaits)
                      /\ IF op = "takeoff" THEN t \in {"OFF", "TAKEOFF", "EMERGENCY_LAND"}
                                           ELSE t # "OFF"
                      /\ pc = "wait" => cache.state # Calls[op].awaits
    BY DEF WaitsUnfooled, Active, Unheard, Become, client
  <2>1. ~reached /\ (t # fsm => t # Calls[op].awaits)
    BY DEF Become
  <2>2. op \in Ops
    BY DEF HInv, HelperTypeOK
  <2> QED
    BY <2>1, <2>2, <1>3, CallFacts, TransitionFacts DEF HInv, WaitsUnfooled
<1>6. SuccessWasReached'
  BY DEF HInv, SuccessWasReached, Become, client
<1>7. UnlinkedHasNothing'
  BY DEF HInv, UnlinkedHasNothing, client
<1> QED
  BY <1>1, <1>2, <1>4, <1>5, <1>6, <1>7

LEMMA HandleInv == HInv /\ Handle => HInv'
<1> SUFFICES ASSUME HInv, Handle PROVE HInv'
  OBVIOUS
<1>1. /\ Head(queue) \in SunrayEvent \ Ends
      /\ queue' \in Seq(SunrayEvent \ Ends)
  BY DEF HInv, Handle
<1>2. PICK t \in Resolve(fsm, Head(queue), TRUE) \cup {fsm} : Become(t)
  BY DEF Handle
<1>3. UNCHANGED <<topic, client>> /\ owed' \in BOOLEAN /\ round' = round
  BY DEF Handle, HInv, HelperTypeOK
<1>4. /\ fsm' \in SunrayState /\ stay' \in 0..MinStay /\ reached' \in BOOLEAN
      /\ RecentAreCurrent' /\ UnlinkedHasNothing' /\ OldFlightForgotten'
      /\ WaitsUnfooled' /\ SuccessWasReached'
  BY <1>1, <1>2, <1>3, BecomeInv
<1>5. queue' \in Seq(SunrayEvent)
  BY <1>1
<1>6. HelperTypeOK'
  BY <1>3, <1>4, <1>5 DEF HelperTypeOK, HInv, client
<1> QED
  BY <1>1, <1>4, <1>6 DEF HInv

LEMMA CompleteInv == HInv /\ Complete => HInv'
<1> SUFFICES ASSUME HInv, Complete PROVE HInv'
  OBVIOUS
<1>1. PICK e \in {"TAKEOFF_COMPLETED", "RETURN_COMPLETED", "LAND_COMPLETED",
                  "EMERGENCY_COMPLETED", "POSITION_COMPLETED"} :
        /\ e \in {"RETURN_COMPLETED", "POSITION_COMPLETED"} \/ stay = MinStay
        /\ \E t \in Resolve(fsm, e, TRUE) : Become(t)
        /\ owed' = (e = "RETURN_COMPLETED")
  BY DEF Complete
<1>2. PICK t \in Resolve(fsm, e, TRUE) : Become(t)
  BY <1>1
<1>3. UNCHANGED <<topic, client>> /\ queue' = queue
      /\ owed' \in BOOLEAN /\ round' \in {"handle", "publish"}
  BY <1>1 DEF Complete
<1>4. e \in Ends => stay = MinStay
  BY <1>1 DEF Ends
<1>5. /\ fsm' \in SunrayState /\ stay' \in 0..MinStay /\ reached' \in BOOLEAN
      /\ RecentAreCurrent' /\ UnlinkedHasNothing' /\ OldFlightForgotten'
      /\ WaitsUnfooled' /\ SuccessWasReached'
  BY <1>2, <1>3, <1>4, BecomeInv
<1>6. HelperTypeOK'
  BY <1>3, <1>5 DEF HelperTypeOK, HInv, client
<1> QED
  BY <1>3, <1>5, <1>6 DEF HInv

-----------------------------------------------------------------------------
(* The flight state is left alone.                                         *)

\* Nor do the topic and the client change.
LEMMA FrameInv ==
  ASSUME HInv, HelperTypeOK', queue' \in Seq(SunrayEvent \ Ends),
         UNCHANGED <<fsm, stay, topic, client, reached>>
  PROVE  HInv'
BY DEF HInv, RecentAreCurrent, UnlinkedHasNothing, OldFlightForgotten, Unheard,
       WaitsUnfooled, Active, SuccessWasReached, client

LEMMA QueueInv ==
  ASSUME HInv, OtherRequest \/ LandAfterReturn \/ EndHandling
  PROVE  HInv'
<1>1. queue' \in Seq(SunrayEvent \ Ends) /\ queue' \in Seq(SunrayEvent)
  <2>1. CASE OtherRequest
    BY <2>1, RequestsQueueable, QueueEventTyped DEF OtherRequest, HInv
  <2>2. CASE LandAfterReturn
    BY <2>2, RequestsQueueable, QueueEventTyped DEF LandAfterReturn, HInv
  <2>3. CASE EndHandling
    BY <2>3 DEF EndHandling, HInv, HelperTypeOK
  <2> QED
    BY <2>1, <2>2, <2>3
<1>2. UNCHANGED <<fsm, stay, topic, client, reached>>
  BY DEF OtherRequest, LandAfterReturn, EndHandling, server
<1>3. owed' \in BOOLEAN /\ round' \in {"handle", "publish"}
  BY DEF OtherRequest, LandAfterReturn, EndHandling, server, HInv, HelperTypeOK
<1>4. HelperTypeOK'
  BY <1>1, <1>2, <1>3 DEF HelperTypeOK, HInv, client
<1> QED
  BY <1>1, <1>2, <1>4, FrameInv

\* The messages under way are old ones or say what is true now.
LEMMA NewsInv ==
  ASSUME HInv, topic' \in Seq(SunrayState), UNCHANGED <<fsm, op>>,
         \A i \in 1..Len(topic') :
           topic'[i] = fsm \/ \E j \in 1..Len(topic) : topic'[i] = topic[j],
         NEW s, Unheard(s), fsm # s
  PROVE  Unheard(s)'
BY DEF Unheard

LEMMA PublishInv == HInv /\ Publish => HInv'
<1> SUFFICES ASSUME HInv, Publish PROVE HInv'
  OBVIOUS
<1> DEFINE kept == IF Len(topic) = QueueSize THEN Tail(topic) ELSE topic
<1>1. /\ topic \in Seq(SunrayState) /\ fsm \in SunrayState
      /\ Len(topic) <= QueueSize /\ stay \in 0..MinStay
  BY DEF HInv, HelperTypeOK
<1>2. /\ UNCHANGED <<fsm, owed, queue, client, reached>>
      /\ stay' = IF stay < MinStay THEN stay + 1 ELSE stay
      /\ topic' = IF ~linked THEN topic ELSE Append(kept, fsm)
      /\ round' = "handle"
  BY DEF Publish
<1>3. stay' \in 0..MinStay
  BY <1>1, <1>2
<1>4. /\ kept \in Seq(SunrayState) /\ Len(kept) < QueueSize
      /\ \A i \in 1..Len(kept) :
           /\ \E j \in 1..Len(topic) : kept[i] = topic[j]
           /\ i > Len(kept) - stay => kept[i] = fsm
  <2>1. CASE Len(topic) = QueueSize
    <3>1. /\ kept = Tail(topic) /\ topic # << >>
          /\ Len(kept) = Len(topic) - 1 /\ kept \in Seq(SunrayState)
          /\ \A i \in 1..Len(kept) : kept[i] = topic[i + 1]
      BY <2>1, <1>1
    <3> QED
      BY <3>1, <1>1 DEF HInv, RecentAreCurrent
  <2>2. CASE Len(topic) # QueueSize
    BY <2>2, <1>1 DEF HInv, RecentAreCurrent
  <2> QED
    BY <2>1, <2>2
<1> HIDE DEF kept
<1>5. /\ topic' \in Seq(SunrayState) /\ Len(topic') <= QueueSize
      /\ \A i \in 1..Len(topic') :
           topic'[i] = fsm \/ \E j \in 1..Len(topic) : topic'[i] = topic[j]
  <2>1. CASE linked
    <3>1. topic' = Append(kept, fsm)
      BY <2>1, <1>2
    <3>2. topic' \in Seq(SunrayState) /\ Len(topic') = Len(kept) + 1
      BY <3>1, <1>1, <1>4
    <3>3. \A i \in 1..Len(topic') : topic'[i] = fsm \/ (i \in 1..Len(kept) /\ topic'[i] = kept[i])
      BY <3>1, <1>1, <1>4
    <3> QED
      BY <3>2, <3>3, <1>4
  <2>2. CASE ~linked
    BY <2>2, <1>1, <1>2
  <2> QED
    BY <2>1, <2>2
<1>6. RecentAreCurrent'
  <2>1. CASE linked
    <3>1. /\ Len(topic') = Len(kept) + 1 /\ topic'[Len(kept) + 1] = fsm
          /\ \A i \in 1..Len(kept) : topic'[i] = kept[i]
      BY <2>1, <1>1, <1>2, <1>4
    <3>2. \A i \in 1..Len(kept) : i > Len(topic') - stay' => topic'[i] = fsm
      BY <3>1, <1>1, <1>2, <1>4
    <3> QED
      BY <3>1, <3>2, <1>2, <1>4 DEF RecentAreCurrent
  <2>2. CASE ~linked
    BY <2>2, <1>2 DEF HInv, UnlinkedHasNothing, RecentAreCurrent
  <2> QED
    BY <2>1, <2>2
<1>7. UNCHANGED <<linked, cache, pc, op, result>>
  BY <1>2 DEF client
<1>8. \A s : Unheard(s) /\ fsm # s => Unheard(s)'
  BY <1>2, <1>5, <1>7, NewsInv
<1>9. HelperTypeOK'
  BY <1>2, <1>3, <1>5, <1>7 DEF HelperTypeOK, HInv
<1>10. OldFlightForgotten'
  BY <1>2, <1>8 DEF HInv, OldFlightForgotten, Unheard
<1>11. WaitsUnfooled'
  <2> SUFFICES ASSUME Active, op \in HelperOps, ~reached
               PROVE  Unheard(Calls[op].awaits)'
    BY <1>2, <1>7 DEF HInv, WaitsUnfooled, Active
  <2>1. op \in Ops
    BY DEF HInv, HelperTypeOK
  <2>2. Unheard(Calls[op].awaits) /\ fsm # Calls[op].awaits
    BY <2>1, CallFacts DEF HInv, WaitsUnfooled
  <2>3. Calls' = Calls /\ op' = op
    BY <1>7 DEF Calls, Call
  <2> QED
    BY <1>8, <2>2, <2>3 DEF Unheard
<1>12. UnlinkedHasNothing' /\ SuccessWasReached'
  BY <1>2, <1>7 DEF HInv, UnlinkedHasNothing, SuccessWasReached
<1> QED
  BY <1>2, <1>6, <1>9, <1>10, <1>11, <1>12 DEF HInv

-----------------------------------------------------------------------------
(* The client hears of it.                                                 *)

LEMMA LinkInv == HInv /\ Link => HInv'
<1> SUFFICES ASSUME HInv, Link PROVE HInv'
  OBVIOUS
<1>1. /\ UNCHANGED <<fsm, stay, owed, queue, round, cache, pc, op, result, reached>>
      /\ linked' = TRUE /\ topic' = <<fsm>>
  BY DEF Link, server
<1>2. fsm \in SunrayState /\ op \in Ops
  BY DEF HInv, HelperTypeOK
<1>3. /\ topic' \in Seq(SunrayState) /\ Len(topic') = 1
      /\ \A i \in 1..Len(topic') : topic'[i] = fsm
  BY <1>1, <1>2
<1>4. Len(topic') <= QueueSize
  BY <1>3
<1>5. HelperTypeOK'
  BY <1>1, <1>3, <1>4 DEF HelperTypeOK, HInv
<1>6. \A s : fsm # s => Unheard(s)'
  BY <1>3 DEF Unheard
<1>7. OldFlightForgotten'
  BY <1>1, <1>6 DEF OldFlightForgotten, Unheard
<1>8. WaitsUnfooled'
  <2> SUFFICES ASSUME Active, op \in HelperOps, ~reached
               PROVE  Unheard(Calls[op].awaits)'
    BY <1>1 DEF HInv, WaitsUnfooled, Active
  <2>1. fsm # Calls[op].awaits
    BY <1>2, CallFacts DEF HInv, WaitsUnfooled
  <2> QED
    BY <1>1, <1>6, <2>1 DEF Unheard
<1> QED
  BY <1>1, <1>3, <1>5, <1>7, <1>8
     DEF HInv, RecentAreCurrent, UnlinkedHasNothing, SuccessWasReached

\* Messages are taken from the topic, oldest first.
LEMMA TakenInv ==
  ASSUME HInv, UNCHANGED <<fsm, stay, linked>>,
         topic' = << >> \/ (topic # << >> /\ topic' = Tail(topic))
  PROVE  /\ topic' \in Seq(SunrayState) /\ Len(topic') <= QueueSize
         /\ RecentAreCurrent' /\ UnlinkedHasNothing' /\ OldFlightForgotten'
         /\ \A s : Unheard(s) => Unheard(s)'
<1>1. topic \in Seq(SunrayState) /\ Len(topic) <= QueueSize /\ stay \in 0..MinStay
  BY DEF HInv, HelperTypeOK
<1>2. CASE topic' = << >>
  BY <1>2, <1>1 DEF RecentAreCurrent, UnlinkedHasNothing, OldFlightForgotten, Unheard
<1>3. CASE topic # << >> /\ topic' = Tail(topic)
  <2>1. /\ topic' \in Seq(SunrayState) /\ Len(topic') = Len(topic) - 1
        /\ Len(topic) \in Nat
        /\ \A i \in 1..Len(topic') : topic'[i] = topic[i + 1]
    BY <1>1, <1>3
  <2>2. RecentAreCurrent'
    BY <1>1, <2>1 DEF HInv, RecentAreCurrent
  <2>3. \A s : Unheard(s) => Unheard(s)'
    BY <2>1 DEF Unheard
  <2>4. OldFlightForgotten'
    BY <2>3 DEF HInv, OldFlightForgotten, Unheard
  <2>5. UnlinkedHasNothing'
    BY <1>3 DEF HInv, UnlinkedHasNothing
  <2> QED
    BY <1>1, <2>1, <2>2, <2>3, <2>4, <2>5
<1> QED
  BY <1>2, <1>3

LEMMA DeliverInv == HInv /\ Deliver => HInv'
<1> SUFFICES ASSUME HInv, Deliver PROVE HInv'
  OBVIOUS
<1>1. /\ UNCHANGED <<fsm, stay, owed, round, queue, linked, pc, op, result, reached>>
      /\ topic # << >> /\ topic' = Tail(topic)
      /\ cache' = [state |-> topic[1], received |-> TRUE]
  BY DEF Deliver, server, HInv, HelperTypeOK
<1>2. topic \in Seq(SunrayState) /\ 1 \in 1..Len(topic)
  BY <1>1 DEF HInv, HelperTypeOK
<1>3. cache' \in [state : SunrayState, received : BOOLEAN] /\ cache'.state = topic[1]
  BY <1>1, <1>2
<1>4. /\ topic' \in Seq(SunrayState) /\ Len(topic') <= QueueSize
      /\ RecentAreCurrent' /\ UnlinkedHasNothing' /\ OldFlightForgotten'
      /\ \A s : Unheard(s) => Unheard(s)'
  BY <1>1, TakenInv
<1>5. HelperTypeOK'
  BY <1>1, <1>3, <1>4 DEF HelperTypeOK, HInv
<1>6. WaitsUnfooled'
  <2> SUFFICES ASSUME Active, op \in HelperOps, ~reached
               PROVE  Unheard(Calls[op].awaits)' /\ topic[1] # Calls[op].awaits
    BY <1>1, <1>3 DEF HInv, WaitsUnfooled, Active
  <2>1. Unheard(Calls[op].awaits)
    BY DEF HInv, WaitsUnfooled
  <2> QED
    BY <1>1, <1>2, <1>4, <2>1 DEF Unheard
<1> QED
  BY <1>1, <1>4, <1>5, <1>6 DEF HInv, SuccessWasReached

-----------------------------------------------------------------------------
(* The call.                                                               *)

LEMMA BeginInv == ASSUME NEW o \in Ops, HInv, Begin(o) PROVE HInv'
<1>1. /\ UNCHANGED <<fsm, stay, owed, round, topic, linked, cache>>
      /\ op' = o /\ reached' = FALSE
  BY DEF Begin, server
<1>2. CASE Taken(Calls[o].request)
  <2>1. pc' = "called" /\ result' = "none" /\ QueueEvent(Calls[o].request)
    BY <1>2 DEF Begin
  <2>2. queue' \in Seq(SunrayEvent \ Ends) /\ queue' \in Seq(SunrayEvent)
    BY <2>1, CallFacts, QueueEventTyped DEF HInv
  <2>3. HelperTypeOK'
    BY <1>1, <2>1, <2>2 DEF HelperTypeOK, HInv
  <2>4. PICK t : <<fsm, Calls[o].request, t>> \in Transitions
    BY <1>2 DEF Taken, Resolve
  <2>5. o \in HelperOps =>
          IF o = "takeoff" THEN fsm = "OFF" ELSE fsm \notin {"OFF", "TAKEOFF", "EMERGENCY_LAND"}
    BY <2>4, CallFacts, TransitionFacts
  <2>6. o \in HelperOps => Unheard(Calls[o].awaits)
    BY <2>5, CallFacts DEF HInv, OldFlightForgotten
  <2>7. WaitsUnfooled'
    BY <1>1, <2>1, <2>5, <2>6 DEF WaitsUnfooled, Unheard
  <2> QED
    BY <1>1, <2>1, <2>2, <2>3, <2>7
       DEF HInv, RecentAreCurrent, UnlinkedHasNothing, OldFlightForgotten, Unheard,
           SuccessWasReached
<1>3. CASE ~Taken(Calls[o].request)
  <2>1. pc' = "idle" /\ result' = "false" /\ queue' = queue
    BY <1>3 DEF Begin
  <2>2. HelperTypeOK'
    BY <1>1, <2>1 DEF HelperTypeOK, HInv
  <2> QED
    BY <1>1, <2>1, <2>2
       DEF HInv, RecentAreCurrent, UnlinkedHasNothing, OldFlightForgotten, Unheard,
           WaitsUnfooled, Active, SuccessWasReached
<1> QED
  BY <1>2, <1>3

LEMMA AnswerInv == HInv /\ Answer => HInv'
<1> SUFFICES ASSUME HInv, Answer PROVE HInv'
  OBVIOUS
<1>1. /\ UNCHANGED <<fsm, stay, owed, round, queue, topic, linked, op, result, reached>>
      /\ pc = "called" /\ pc' = "wait"
      /\ cache' = IF Calls[op].writes = "nothing" THEN cache
                  ELSE [state |-> Calls[op].writes, received |-> TRUE]
  BY DEF Answer, server
<1>2. op \in Ops /\ cache \in [state : SunrayState, received : BOOLEAN]
  BY DEF HInv, HelperTypeOK
<1>3. cache' \in [state : SunrayState, received : BOOLEAN]
  BY <1>1, <1>2, CallFacts
<1>4. op \in HelperOps => cache'.state # Calls[op].awaits
  BY <1>1, <1>2, CallFacts
<1>5. HelperTypeOK'
  BY <1>1, <1>3 DEF HelperTypeOK, HInv
<1>6. WaitsUnfooled'
  BY <1>1, <1>4 DEF HInv, WaitsUnfooled, Active, Unheard
<1> QED
  BY <1>1, <1>5, <1>6
     DEF HInv, RecentAreCurrent, UnlinkedHasNothing, OldFlightForgotten, Unheard,
         SuccessWasReached

LEMMA PollInv == HInv /\ Poll => HInv'
<1> SUFFICES ASSUME HInv, Poll PROVE HInv'
  OBVIOUS
<1>1. /\ UNCHANGED <<fsm, stay, owed, round, queue, linked, op, reached>>
      /\ pc = "wait" /\ cache' = Latest /\ topic' = << >>
      /\ IF Sees(op) THEN pc' = "idle" /\ result' = "true"
                     ELSE UNCHANGED <<pc, result>>
  BY DEF Poll, server
<1>2. /\ topic \in Seq(SunrayState) /\ op \in Ops
      /\ cache \in [state : SunrayState, received : BOOLEAN]
  BY DEF HInv, HelperTypeOK
<1>3. topic # << >> => Len(topic) \in 1..Len(topic) /\ topic[Len(topic)] \in SunrayState
  BY <1>2
<1>4. cache' \in [state : SunrayState, received : BOOLEAN]
  BY <1>1, <1>2, <1>3 DEF Latest
<1>5. /\ topic' \in Seq(SunrayState) /\ Len(topic') <= QueueSize
      /\ RecentAreCurrent' /\ UnlinkedHasNothing' /\ OldFlightForgotten'
      /\ \A s : Unheard(s) => Unheard(s)'
  BY <1>1, TakenInv
<1>6. HelperTypeOK'
  BY <1>1, <1>4, <1>5 DEF HelperTypeOK, HInv
<1>7. op \in HelperOps /\ ~reached => Latest.state # Calls[op].awaits
  BY <1>1, <1>3 DEF HInv, WaitsUnfooled, Active, Unheard, Latest
<1>8. WaitsUnfooled'
  BY <1>1, <1>5, <1>7 DEF HInv, WaitsUnfooled, Active, Unheard
<1>9. SuccessWasReached'
  BY <1>1, <1>7 DEF HInv, SuccessWasReached, Sees
<1> QED
  BY <1>1, <1>5, <1>6, <1>8, <1>9 DEF HInv

LEMMA GiveUpInv == HInv /\ GiveUp => HInv'
<1> SUFFICES ASSUME HInv, GiveUp PROVE HInv'
  OBVIOUS
<1>1. /\ UNCHANGED <<fsm, stay, owed, round, queue, topic, linked, cache, op, reached>>
      /\ pc' = "idle" /\ result' = "false"
  BY DEF GiveUp, server
<1>2. HelperTypeOK'
  BY <1>1 DEF HelperTypeOK, HInv
<1> QED
  BY <1>1, <1>2
     DEF HInv, RecentAreCurrent, UnlinkedHasNothing, OldFlightForgotten, Unheard,
         WaitsUnfooled, Active, SuccessWasReached

LEMMA NextInv == HInv /\ [Next]_vars => HInv'
<1> SUFFICES ASSUME HInv, [Next]_vars PROVE HInv'
  OBVIOUS
<1>1. CASE OtherRequest
  BY <1>1, QueueInv
<1>2. CASE Supervisor
  BY <1>2, HandleInv, CompleteInv, QueueInv, PublishInv DEF Supervisor
<1>3. CASE Client
  BY <1>3, LinkInv, DeliverInv, BeginInv, AnswerInv, PollInv, GiveUpInv DEF Client
<1>4. CASE UNCHANGED vars
  <2>1. UNCHANGED <<fsm, stay, topic, client, reached, owed, round, queue>>
    BY <1>4 DEF vars, server
  <2>2. HelperTypeOK'
    BY <2>1 DEF HelperTypeOK, HInv, client
  <2> QED
    BY <2>1, <2>2, FrameInv DEF HInv
<1> QED
  BY <1>1, <1>2, <1>3, <1>4 DEF Next

\* The inductive invariant: it is why a call cannot take a message of the flight
\* before for its own.
THEOREM HelperInvariant == Spec => []HInv
<1> QED
  BY InitInv, NextInv, PTL DEF Spec

\* The client's cache, its queue of messages and the supervisor's events keep
\* their types, and the queue its bound.
THEOREM HelperTypeCorrect == Spec => []HelperTypeOK
<1>1. HInv => HelperTypeOK
  BY DEF HInv
<1> QED
  BY <1>1, HelperInvariant, PTL

\* A blocking take-off, landing or return that reports success was flown after
\* it was accepted, for every queue shorter than the shortest take-off or landing.
THEOREM SuccessIsReached == Spec => []SuccessWasReached
<1>1. HInv => SuccessWasReached
  BY DEF HInv
<1> QED
  BY <1>1, HelperInvariant, PTL

-----------------------------------------------------------------------------
(* The group's calls.  They leave the cache alone, and rest on the newest  *)
(* message only.                                                           *)

\* What a blocking call writes into the cache is none of these.
Awaited == {"OFF", "HOVER"}

\* Once a round has gone by in this flight state the newest message says so.
NewestIsCurrent ==
  Latest.received /\ Latest.state \in Awaited
    => linked /\ (stay > 0 => Latest.state = fsm)

NewestForgotten ==
  Latest.received
    => /\ fsm \notin {"OFF", "TAKEOFF", "EMERGENCY_LAND"} => Latest.state # "OFF"
       /\ fsm \in {"OFF", "TAKEOFF"} => Latest.state # "HOVER"

GroupUnfooled ==
  Active /\ op \in GroupOps /\ ~reached
    => /\ IF op = "group_takeoff" THEN fsm \in {"OFF", "TAKEOFF", "EMERGENCY_LAND"}
                                  ELSE fsm # "OFF"
       /\ Latest.received => Latest.state # Calls[op].awaits

GInv ==
  /\ NewestIsCurrent
  /\ NewestForgotten
  /\ GroupUnfooled
  /\ Active => result = "none"

LEMMA GroupCallFacts ==
  /\ \A o \in Ops : Calls[o].writes \notin Awaited
  /\ \A o \in GroupOps :
       /\ Calls[o].writes = "nothing"
       /\ Calls[o].awaits = IF o = "group_takeoff" THEN "HOVER" ELSE "OFF"
       /\ Calls[o].request \in IF o = "group_takeoff" THEN {"TAKEOFF_REQUEST"}
                               ELSE {"LAND_REQUEST", "RETURN_REQUEST"}
BY DEF Calls, Call, GroupOps, Awaited

LEMMA InitG == HelperInit => GInv
BY DEF HelperInit, GInv, NewestIsCurrent, NewestForgotten, GroupUnfooled, Active,
       Latest, Awaited

\* The flight state changes, the newest message does not.
LEMMA BecomeG ==
  ASSUME HInv, GInv, NEW e, NEW t,
         t \in Resolve(fsm, e, TRUE) \/ t = fsm,
         e \in Ends => stay = MinStay,
         Become(t), UNCHANGED <<topic, client>>
  PROVE  GInv'
<1>1. fsm' = t /\ Latest' = Latest /\ UNCHANGED <<linked, pc, op, result>>
  BY DEF Become, Latest, client
<1>2. t # fsm => <<fsm, e, t>> \in Transitions
  BY DEF Resolve
<1>3. stay \in 0..MinStay /\ op \in Ops
  BY DEF HInv, HelperTypeOK
<1>4. NewestIsCurrent'
  <2>1. stay' > 0 => t = fsm /\ stay' = stay
    BY DEF Become
  <2> QED
    BY <1>1, <2>1 DEF GInv, NewestIsCurrent
<1>5. NewestForgotten'
  <2>1. CASE t = fsm
    BY <1>1, <2>1 DEF GInv, NewestForgotten
  <2>2. CASE t # fsm /\ e \in Ends
    <3>1. stay > 0
      BY <2>2
    <3>2. Latest.received /\ Latest.state \in Awaited => Latest.state = fsm
      BY <3>1 DEF GInv, NewestIsCurrent
    <3>3. Latest.received /\ t = "OFF" => Latest.state # "HOVER"
      BY <3>2, <2>2, <1>2, TransitionFacts DEF Awaited, LandingStates
    <3>4. Latest.received /\ t = "HOVER" => Latest.state # "OFF"
      BY <3>2, <2>2, <1>2, TransitionFacts DEF Awaited
    <3> QED
      BY <1>1, <1>2, <2>2, <3>3, <3>4, TransitionFacts DEF GInv, NewestForgotten
  <2>3. CASE t # fsm /\ e \notin Ends
    BY <1>1, <1>2, <2>3, TransitionFacts DEF GInv, NewestForgotten
  <2> QED
    BY <2>1, <2>2, <2>3
<1>6. GroupUnfooled'
  <2> SUFFICES ASSUME Active, op \in GroupOps, ~reached'
               PROVE  IF op = "group_takeoff"
                        THEN t \in {"OFF", "TAKEOFF", "EMERGENCY_LAND"} ELSE t # "OFF"
    BY <1>1 DEF GInv, GroupUnfooled, Active, Become, Calls, Call
  <2>1. ~reached /\ (t # fsm => t # Calls[op].awaits)
    BY DEF Become
  <2> QED
    BY <2>1, <1>2, GroupCallFacts, TransitionFacts DEF GInv, GroupUnfooled
<1> QED
  BY <1>1, <1>4, <1>5, <1>6 DEF GInv, Active

\* Nor does the flight state: the message is taken, or nothing happens to it.
LEMMA SameNewsG ==
  ASSUME GInv, Latest' = Latest, UNCHANGED <<fsm, stay, linked, op, reached>>,
         UNCHANGED <<pc, result>> \/ pc' = "idle"
  PROVE  GInv'
<1>1. Calls' = Calls
  BY DEF Calls, Call
<1> QED
  BY <1>1 DEF GInv, NewestIsCurrent, NewestForgotten, GroupUnfooled, Active

\* A message of the present arrives.
LEMMA FreshNewsG ==
  ASSUME HInv, GInv, linked', Latest' = [state |-> fsm, received |-> TRUE],
         UNCHANGED <<fsm, op, reached, pc, result>>
  PROVE  GInv'
<1>1. op \in Ops /\ Calls' = Calls
  BY DEF HInv, HelperTypeOK, Calls, Call
<1>2. Latest'.state = fsm
  OBVIOUS
<1>3. NewestIsCurrent' /\ NewestForgotten'
  BY <1>2 DEF NewestIsCurrent, NewestForgotten
<1>4. GroupUnfooled'
  BY <1>1, <1>2, GroupCallFacts DEF GInv, GroupUnfooled, Active
<1> QED
  BY <1>3, <1>4 DEF GInv, Active

LEMMA PublishG == HInv /\ GInv /\ Publish => GInv'
<1> SUFFICES ASSUME HInv, GInv, Publish PROVE GInv'
  OBVIOUS
<1>1. UNCHANGED <<fsm, linked, cache, pc, op, result, reached>>
  BY DEF Publish, client
<1>2. CASE linked
  <2> DEFINE kept == IF Len(topic) = QueueSize THEN Tail(topic) ELSE topic
  <2>1. topic \in Seq(SunrayState) /\ fsm \in SunrayState
    BY DEF HInv, HelperTypeOK
  <2>2. topic' = Append(kept, fsm)
    BY <1>2 DEF Publish
  <2>3. kept \in Seq(SunrayState)
    <3>1. CASE Len(topic) = QueueSize
      <4>1. topic # << >>
        BY <3>1
      <4> QED
        BY <2>1, <3>1, <4>1
    <3> QED
      BY <2>1, <3>1
  <2> HIDE DEF kept
  <2>4. topic' # << >> /\ topic'[Len(topic')] = fsm
    BY <2>1, <2>2, <2>3
  <2>5. Latest' = [state |-> fsm, received |-> TRUE]
    BY <2>4 DEF Latest
  <2> QED
    BY <1>1, <1>2, <2>5, FreshNewsG
<1>3. CASE ~linked
  <2>1. Latest' = Latest
    BY <1>1, <1>3 DEF Publish, Latest
  <2>2. NewestIsCurrent'
    BY <1>1, <1>3, <2>1 DEF GInv, NewestIsCurrent
  <2>3. Calls' = Calls
    BY DEF Calls, Call
  <2> QED
    BY <1>1, <2>1, <2>2, <2>3 DEF GInv, NewestForgotten, GroupUnfooled, Active
<1> QED
  BY <1>2, <1>3

LEMMA LinkG == HInv /\ GInv /\ Link => GInv'
<1> SUFFICES ASSUME HInv, GInv, Link PROVE GInv'
  OBVIOUS
<1>1. UNCHANGED <<fsm, op, reached, pc, result>> /\ linked' /\ topic' = <<fsm>>
  BY DEF Link, server
<1>2. topic' # << >> /\ topic'[Len(topic')] = fsm
  BY <1>1
<1>3. Latest' = [state |-> fsm, received |-> TRUE]
  BY <1>2 DEF Latest
<1> QED
  BY <1>1, <1>3, FreshNewsG

LEMMA DeliverG == HInv /\ GInv /\ Deliver => GInv'
<1> SUFFICES ASSUME HInv, GInv, Deliver PROVE GInv'
  OBVIOUS
<1>1. /\ UNCHANGED <<fsm, stay, linked, op, reached, pc, result>>
      /\ topic # << >> /\ topic' = Tail(topic)
      /\ cache' = [state |-> topic[1], received |-> TRUE]
  BY DEF Deliver, server, HInv, HelperTypeOK
<1>2. /\ topic \in Seq(SunrayState) /\ Len(topic) \in Nat
      /\ Len(topic') = Len(topic) - 1
      /\ \A i \in 1..Len(topic') : topic'[i] = topic[i + 1]
      /\ topic' \in Seq(SunrayState)
  BY <1>1 DEF HInv, HelperTypeOK
<1>3. Latest' = Latest
  <2>1. CASE topic' = << >>
    <3>1. Len(topic) = 1
      BY <1>2, <2>1
    <3> QED
      BY <1>1, <2>1, <3>1 DEF Latest
  <2>2. CASE topic' # << >>
    <3>1. Len(topic') \in 1..Len(topic')
      BY <1>1, <1>2, <2>2
    <3>2. topic'[Len(topic')] = topic[Len(topic)]
      BY <1>2, <3>1
    <3> QED
      BY <1>1, <2>2, <3>2 DEF Latest
  <2> QED
    BY <2>1, <2>2
<1> QED
  BY <1>1, <1>3, SameNewsG

LEMMA BeginG == ASSUME NEW o \in Ops, HInv, GInv, Begin(o) PROVE GInv'
<1>1. /\ UNCHANGED <<fsm, stay, topic, linked, cache>>
      /\ op' = o /\ reached' = FALSE /\ Latest' = Latest /\ Calls' = Calls
  BY DEF Begin, server, Latest, Calls, Call
<1>2. NewestIsCurrent' /\ NewestForgotten'
  BY <1>1 DEF GInv, NewestIsCurrent, NewestForgotten
<1>3. CASE Taken(Calls[o].request)
  <2>1. PICK t : <<fsm, Calls[o].request, t>> \in Transitions
    BY <1>3 DEF Taken, Resolve
  <2>2. o \in GroupOps =>
          IF o = "group_takeoff" THEN fsm = "OFF"
                                 ELSE fsm \notin {"OFF", "TAKEOFF", "EMERGENCY_LAND"}
    BY <2>1, GroupCallFacts, TransitionFacts
  <2>3. o \in GroupOps /\ Latest.received => Latest.state # Calls[o].awaits
    BY <2>2, GroupCallFacts DEF GInv, NewestForgotten
  <2>4. GroupUnfooled'
    BY <1>1, <2>2, <2>3 DEF GroupUnfooled
  <2>5. result' = "none"
    BY <1>3 DEF Begin
  <2> QED
    BY <1>2, <2>4, <2>5 DEF GInv
<1>4. CASE ~Taken(Calls[o].request)
  <2>1. pc' = "idle"
    BY <1>4 DEF Begin
  <2> QED
    BY <1>2, <2>1 DEF GInv, GroupUnfooled, Active
<1> QED
  BY <1>3, <1>4

LEMMA AnswerG == HInv /\ GInv /\ Answer => GInv'
<1> SUFFICES ASSUME HInv, GInv, Answer PROVE GInv'
  OBVIOUS
<1>1. /\ UNCHANGED <<fsm, stay, topic, linked, op, result, reached>>
      /\ pc = "called" /\ pc' = "wait" /\ Calls' = Calls
      /\ cache' = IF Calls[op].writes = "nothing" THEN cache
                  ELSE [state |-> Calls[op].writes, received |-> TRUE]
  BY DEF Answer, server, Calls, Call
<1>2. op \in Ops
  BY DEF HInv, HelperTypeOK
<1>3. Latest' = Latest \/ (op \notin GroupOps /\ Latest'.state \notin Awaited)
  BY <1>1, <1>2, GroupCallFacts DEF Latest
<1>4. NewestIsCurrent' /\ NewestForgotten'
  BY <1>1, <1>3 DEF GInv, NewestIsCurrent, NewestForgotten, Awaited
<1>5. GroupUnfooled'
  BY <1>1, <1>3 DEF GInv, GroupUnfooled, Active
<1> QED
  BY <1>1, <1>4, <1>5 DEF GInv, Active

LEMMA PollG == GInv /\ Poll => GInv'
<1> SUFFICES ASSUME GInv, Poll PROVE GInv'
  OBVIOUS
<1>1. UNCHANGED <<fsm, stay, linked, op, reached>> /\ Latest' = Latest
  BY DEF Poll, server, Latest
<1>2. UNCHANGED <<pc, result>> \/ pc' = "idle"
  BY DEF Poll
<1> QED
  BY <1>1, <1>2, SameNewsG

LEMMA NextG == HInv /\ GInv /\ [Next]_vars => GInv'
<1> SUFFICES ASSUME HInv, GInv, [Next]_vars PROVE GInv'
  OBVIOUS
<1>1. CASE OtherRequest \/ LandAfterReturn \/ EndHandling \/ GiveUp \/ UNCHANGED vars
  <2>1. /\ UNCHANGED <<fsm, stay, linked, topic, cache, op, reached>>
        /\ UNCHANGED <<pc, result>> \/ pc' = "idle"
    BY <1>1 DEF OtherRequest, LandAfterReturn, EndHandling, GiveUp, vars, server, client
  <2> QED
    BY <2>1, SameNewsG DEF Latest
<1>2. CASE Handle
  <2>1. Head(queue) \in SunrayEvent \ Ends
    BY <1>2 DEF HInv, Handle
  <2>2. PICK t \in Resolve(fsm, Head(queue), TRUE) \cup {fsm} : Become(t)
    BY <1>2 DEF Handle
  <2>3. UNCHANGED <<topic, client>>
    BY <1>2 DEF Handle
  <2> QED
    BY <2>1, <2>2, <2>3, BecomeG
<1>3. CASE Complete
  <2>1. \E e : /\ e \in Ends => stay = MinStay
               /\ \E t \in Resolve(fsm, e, TRUE) : Become(t)
    BY <1>3 DEF Complete, Ends
  <2>2. UNCHANGED <<topic, client>>
    BY <1>3 DEF Complete
  <2> QED
    BY <2>1, <2>2, BecomeG
<1>4. CASE Publish
  BY <1>4, PublishG
<1>5. CASE Link \/ Deliver \/ (\E o \in Ops : Begin(o)) \/ Answer \/ Poll
  BY <1>5, LinkG, DeliverG, BeginG, AnswerG, PollG
<1> QED
  BY <1>1, <1>2, <1>3, <1>4, <1>5 DEF Next, Supervisor, Client

\* A group's take-off, landing or return that reports success was flown after it
\* was accepted, once the helper has heard of any flight state.
THEOREM GroupSuccessIsReached == Spec => GroupSuccessWasReached
<1>1. GInv /\ [Next]_vars
        => [pc = "wait" /\ result' = "true" /\ op \in GroupOps /\ cache'.received
              => reached]_vars
  <2> SUFFICES ASSUME GInv, [Next]_vars, pc = "wait", result' = "true",
                      op \in GroupOps, cache'.received, ~reached
               PROVE  FALSE
    BY Zenon
  <2>1. result = "none"
    BY DEF GInv, Active
  <2>2. Poll
    BY <2>1 DEF Next, Supervisor, Client, vars, server, client, OtherRequest, Handle,
                Complete, LandAfterReturn, EndHandling, Publish, Link, Deliver, Begin,
                Answer, GiveUp
  <2>3. cache' = Latest /\ Sees(op)
    BY <2>1, <2>2 DEF Poll
  <2> QED
    BY <2>3 DEF GInv, GroupUnfooled, Active, Sees
<1> QED
  BY <1>1, InitG, NextG, HelperInvariant, PTL DEF Spec, GroupSuccessWasReached
=============================================================================
