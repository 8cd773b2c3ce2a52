----------------------------- MODULE SunrayHelper -----------------------------
(***************************************************************************)
(* A client's blocking calls: Sunray_Helper and Sunray_RobotGroup ask the  *)
(* state machine for something through a service, and learn that it is     *)
(* done from the flight states the supervisor publishes, one per round,    *)
(* through a queue of their own.                                           *)
(*                                                                         *)
(* The flight states follow FsmTable; what makes a task complete is in     *)
(* StateMachine and Landing.  Time is counted in rounds of the supervisor. *)
(***************************************************************************)
EXTENDS FsmTable, Integers, Sequences

CONSTANTS
  Ops,        \* the calls clients make
  Others,     \* the events other clients and the watchdogs ask for
  QueueSize,  \* the client's subscriber queue
  MinStay     \* rounds a take-off or a landing lasts at least

ASSUME QueueSizeAssumption == QueueSize \in Nat \ {0}
\* The queue holds 1 s of rounds, a landing waits for a hold of 3 s.
ASSUME MinStayAssumption == MinStay \in Nat /\ MinStay > QueueSize
\* Only the supervisor ends a take-off or a landing.
Ends == {"TAKEOFF_COMPLETED", "LAND_COMPLETED", "EMERGENCY_COMPLETED"}
ASSUME OthersAssumption == Others \subseteq SunrayEvent \ Ends

Call(request, writes, awaits) ==
  [request |-> request, writes |-> writes, awaits |-> awaits]

\* What a call requests, which state it writes into the cache once accepted,
\* and which state it waits for.  The group sends some requests by itself,
\* past the helper and its cache.
Calls ==
  [takeoff       |-> Call("TAKEOFF_REQUEST", "TAKEOFF", "HOVER"),
   land          |-> Call("LAND_REQUEST", "LAND", "OFF"),
   return        |-> Call("RETURN_REQUEST", "RETURN", "OFF"),
   position      |-> Call("ENTER_POSITION_CONTROL", "POSITION_CONTROL", "HOVER"),
   group_takeoff |-> Call("TAKEOFF_REQUEST", "nothing", "HOVER"),
   group_land    |-> Call("LAND_REQUEST", "nothing", "OFF"),
   group_return  |-> Call("RETURN_REQUEST", "nothing", "OFF")]

ASSUME OpsAssumption == Ops \subseteq DOMAIN Calls

VARIABLES
  fsm,      \* fsm_current_state_
  stay,     \* rounds it has been that, up to MinStay
  owed,     \* land_after_return_pending_
  queue,    \* pending_events_
  round,    \* the supervisor's round: "handle" or "publish"
  topic,    \* fsm_state messages the client has not handled, oldest first
  linked,   \* the client's subscription is established
  cache,    \* fsm_state_, fsm_state_received_
  pc,       \* the client: "idle", "called" or "wait"
  op,       \* its call
  result,   \* what the last call returned
  reached   \* its state was entered since the call was accepted (history)

server == <<fsm, stay, owed, round>>
client == <<linked, cache, pc, op, result>>
vars == <<server, queue, topic, client, reached>>

HelperTypeOK ==
  /\ fsm \in SunrayState /\ stay \in 0..MinStay /\ owed \in BOOLEAN
  /\ queue \in Seq(SunrayEvent) /\ round \in {"handle", "publish"}
  /\ topic \in Seq(SunrayState) /\ Len(topic) <= QueueSize
  /\ linked \in BOOLEAN
  /\ cache \in [state : SunrayState, received : BOOLEAN]
  /\ pc \in {"idle", "called", "wait"} /\ op \in Ops
  /\ result \in {"none", "true", "false"} /\ reached \in BOOLEAN

HelperInit ==
  /\ fsm = "OFF" /\ stay = MinStay /\ owed = FALSE
  /\ queue = << >> /\ round = "handle"
  /\ topic = << >> /\ linked = FALSE
  /\ cache = [state |-> "OFF", received |-> FALSE]
  /\ pc = "idle" /\ op \in Ops /\ result = "none" /\ reached = FALSE

-----------------------------------------------------------------------------
(* The state machine, as a client sees it.                                 *)

Taken(event) == Resolve(fsm, event, TRUE) # {}

\* queue_event; a client or two have an event pending at a time.
QueueEvent(event) == Len(queue) < 2 /\ queue' = Append(queue, event)

\* The events of another client, of the remote control, of lost odometry.
OtherRequest ==
  /\ \E e \in Others : Taken(e) /\ QueueEvent(e)
  /\ UNCHANGED <<server, topic, client, reached>>

Become(state) ==
  /\ fsm' = state
  /\ stay' = IF state = fsm THEN stay ELSE 0
  /\ reached' = (reached \/ (state # fsm /\ state = Calls[op].awaits))

\* transition_to_locked; a take-off or a return may still be refused.
Handle ==
  /\ round = "handle" /\ queue # << >>
  /\ LET e == Head(queue)
         mayRefuse == e \in {"TAKEOFF_REQUEST", "RETURN_REQUEST"} \/ ~Taken(e)
     IN  /\ \E t \in Resolve(fsm, e, TRUE) \cup (IF mayRefuse THEN {fsm} ELSE {}) :
              Become(t)
         /\ owed' = (owed /\ fsm' = fsm)
  /\ queue' = Tail(queue)
  /\ UNCHANGED <<round, topic, client>>

\* A task comes to its end.
Complete ==
  /\ round = "handle" /\ queue = << >>
  /\ \E e \in {"TAKEOFF_COMPLETED", "RETURN_COMPLETED", "LAND_COMPLETED",
               "EMERGENCY_COMPLETED", "POSITION_COMPLETED"} :
       /\ e \in {"RETURN_COMPLETED", "POSITION_COMPLETED"} \/ stay = MinStay
       /\ \E t \in Resolve(fsm, e, TRUE) : Become(t)
       /\ owed' = (e = "RETURN_COMPLETED")
  /\ round' = "publish"
  /\ UNCHANGED <<queue, topic, client>>

\* A return that has hovered asks for its landing.
LandAfterReturn ==
  /\ owed /\ fsm = "HOVER"
  /\ owed' = FALSE
  /\ QueueEvent("LAND_REQUEST")
  /\ UNCHANGED <<fsm, stay, round, topic, client, reached>>

EndHandling ==
  /\ round = "handle" /\ queue = << >>
  /\ round' = "publish"
  /\ UNCHANGED <<fsm, stay, owed, queue, topic, client, reached>>

\* Mutant of Publish: the client's queue is not bounded.
Publish_Unbounded ==
  /\ round = "publish" /\ round' = "handle"
  /\ stay' = IF stay < MinStay THEN stay + 1 ELSE stay
  /\ topic' = IF linked THEN Append(topic, fsm) ELSE topic
  /\ UNCHANGED <<fsm, owed, queue, client, reached>>

\* publish_fsm_state ends the round; a full queue loses its oldest message.
Publish ==
  /\ round = "publish" /\ round' = "handle"
  /\ stay' = IF stay < MinStay THEN stay + 1 ELSE stay
  /\ topic' = IF ~linked THEN topic
              ELSE Append(IF Len(topic) = QueueSize THEN Tail(topic) ELSE topic, fsm)
  /\ UNCHANGED <<fsm, owed, queue, client, reached>>

Supervisor == Handle \/ Complete \/ LandAfterReturn \/ EndHandling \/ Publish

-----------------------------------------------------------------------------
(* The client.                                                             *)

\* The subscription is established some time after the client has started; the
\* topic is latched.
Link ==
  /\ ~linked /\ linked' = TRUE
  /\ topic' = <<fsm>>
  /\ UNCHANGED <<server, queue, cache, pc, op, result, reached>>

\* fsm_state_cb, from the client's own spinner.
Deliver ==
  /\ topic # << >>
  /\ cache' = [state |-> Head(topic), received |-> TRUE]
  /\ topic' = Tail(topic)
  /\ UNCHANGED <<server, queue, linked, pc, op, result, reached>>

\* Mutant of Begin: the answer's accepted flag is not looked at.
Begin_IgnoresAnswer(o) ==
  /\ pc = "idle"
  /\ op' = o
  /\ pc' = "called" /\ result' = "none" /\ reached' = FALSE
  /\ IF Taken(Calls[o].request) THEN QueueEvent(Calls[o].request) ELSE UNCHANGED queue
  /\ UNCHANGED <<server, topic, linked, cache>>

\* The service is called: it refuses, or it queues the event; its answer is
\* under way.
Begin(o) ==
  /\ pc = "idle"
  /\ op' = o
  /\ IF Taken(Calls[o].request)
       THEN /\ QueueEvent(Calls[o].request)
            /\ pc' = "called" /\ result' = "none" /\ reached' = FALSE
       ELSE /\ pc' = "idle" /\ result' = "false" /\ reached' = FALSE
            /\ UNCHANGED queue
  /\ UNCHANGED <<server, topic, linked, cache>>

\* set_cached_fsm_state.
Answer ==
  /\ pc = "called" /\ pc' = "wait"
  /\ cache' = IF Calls[op].writes = "nothing" THEN cache
              ELSE [state |-> Calls[op].writes, received |-> TRUE]
  /\ UNCHANGED <<server, queue, topic, linked, op, result, reached>>

Latest == IF topic = << >> THEN cache
          ELSE [state |-> topic[Len(topic)], received |-> TRUE]

\* wait_for_fsm_state asks for a message; the group's wait_for_state does not.
Sees(o) == /\ Latest.state = Calls[o].awaits
           /\ Latest.received \/ Calls[o].writes = "nothing"

\* Mutant of Poll: messages are left to the client's spinner.
Poll_WithoutSpin ==
  /\ pc = "wait"
  /\ IF cache.received /\ cache.state = Calls[op].awaits
       THEN pc' = "idle" /\ result' = "true" ELSE UNCHANGED <<pc, result>>
  /\ UNCHANGED <<server, queue, topic, cache, linked, op, reached>>

\* One turn of the wait: spinOnce handles what has arrived, then the cache is
\* compared.
Poll ==
  /\ pc = "wait"
  /\ cache' = Latest /\ topic' = << >>
  /\ IF Sees(op) THEN pc' = "idle" /\ result' = "true"
                 ELSE UNCHANGED <<pc, result>>
  /\ UNCHANGED <<server, queue, linked, op, reached>>

\* The deadline passes; or the call is the asynchronous one, or its handle is
\* never waited for.
GiveUp ==
  /\ pc = "wait"
  /\ pc' = "idle" /\ result' = "false"
  /\ UNCHANGED <<server, queue, topic, linked, cache, op, reached>>

Client == Link \/ Deliver \/ (\E o \in Ops : Begin(o)) \/ Answer \/ Poll \/ GiveUp

Next == OtherRequest \/ Supervisor \/ Client

Spec == HelperInit /\ [][Next]_vars
-----------------------------------------------------------------------------
HelperOps == {"takeoff", "land", "return"}
GroupOps == {"group_takeoff", "group_land", "group_return"}

\* A blocking take-off, landing or return that reports success has been flown:
\* the state it waits for was entered after its request was accepted, whatever
\* messages of the flight before were still under way.
SuccessWasReached == result = "true" /\ op \in HelperOps => reached

\* The same of the group's requests, which leave the cache alone, once the
\* helper has heard from the state machine at all.
GroupSuccessWasReached ==
  [][pc = "wait" /\ result' = "true" /\ op \in GroupOps /\ cache'.received
     => reached]_vars

\* set_position_block returns when the state machine has switched from
\* POSITION_CONTROL back to HOVER.
PositionWasReached == result = "true" /\ op = "position" => reached
=============================================================================
