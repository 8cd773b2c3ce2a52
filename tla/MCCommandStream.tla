--------------------------- MODULE MCCommandStream ---------------------------
(***************************************************************************)
(* An instance of CommandStream: a tick is about 0.1 s, the rc source is   *)
(* the one with the greater priority and the smaller timeout.              *)
(***************************************************************************)
EXTENDS CommandStream, TLC

MCPriority == [api |-> 20, rc |-> 100]
MCPolicyTimeout == [api |-> 2, rc |-> 1]

MCTrajectories == {<< >>, <<0>>, <<0, 1, 1, 3>>, <<1, 2>>, <<2, 1>>}

\* A planner's commands are numbered and carry the timeout or leave it open; the
\* first is late, the second from a clock that is ahead, and they may come out of
\* order.  The remote control's are prompt and not numbered.
MCEnvelopes ==
  {[meta |-> [id |-> "api", seq |-> IF a = 2 THEN 1 ELSE 2, preempt |-> TRUE,
             replace |-> r],
    age |-> a, timeout |-> t] : r \in BOOLEAN, a \in {-1, 2}, t \in {0, 3}}
    \cup {[meta |-> [id |-> "rc", seq |-> 0, preempt |-> p, replace |-> TRUE],
           age |-> 0, timeout |-> 0] : p \in BOOLEAN}
=============================================================================
