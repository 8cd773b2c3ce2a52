--------------------------- MODULE MCStateMachine ---------------------------
(***************************************************************************)
(* Instances of StateMachine for TLC.                                      *)
(***************************************************************************)
EXTENDS StateMachineProps, TLC

MCPriority == [api |-> 20, rc |-> 100]

\* The helper's commands may preempt and replace; the rc source is numbered
\* from 0 (not numbered).
MCMetas == {[id |-> "api", seq |-> 1, preempt |-> TRUE, replace |-> TRUE],
            [id |-> "rc", seq |-> 0, preempt |-> TRUE, replace |-> TRUE]}

\* One source alone, where it is the state machine that matters.
MCOneSource == {[id |-> "api", seq |-> 1, preempt |-> TRUE, replace |-> TRUE]}
=============================================================================
