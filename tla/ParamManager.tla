----------------------------- MODULE ParamManager -----------------------------
(***************************************************************************)
(* PX4_ParamManager::set_ekf2_*: write a parameter, then restart the       *)
(* estimator through PX4's shell so that it takes the parameter over.      *)
(* Commands and replies are a stream of text over MAVLink without any      *)
(* number that ties a reply to its command: a reply that comes after its   *)
(* command was given up is read as the reply to a later one.               *)
(*                                                                         *)
(* Of a reply only what ekf2_running looks for is kept, and the prompt     *)
(* that ends it.  The shell, PX4's estimator and the link are external.    *)
(***************************************************************************)
EXTENDS Integers, Sequences, SequencesExt

CONSTANTS
  Values,     \* the values a parameter is set to
  Budgets     \* bound: how many faults of each kind there may be, in all

\* A command is lost, its reply is late, a stop is refused.
Kind == {"lost", "late", "refused"}

ASSUME BudgetsAssumption == Budgets \subseteq [Kind -> Nat]

VARIABLES
  param,    \* the parameter, in PX4
  ekf,      \* the value the estimator was started with, or "down"
  shell,    \* commands PX4 has not executed
  wire,     \* reply texts the manager has not handled
  buf,      \* nsh_buf_: the texts received
  updated,  \* estimator_updates_ has grown since est_before_start
  pc,       \* the caller: "idle", "send", "await" or "estimate"
  step,     \* the command of Restart it is at
  want,     \* the value of its call
  result,   \* what the last call returned
  faults    \* faults still to come, at most, of each kind

px4 == <<param, ekf, shell>>
caller == <<pc, step, want, result>>
vars == <<px4, wire, buf, updated, caller, faults>>

\* The commands of boot_ekf2.
Restart == <<"status", "stop", "status", "start", "status">>

Command == Range(Restart)
Text == {"running", "not running", "quiet", "prompt"}

ParamTypeOK ==
  /\ param \in Values /\ ekf \in Values \cup {"down"}
  /\ shell \in Seq(Command) /\ wire \in Seq(Text)
  /\ buf \subseteq Text
  /\ updated \in BOOLEAN
  /\ pc \in {"idle", "send", "await", "estimate"}
  /\ step \in 1..Len(Restart) /\ want \in Values
  /\ result \in {"none", "true", "false"}
  /\ faults \in [Kind -> Nat]

ParamInit ==
  /\ param \in Values /\ ekf = param
  /\ shell = << >> /\ wire = << >> /\ buf = {} /\ updated = FALSE
  /\ pc = "idle" /\ step = 1 /\ want = param /\ result = "none"
  /\ faults \in Budgets

Fault(k) == faults[k] > 0 /\ faults' = [faults EXCEPT ![k] = @ - 1]

-----------------------------------------------------------------------------
(* PX4, the link and the callbacks.                                        *)

Output(cmd) == IF cmd # "status" THEN "quiet"
               ELSE IF ekf = "down" THEN "not running" ELSE "running"

\* The shell executes a command; a stop may fail.  The estimator reads its
\* parameters when it starts.
Execute ==
  /\ shell # << >>
  /\ LET cmd == Head(shell) IN
     /\ \/ /\ ekf' = CASE cmd = "stop" -> "down"
                       [] cmd = "start" /\ ekf = "down" -> param
                       [] OTHER -> ekf
           /\ UNCHANGED faults
        \/ cmd = "stop" /\ Fault("refused") /\ UNCHANGED ekf
     /\ wire' = wire \o <<Output(cmd), "prompt">>
  /\ shell' = Tail(shell)
  /\ UNCHANGED <<param, buf, updated, caller>>

\* rx_cb, from a spinner or from the caller's own spinOnce.
Receive ==
  /\ wire # << >>
  /\ buf' = buf \cup {Head(wire)}
  /\ wire' = Tail(wire)
  /\ UNCHANGED <<px4, updated, caller, faults>>

\* estimator_cb.
EstimatorUpdate ==
  /\ ekf # "down" /\ updated' = TRUE
  /\ UNCHANGED <<px4, wire, buf, caller, faults>>

-----------------------------------------------------------------------------
(* The caller.                                                             *)

Return(r) == pc' = "idle" /\ result' = r /\ UNCHANGED <<step, want>>

\* setParam fails, or it succeeds without an answer; else boot_ekf2 begins, if
\* somebody listens to its commands.
SetParam(v) ==
  /\ pc = "idle"
  /\ want' = v /\ step' = 1
  /\ param' \in {param, v}
  /\ \/ pc' = "idle" /\ result' = "false"
     \/ pc' = "send" /\ result' = "none" /\ param' = v
  /\ UNCHANGED <<ekf, shell, wire, buf, updated, faults>>

\* Mutant of Send: the texts of the command before are kept.
Send_KeepsBuffer ==
  /\ pc = "send" /\ pc' = "await"
  /\ \/ shell' = Append(shell, Restart[step]) /\ UNCHANGED faults
     \/ Fault("lost") /\ UNCHANGED shell
  /\ updated' = (updated /\ Restart[step] # "start")
  /\ UNCHANGED <<param, ekf, wire, buf, step, want, result>>

\* run_nsh_cmd forgets what it has received and sends the command, which may be
\* lost.  The estimator's count is taken before "start".
Send ==
  /\ pc = "send" /\ pc' = "await"
  /\ buf' = {}
  /\ \/ shell' = Append(shell, Restart[step]) /\ UNCHANGED faults
     \/ Fault("lost") /\ UNCHANGED shell
  /\ updated' = (updated /\ Restart[step] # "start")
  /\ UNCHANGED <<param, ekf, wire, step, want, result>>

\* ekf2_running.
Running == "running" \in buf /\ "not running" \notin buf

\* Mutant of Passed: that the estimator has stopped is not checked.
Passed_StopUnchecked ==
  CASE step \in {1, 5} -> Running
    [] OTHER -> TRUE

\* What boot_ekf2 asks of the reply to its command.
Passed ==
  CASE step \in {1, 5} -> Running
    [] step = 3 -> ~Running
    [] OTHER -> TRUE

\* Mutant of Prompted: one command too many.
Prompted_OneMore ==
  /\ pc = "await" /\ "prompt" \in buf
  /\ buf' = {}
  /\ IF ~Passed THEN Return("false")
     ELSE IF step > Len(Restart)
       THEN pc' = "estimate" /\ UNCHANGED <<step, want, result>>
       ELSE pc' = "send" /\ step' = step + 1 /\ UNCHANGED <<want, result>>
  /\ UNCHANGED <<px4, wire, updated, faults>>

\* The prompt has come.
Prompted ==
  /\ pc = "await" /\ "prompt" \in buf
  /\ buf' = {}
  /\ IF ~Passed THEN Return("false")
     ELSE IF step = Len(Restart)
       THEN pc' = "estimate" /\ UNCHANGED <<step, want, result>>
       ELSE pc' = "send" /\ step' = step + 1 /\ UNCHANGED <<want, result>>
  /\ UNCHANGED <<px4, wire, updated, faults>>

\* Or it has not: lost with its command, or late.
PromptTimeout ==
  /\ pc = "await" /\ "prompt" \notin buf
  /\ IF shell = << >> /\ wire = << >> THEN UNCHANGED faults ELSE Fault("late")
  /\ buf' = {}
  /\ Return("false")
  /\ UNCHANGED <<px4, wire, updated>>

\* wait_estimator_update.  A running estimator reports well within its timeout.
Estimated ==
  /\ pc = "estimate"
  /\ IF updated THEN Return("true") ELSE ekf = "down" /\ Return("false")
  /\ UNCHANGED <<px4, wire, buf, updated, faults>>

Next == \/ Execute \/ Receive \/ EstimatorUpdate
        \/ (\E v \in Values : SetParam(v)) \/ Send \/ Prompted \/ PromptTimeout
        \/ Estimated

Spec == ParamInit /\ [][Next]_vars

FairSpec == /\ Spec
            /\ WF_vars(Execute) /\ WF_vars(Receive) /\ WF_vars(EstimatorUpdate)
            /\ WF_vars(Send) /\ WF_vars(Prompted) /\ WF_vars(Estimated)

-----------------------------------------------------------------------------
\* A call that returns true has restarted the estimator with the value it was
\* called with, whichever replies of earlier calls it has read as its own, as long
\* as no more goes wrong than one of Budgets allows.
SuccessMeansRestarted == result = "true" => ekf = want

\* A call that meets no fault, on a running estimator with nothing of an earlier
\* call left under way, succeeds.
Clean == shell = << >> /\ wire = << >> /\ ekf # "down"
         /\ \A k \in Kind : faults[k] = 0
CleanCallSucceeds ==
  pc = "send" /\ step = 1 /\ Clean ~> result = "true"
=============================================================================
