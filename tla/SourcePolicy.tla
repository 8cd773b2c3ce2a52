---------------------------- MODULE SourcePolicy ----------------------------
(***************************************************************************)
(* Which high-rate command may take or keep the vehicle: the arbitration   *)
(* of control sources by accept_control_meta_locked, as a predicate over   *)
(* the active source and the meta data of a command.                       *)
(***************************************************************************)
EXTENDS Integers, FsmTable

CONSTANTS
  SourceId,     \* the source identifiers in use (ControlMeta.SOURCE_*)
  Priority,     \* their priorities, as loaded from control_sources/*
  MaxSeq        \* bound: sequence ids are 0..MaxSeq (0: not numbered)

ASSUME PriorityAssumption == Priority \in [SourceId -> Nat]
ASSUME MaxSeqAssumption == MaxSeq \in Nat

\* ControlMeta: the fields the arbitration reads.
Meta == [id : SourceId, seq : 0..MaxSeq, preempt : BOOLEAN, replace : BOOLEAN]

\* active_control_source_ when its valid flag is false.
NoSource == [valid |-> FALSE]

ActiveSource == [valid : {TRUE}, id : SourceId, seq : 0..MaxSeq, pri : Nat,
                 st : ControlStates]

\* update_active_control_source_locked (its clock is kept apart).
Activate(m, st) == [valid |-> TRUE, id |-> m.id, seq |-> m.seq,
                    pri |-> Priority[m.id], st |-> st]

\* The new command of the source that is already active.
Replaces(active, m) ==
  /\ m.id = active.id
  /\ m.replace
  /\ m.seq # 0 /\ active.seq # 0 => m.seq >= active.seq

\* A command of another source.
Preempts(active, m) ==
  m.id # active.id /\ Priority[m.id] > active.pri /\ m.preempt

\* accept_control_meta_locked for an active source that has not expired.
Accepts(active, m) ==
  active.valid => Replaces(active, m) \/ Preempts(active, m)
=============================================================================
