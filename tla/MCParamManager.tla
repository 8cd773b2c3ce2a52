---------------------------- MODULE MCParamManager ----------------------------
(***************************************************************************)
(* An instance of ParamManager: either replies come late, or commands are  *)
(* lost and stops refused.  With a late reply and a refused stop together, *)
(* or with four late replies, SuccessMeansRestarted does not hold.         *)
(***************************************************************************)
EXTENDS ParamManager

MCBudgets == {[lost |-> 0, late |-> 3, refused |-> 0],
              [lost |-> 2, late |-> 0, refused |-> 2]}
=============================================================================
