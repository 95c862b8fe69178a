------------------------------ MODULE JobSize -------------------------------
(***************************************************************************)
(* What Run (run.go) needs to know of a job: how many data containers it   *)
(* creates, and how many inputs it downloads.  There may be none.          *)
(***************************************************************************)
EXTENDS Naturals

CONSTANTS NumData,   \* the data containers of the job
          NumInputs  \* the inputs of the job

ASSUME NumDataAssumption == NumData \in Nat
ASSUME NumInputsAssumption == NumInputs \in Nat
=============================================================================
