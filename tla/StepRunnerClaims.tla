-------------------------- MODULE StepRunnerClaims --------------------------
(***************************************************************************)
(* What comments and log messages of run.go say, and the code does not do. *)
(***************************************************************************)
EXTENDS StepRunner

(* "Used to get the status code and error from the step execution."        *)
SuccessMeansStepSucceeded ==
    mpc = "returned" /\ result = Ok => StepSucceeded

(* "error from k8s configuration, canceling contexts"                      *)
ConfigErrorCancels ==
    [][SelectConfig /\ configRet.err => CtxDone']_vars

(* "done deleting K8s endpoint", service and ingress: the DELETEs are sent *)
(* before runAllSteps returns.                                             *)
CleanupSent ==
    mpc = "returned" => \A r \in Resource : call[<<"cleanup", r>>] # "unsent"

(* "It's cancelable, so pass in the context."                              *)
ConfigCancelable == CtxDone /\ cpc # "idle" ~> cpc \in {"sending", "done"} \/ ~Up
=============================================================================
