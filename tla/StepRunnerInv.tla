---------------------------- MODULE StepRunnerInv ---------------------------
(***************************************************************************)
(* The inductive invariant behind the safety properties of StepRunner:     *)
(* what each thread of runAllSteps knows of the others, at every moment.   *)
(***************************************************************************)
EXTENDS StepRunner

(* The goroutines that work on a resource work on one that exists.         *)
InRange ==
    /\ mpc \in {"deleting", "complaining"} => cpos <= NumResources
    /\ cpc \in {"create", "creating", "rollingBack"} => kpos > 0

TypeInv == TypeOK /\ InRange

Waiting == mpc \in {"idle", "select"}

(* Nothing runs before main starts it.                                     *)
NothingBeforeStart ==
    mpc = "idle" =>
        /\ proxy = "idle" /\ step = "idle" /\ cpc = "idle"
        /\ containers = {} /\ k8s = {} /\ ~bornDone
        /\ proc = "up"
        /\ \A c \in Call : call[c] = "unsent"

(* Why main left its wait, and what that says of the context.              *)
WhyEnded ==
    /\ Waiting <=> exitBy = "none"
    /\ Waiting => ~cancelled
    /\ exitBy = "exec" => step = "done"
    /\ exitBy = "config" => cancelled /\ cpc = "done"
    /\ exitBy = "context" => CtxDone
    /\ mpc = "deleting" => exitBy = "exec" /\ ~cancelled
    /\ mpc = "returned" => cancelled

(* The step goroutine and the record it sends.                             *)
NilSuccess == [status |-> "StepFailed", err |-> FALSE]
ExecResult ==
    /\ step \in {"idle", "starting", "up"} => execRet = NoReturn
    /\ step \in {"errored", "reported"} => execRet = NilSuccess
    /\ step = "succeeded" => execRet = Ok
    /\ step \in {"sending", "done"} => execRet \in {Ok, StepFailed, NilSuccess}

(* The ConfigureK8s goroutine and the record it sends.                     *)
ConfigResult ==
    IF cpc \in {"sending", "done"} THEN configRet \in {Ok, StepFailed}
                                   ELSE configRet = NoReturn

(* A nil in err where an error was stored comes from one of the commands.  *)
NilExplained == proxy = "exited" \/ StepSucceeded

NilErr ==
    /\ err = "nil" =>
           \/ NilExplained
           \/ /\ proxy # "reporting" /\ mpc # "complaining"
              /\ step \notin {"errored", "reported", "sending"}
    /\ exitBy = "exec" /\ ~cancelled => NilExplained
    /\ step \in {"sending", "done"} /\ execRet = NilSuccess => proxy = "exited"

(* The result main carries to its return.                                  *)
ResultInv ==
    /\ mpc = "idle" => result = NoReturn
    /\ mpc \in {"cleanup", "deleting", "complaining"} =>
           /\ exitBy = "exec" => result = execRet
           /\ exitBy = "config" => result = configRet
           /\ exitBy = "context" => result = StepFailed
    /\ mpc = "returned" => result \in {Ok, StepFailed}
    /\ mpc = "returned" /\ exitBy = "context" => result = StepFailed

(* A step that began with its context done gets nowhere.                   *)
BornDone ==
    bornDone =>
        /\ parentDone
        /\ proxy \notin {"up", "exited"}
        /\ execRet.status # "Success" /\ step # "up"
        /\ cpc \in {"start", "doomedPoll", "sleeping"}

SafeInv == /\ NothingBeforeStart /\ WhyEnded /\ ExecResult /\ ConfigResult
           /\ NilErr /\ ResultInv /\ BornDone
           /\ PanicNeedsSuccess /\ SuccessExplained /\ StoppedBeforeStep

-----------------------------------------------------------------------------
(* The requests of ConfigureK8s and the resources they create: it asks for *)
(* them one after the other, each when the one before it is there.         *)
Configured(r) == call[<<"configure", r>>]
RolledBack(r) == call[<<"rollback", r>>]
Deleted(r) == call[<<"cleanup", r>>]

PostInv ==
    /\ cpc \in {"idle", "start", "polling", "doomedPoll", "sleeping"} =>
           \A r \in Resource : Configured(r) = "unsent"
    /\ cpc = "create" => \A r \in Resource : r >= kpos => Configured(r) = "unsent"
    /\ cpc = "creating" => \A r \in Resource : r > kpos => Configured(r) = "unsent"
    /\ cpc \in {"create", "creating"} =>
           \A r \in Resource : r < kpos => Configured(r) = "accepted"
    /\ cpc \in {"sending", "done"} /\ configRet = Ok =>
           \A r \in Resource : Configured(r) = "accepted"
    /\ \A r, q \in Resource :
           Configured(r) # "unsent" /\ q < r => Configured(q) = "accepted"
    /\ \A r \in k8s : Configured(r) = "accepted"

(* What it has undone, counting down.                                      *)
UndoInv ==
    /\ cpc = "rollback" /\ ~CtxDone => \A r \in Resource :
           r > kpos /\ Configured(r) # "unsent" => RolledBack(r) # "unsent"
    /\ cpc = "rollingBack" /\ ~CtxDone => \A r \in Resource :
           r >= kpos /\ Configured(r) # "unsent" => RolledBack(r) # "unsent"
    /\ ConfigureUndone

(* What main has deleted, counting up, if ConfigureK8s was done before.    *)
DeleteInv ==
    /\ Waiting => cpos = 1 /\ \A r \in Resource : Deleted(r) = "unsent"
    /\ mpc = "complaining" => complaints # {}
    /\ mpc = "returned" => cpos > NumResources
    /\ cpc = "done" /\ configRet = Ok =>
           \A r \in Resource : Deleted(r) = "accepted" => r \notin k8s
    /\ cpc = "done" /\ configRet = Ok /\ complaints = {} =>
           \A r \in Resource : r < cpos => r \notin k8s

(* When the container of the step may be running without its client.       *)
OutputInv ==
    /\ exitBy = "context" => parentDone
    /\ step \in {"idle", "starting"} => "step" \notin containers
    /\ "step" \in containers /\ step # "up" => StepClientFailed

ResourceInv == PostInv /\ UndoInv /\ DeleteInv /\ OutputInv
=============================================================================
