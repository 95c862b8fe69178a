----------------------------- MODULE StepRunner -----------------------------
(***************************************************************************)
(* runAllSteps (run.go) for the single step validateInteractive admits:    *)
(* the goroutine that runs the job ("main"), the three goroutines it       *)
(* starts (proxy, ConfigureK8s, step), the two docker-compose clients and  *)
(* the containers they start, the context they share, the variable err     *)
(* that main, the proxy and the step goroutine all write without a lock,   *)
(* and the app-exposer service with the requests on their way to it.       *)
(*                                                                         *)
(* Granularity.  A statement that stores into err and tests it at once is  *)
(* one step (the test uses the value just stored); every later use of err  *)
(* reads the variable again and is a step of its own.                      *)
(***************************************************************************)
EXTENDS Naturals, JobStatus

CONSTANT NumResources  \* 3 in the code: 1 the endpoint, 2 the service,
                       \* 3 the ingress that makes the job reachable

ASSUME NumResourcesAssumption == NumResources \in Nat \ {0}

VARIABLES
    parentDone,  \* the context given to runAllSteps has been cancelled
    cancelled,   \* cancel() has been called on the context derived from it
    proc,        \* the process: "up", "panic" or "fatal" (log.Fatal)
    upstream,    \* the state of the job last published: see status.go
    err,         \* the shared error variable: "nil", or where its value is from
    mpc,         \* main: where runAllSteps is
    exitBy,      \* history: the select case that ended main's wait
    bornDone,    \* history: the context was already done when the step began
    result,      \* stepStatus and stepErr (err: whether it is non-nil)
    cpos,        \* main: the resource whose DELETE is next
    complaints,  \* history: resources main reported an error deleting
    proxy,       \* the proxy goroutine
    step,        \* the step goroutine
    execRet,     \* the asyncReturn of the step goroutine
    cpc,         \* the ConfigureK8s goroutine
    kpos,        \* ConfigureK8s: the resource it works on
    configRet,   \* the asyncReturn of the ConfigureK8s goroutine
    containers,  \* the containers of the step that are running
    call,        \* every request to app-exposer and what became of it
    k8s          \* the resources that exist in the cluster

ctxVars == <<parentDone, cancelled, bornDone>>
mainVars == <<mpc, exitBy, result, cpos, complaints>>
stepVars == <<step, execRet>>
configVars == <<cpc, kpos, configRet>>
serverVars == <<call, k8s>>
vars == <<ctxVars, proc, upstream, err, mainVars, proxy, stepVars, configVars,
          containers, serverVars>>

-----------------------------------------------------------------------------
(* In the order in which they are created, and in which main deletes them. *)
Resource == 1..NumResources

(* POSTs of ConfigureK8s, DELETEs of its error paths, DELETEs of main.  A  *)
(* refused request stays "sent": its sender goes on as if the connection   *)
(* had broken.                                                             *)
Call == {"configure", "rollback", "cleanup"} \X Resource
CallState == {"unsent", "sent", "accepted"}

Up == proc = "up"

(* Mutants: the derived context is not derived from the one given, or the  *)
(* one given is passed on in its place.                                    *)
CtxDone_Detached == cancelled
CtxDone_Parent == parentDone

CtxDone == parentDone \/ cancelled
Publish(s) == upstream' = s
Send(c) == call' = [call EXCEPT ![c] = "sent"]

(* err.Error() where another goroutine has overwritten err with nil since  *)
(* the test of it: a panic, which ends the process.                        *)
NilError == err = "nil" /\ proc' = "panic" /\ UNCHANGED upstream

TypeOK ==
    /\ parentDone \in BOOLEAN /\ cancelled \in BOOLEAN /\ bornDone \in BOOLEAN
    /\ proc \in Process
    /\ upstream \in JobState
    /\ err \in {"nil", "file", "proxy", "step", "delete"}
    /\ mpc \in {"idle", "select", "cleanup", "deleting", "complaining",
                "returned"}
    /\ exitBy \in {"none", "exec", "config", "context"}
    /\ result \in AsyncReturn
    /\ cpos \in 1..(NumResources + 1)
    /\ complaints \subseteq Resource
    /\ proxy \in {"idle", "starting", "up", "reporting", "failed", "exited"}
    /\ step \in {"idle", "starting", "up", "errored", "reported", "succeeded",
                 "sending", "done"}
    /\ execRet \in AsyncReturn
    /\ cpc \in {"idle", "start", "polling", "doomedPoll", "sleeping", "create",
                "creating", "rollback", "rollingBack", "sending", "done"}
    /\ kpos \in 0..NumResources
    /\ configRet \in AsyncReturn
    /\ containers \subseteq {"proxy", "step"}
    /\ call \in [Call -> CallState]
    /\ k8s \subseteq Resource

Init ==
    /\ parentDone = FALSE /\ cancelled = FALSE /\ bornDone = FALSE
    /\ proc = "up" /\ upstream = "none" /\ err = "nil"
    /\ mpc = "idle" /\ exitBy = "none" /\ result = NoReturn
    /\ cpos = 1 /\ complaints = {}
    /\ proxy = "idle"
    /\ step = "idle" /\ execRet = NoReturn
    /\ cpc = "idle" /\ kpos = 0 /\ configRet = NoReturn
    /\ containers = {}
    /\ call = [c \in Call |-> "unsent"] /\ k8s = {}

-----------------------------------------------------------------------------
(***************************************************************************)
(* main                                                                    *)
(***************************************************************************)

(* The head of the loop body.  err holds the outcome of the last of the    *)
(* four os.Create calls when the goroutines start.                         *)
StartStep ==
    /\ Up /\ mpc = "idle"
    /\ mpc' = "select"
    /\ result' = Ok
    /\ err' \in {"nil", "file"}
    /\ bornDone' = CtxDone
    /\ proxy' = "starting" /\ step' = "starting" /\ cpc' = "start"
    /\ Publish("Running")
    /\ UNCHANGED <<parentDone, cancelled, proc, exitBy, cpos, complaints,
                   execRet, kpos, configRet, containers, serverVars>>

(* Mutant: the break leaves the select, and nothing leaves the loop.       *)
EndWait_BreakOnly(case) == UNCHANGED <<mpc, exitBy>>

(* shouldExit = true                                                       *)
EndWait(case) == mpc' = "cleanup" /\ exitBy' = case

(* case execReturn := <-execChan.  The test is on the shared err.          *)
SelectExec ==
    /\ Up /\ mpc = "select" /\ step = "sending"
    /\ step' = "done"
    /\ result' = execRet
    /\ cancelled' = (cancelled \/ err # "nil")
    /\ EndWait("exec")
    /\ UNCHANGED <<parentDone, bornDone, proc, upstream, err, cpos, complaints,
                   proxy, execRet, configVars, containers, serverVars>>

(* case configReturn := <-configChan.  The test is on the shared err, not  *)
(* on configReturn.err.                                                    *)
SelectConfig ==
    /\ Up /\ mpc = "select" /\ cpc = "sending"
    /\ cpc' = "done"
    /\ result' = configRet
    /\ IF err # "nil"
       THEN cancelled' = TRUE /\ EndWait("config")
       ELSE UNCHANGED <<cancelled, mpc, exitBy>>
    /\ UNCHANGED <<parentDone, bornDone, proc, upstream, err, cpos, complaints,
                   proxy, stepVars, kpos, configRet, containers, serverVars>>

(* Mutant: a default case in the select.                                   *)
SelectDone_Default ==
    /\ Up /\ mpc = "select"
    /\ result' = StepFailed
    /\ EndWait("context")
    /\ UNCHANGED <<ctxVars, proc, upstream, err, cpos, complaints, proxy,
                   stepVars, configVars, containers, serverVars>>

(* case <-ctx.Done()                                                       *)
SelectDone ==
    /\ Up /\ mpc = "select" /\ CtxDone
    /\ result' = StepFailed
    /\ EndWait("context")
    /\ UNCHANGED <<ctxVars, proc, upstream, err, cpos, complaints, proxy,
                   stepVars, configVars, containers, serverVars>>

(* Mutant: the three DELETEs are for the endpoint.                         *)
CleanupCall_Endpoint == <<"cleanup", 1>>
CleanupCall == <<"cleanup", cpos>>
(* Mutant: one DELETE too many.                                            *)
CleanupDone_OffByOne == cpos > NumResources + 1
CleanupDone == cpos > NumResources

(* A DELETE that cannot fail at once: the context is still live.           *)
CleanupSend ==
    /\ Up /\ mpc = "cleanup" /\ ~CleanupDone /\ ~CtxDone
    /\ Send(CleanupCall)
    /\ mpc' = "deleting"
    /\ UNCHANGED <<ctxVars, proc, upstream, err, exitBy, result, cpos,
                   complaints, proxy, stepVars, configVars, containers, k8s>>

(* The DELETE returned nil.                                                *)
CleanupAck ==
    /\ Up /\ mpc = "deleting" /\ call[CleanupCall] = "accepted"
    /\ err' = "nil"
    /\ mpc' = "cleanup" /\ cpos' = cpos + 1
    /\ UNCHANGED <<ctxVars, proc, upstream, exitBy, result, complaints, proxy,
                   stepVars, configVars, containers, serverVars>>

(* The DELETE returned an error: it was refused, its connection broke, the *)
(* context was cancelled under it, or it was never sent because the        *)
(* context was done already.                                               *)
CleanupErr ==
    /\ Up
    /\ \/ mpc = "deleting"
       \/ mpc = "cleanup" /\ ~CleanupDone /\ CtxDone
    /\ err' = "delete"
    /\ complaints' = complaints \cup {cpos}
    /\ mpc' = "complaining"
    /\ UNCHANGED <<ctxVars, proc, upstream, exitBy, result, cpos, proxy,
                   stepVars, configVars, containers, serverVars>>

(* The error is published, and otherwise dropped.                          *)
CleanupReports ==
    /\ Up /\ mpc = "complaining"
    /\ \/ err # "nil" /\ Publish("Running") /\ mpc' = "cleanup"
          /\ cpos' = cpos + 1 /\ UNCHANGED proc
       \/ NilError /\ UNCHANGED <<mpc, cpos>>
    /\ UNCHANGED <<ctxVars, err, exitBy, result, complaints, proxy, stepVars,
                   configVars, containers, serverVars>>

(* Mutants: stepStatus and stepErr whatever stepErr is, or never.          *)
ReturnValue_Raw == result
ReturnValue_Lost == Ok
ReturnValue == IF result.err THEN result ELSE Ok

(* Return of runAllSteps, with its deferred cancel().                      *)
Return ==
    /\ Up /\ mpc = "cleanup" /\ CleanupDone
    /\ mpc' = "returned"
    /\ result' = ReturnValue
    /\ cancelled' = TRUE
    /\ UNCHANGED <<parentDone, bornDone, proc, upstream, err, exitBy, cpos,
                   complaints, proxy, stepVars, configVars, containers,
                   serverVars>>

-----------------------------------------------------------------------------
(***************************************************************************)
(* The proxy goroutine and its docker-compose client                       *)
(***************************************************************************)
ProxyStart ==
    /\ Up /\ proxy = "starting" /\ ~CtxDone
    /\ proxy' = "up"
    /\ containers' = containers \cup {"proxy"}
    /\ UNCHANGED <<ctxVars, proc, upstream, err, mainVars, stepVars, configVars,
                   serverVars>>

(* The client fails to start, reports a container that failed, or fails    *)
(* itself: killed with the context or by somebody else, timed out, or cut  *)
(* off from the Docker daemon.  Then its container may go on running.      *)
ProxyFails ==
    /\ Up /\ proxy \in {"starting", "up"}
    /\ err' = "proxy"
    /\ proxy' = "reporting"
    /\ containers' \in {containers, containers \ {"proxy"}}
    /\ UNCHANGED <<ctxVars, proc, upstream, mainVars, stepVars, configVars,
                   serverVars>>

ProxyReports ==
    /\ Up /\ proxy = "reporting"
    /\ \/ err # "nil" /\ Publish("Running") /\ proxy' = "failed"
          /\ UNCHANGED proc
       \/ NilError /\ UNCHANGED proxy
    /\ UNCHANGED <<ctxVars, err, mainVars, stepVars, configVars, containers,
                   serverVars>>

(* The proxy container exits with code 0: err is overwritten with nil.     *)
ProxyExits ==
    /\ Up /\ proxy = "up"
    /\ err' = "nil"
    /\ proxy' = "exited"
    /\ containers' = containers \ {"proxy"}
    /\ UNCHANGED <<ctxVars, proc, upstream, mainVars, stepVars, configVars,
                   serverVars>>

-----------------------------------------------------------------------------
(***************************************************************************)
(* The step goroutine and its docker-compose client                        *)
(***************************************************************************)
(* Mutant: the client is started without the context.                      *)
StepStart_NoContext ==
    /\ Up /\ step = "starting"
    /\ step' = "up"
    /\ containers' = containers \cup {"step"}
    /\ UNCHANGED <<ctxVars, proc, upstream, err, mainVars, proxy, execRet,
                   configVars, serverVars>>

StepStart ==
    /\ Up /\ step = "starting" /\ ~CtxDone
    /\ step' = "up"
    /\ containers' = containers \cup {"step"}
    /\ UNCHANGED <<ctxVars, proc, upstream, err, mainVars, proxy, execRet,
                   configVars, serverVars>>

(* The client of the step fails, in the ways the client of the proxy does. *)
StepFails ==
    /\ Up /\ step \in {"starting", "up"}
    /\ err' = "step"
    /\ step' = "errored"
    /\ execRet' = [execRet EXCEPT !.status = "StepFailed"]
    /\ containers' \in {containers, containers \ {"step"}}
    /\ UNCHANGED <<ctxVars, proc, upstream, mainVars, proxy, configVars,
                   serverVars>>

StepReportsError ==
    /\ Up /\ step = "errored"
    /\ \/ err # "nil" /\ Publish("Running") /\ step' = "reported"
          /\ UNCHANGED proc
       \/ NilError /\ UNCHANGED step
    /\ UNCHANGED <<ctxVars, err, mainVars, proxy, execRet, configVars,
                   containers, serverVars>>

(* c <- asyncReturn{StatusStepFailed, err}: the third read of err.         *)
StepSendsError ==
    /\ Up /\ step = "reported"
    /\ step' = "sending"
    /\ execRet' = [execRet EXCEPT !.err = (err # "nil")]
    /\ UNCHANGED <<ctxVars, proc, upstream, err, mainVars, proxy, configVars,
                   containers, serverVars>>

StepExits ==
    /\ Up /\ step = "up"
    /\ err' = "nil"
    /\ step' = "succeeded"
    /\ execRet' = Ok
    /\ containers' = containers \ {"step"}
    /\ UNCHANGED <<ctxVars, proc, upstream, mainVars, proxy, configVars,
                   serverVars>>

StepReportsSuccess ==
    /\ Up /\ step = "succeeded"
    /\ Publish("Running")
    /\ step' = "sending"
    /\ UNCHANGED <<ctxVars, proc, err, mainVars, proxy, execRet, configVars,
                   containers, serverVars>>

(* A container whose client has failed, or lost the process that waits for *)
(* it, ends by itself.                                                     *)
OrphanEnds(c) ==
    /\ c \in containers
    /\ Up => /\ c = "proxy" => proxy # "up"
             /\ c = "step" => step # "up"
    /\ containers' = containers \ {c}
    /\ UNCHANGED <<ctxVars, proc, upstream, err, mainVars, proxy, stepVars,
                   configVars, serverVars>>

-----------------------------------------------------------------------------
(***************************************************************************)
(* The ConfigureK8s goroutine                                              *)
(***************************************************************************)

(* GetOutboundIP ends the process when it finds no route.                  *)
ConfigNoRoute ==
    /\ Up /\ cpc = "start"
    /\ proc' = "fatal"
    /\ UNCHANGED <<ctxVars, upstream, err, mainVars, proxy, stepVars,
                   configVars, containers, serverVars>>

(* The loop on url-ready: its head does not look at the context, but a     *)
(* request made with a context that is done fails at once.                 *)
PollSend ==
    /\ Up /\ cpc \in {"start", "sleeping"}
    /\ cpc' = IF CtxDone THEN "doomedPoll" ELSE "polling"
    /\ UNCHANGED <<ctxVars, proc, upstream, err, mainVars, proxy, stepVars,
                   kpos, configRet, containers, serverVars>>

PollNotReady ==
    /\ Up /\ cpc \in {"polling", "doomedPoll"}
    /\ cpc' = "sleeping"
    /\ UNCHANGED <<ctxVars, proc, upstream, err, mainVars, proxy, stepVars,
                   kpos, configRet, containers, serverVars>>

PollReady ==
    /\ Up /\ cpc = "polling"
    /\ cpc' = "create" /\ kpos' = 1
    /\ UNCHANGED <<ctxVars, proc, upstream, err, mainVars, proxy, stepVars,
                   configRet, containers, serverVars>>

(* Mutants: the ingress first; the undoing leaves out the resource whose   *)
(* POST failed.                                                            *)
ConfigureCall_Reversed == <<"configure", NumResources + 1 - kpos>>
RollbackCall_Previous == <<"rollback", kpos - 1>>

ConfigureCall == <<"configure", kpos>>
RollbackCall == <<"rollback", kpos>>

CreateSend ==
    /\ Up /\ cpc = "create" /\ ~CtxDone
    /\ Send(ConfigureCall)
    /\ cpc' = "creating"
    /\ UNCHANGED <<ctxVars, proc, upstream, err, mainVars, proxy, stepVars,
                   kpos, configRet, containers, k8s>>

CreateAck ==
    /\ Up /\ cpc = "creating" /\ call[ConfigureCall] = "accepted"
    /\ IF kpos = NumResources
       THEN cpc' = "sending" /\ configRet' = Ok /\ UNCHANGED kpos
       ELSE cpc' = "create" /\ kpos' = kpos + 1 /\ UNCHANGED configRet
    /\ UNCHANGED <<ctxVars, proc, upstream, err, mainVars, proxy, stepVars,
                   containers, serverVars>>

(* A POST returned an error: publish it and undo this resource and the     *)
(* ones before it, last first.                                             *)
CreateErr ==
    /\ Up
    /\ \/ cpc = "creating"
       \/ cpc = "create" /\ CtxDone
    /\ cpc' = "rollback"
    /\ Publish("Running")
    /\ UNCHANGED <<ctxVars, proc, err, mainVars, proxy, stepVars, kpos,
                   configRet, containers, serverVars>>

RollbackSend ==
    /\ Up /\ cpc = "rollback" /\ kpos > 0 /\ ~CtxDone
    /\ Send(RollbackCall)
    /\ cpc' = "rollingBack"
    /\ UNCHANGED <<ctxVars, proc, upstream, err, mainVars, proxy, stepVars,
                   kpos, configRet, containers, k8s>>

(* The DELETE returned; whatever it returned is ignored.                   *)
RollbackNext ==
    /\ Up
    /\ \/ cpc = "rollingBack"
       \/ cpc = "rollback" /\ kpos > 0 /\ CtxDone
    /\ cpc' = "rollback" /\ kpos' = kpos - 1
    /\ UNCHANGED <<ctxVars, proc, upstream, err, mainVars, proxy, stepVars,
                   configRet, containers, serverVars>>

RollbackDone ==
    /\ Up /\ cpc = "rollback" /\ kpos = 0
    /\ cpc' = "sending" /\ configRet' = StepFailed
    /\ UNCHANGED <<ctxVars, proc, upstream, err, mainVars, proxy, stepVars,
                   kpos, containers, serverVars>>

-----------------------------------------------------------------------------
(***************************************************************************)
(* The environment                                                         *)
(***************************************************************************)

(* A signal or a stop request cancels the context runAllSteps was given.   *)
CancelParent ==
    /\ Up /\ ~parentDone
    /\ parentDone' = TRUE
    /\ UNCHANGED <<cancelled, bornDone, proc, upstream, err, mainVars, proxy,
                   stepVars, configVars, containers, serverVars>>

(* app-exposer takes a request off the network, even one whose sender has  *)
(* given up on it.                                                         *)
ServerAccepts(c) ==
    /\ call[c] = "sent"
    /\ call' = [call EXCEPT ![c] = "accepted"]
    /\ k8s' = IF c[1] = "configure" THEN k8s \cup {c[2]} ELSE k8s \ {c[2]}
    /\ UNCHANGED <<ctxVars, proc, upstream, err, mainVars, proxy, stepVars,
                   configVars, containers>>

-----------------------------------------------------------------------------
Main == \/ StartStep \/ SelectExec \/ SelectConfig \/ SelectDone
        \/ CleanupSend \/ CleanupAck \/ CleanupErr
        \/ CleanupReports \/ Return
Proxy == ProxyStart \/ ProxyFails \/ ProxyReports \/ ProxyExits
Step == \/ StepStart \/ StepFails \/ StepReportsError \/ StepSendsError
        \/ StepExits \/ StepReportsSuccess
Configure == \/ ConfigNoRoute \/ PollSend \/ PollNotReady \/ PollReady
             \/ CreateSend \/ CreateAck \/ CreateErr
             \/ RollbackSend \/ RollbackNext \/ RollbackDone
Server == \E c \in Call : ServerAccepts(c)
Orphan == \E c \in {"proxy", "step"} : OrphanEnds(c)

Next == Main \/ Proxy \/ Step \/ Configure \/ CancelParent \/ Server \/ Orphan

Spec == Init /\ [][Next]_vars

-----------------------------------------------------------------------------
(***************************************************************************)
(* Safety                                                                  *)
(***************************************************************************)

(* The step goroutine saw the step's container exit with code 0.           *)
StepSucceeded == execRet.status = "Success"

(* The unlocked err variable can bring the process down (a goroutine calls *)
(* err.Error() on a nil error), but only after one of the two commands has *)
(* succeeded: the successful DELETEs of main never do it.                  *)
PanicNeedsSuccess == proc = "panic" => proxy = "exited" \/ StepSucceeded

(* runAllSteps returns success for a step that did not succeed only in two *)
(* ways, both through the shared err: the proxy's exit erased the step's   *)
(* error, or the wait ended with the answer of ConfigureK8s.               *)
SuccessExplained ==
    mpc = "returned" /\ ~result.err =>
        \/ StepSucceeded
        \/ proxy = "exited"
        \/ exitBy = "config" /\ configRet = Ok

(* A job that was stopped before its step began starts no container, sends *)
(* nothing to app-exposer and reports that the step failed.                *)
StoppedBeforeStep ==
    bornDone => /\ containers = {}
                /\ \A c \in Call : call[c] = "unsent"
                /\ mpc = "returned" => result = StepFailed

(* The cluster never routes to something that is not there yet: a resource *)
(* exists only if every resource before it was created.                    *)
CreatedInOrder ==
    \A r \in k8s : \A q \in 1..r : call[<<"configure", q>>] = "accepted"

(* A failed configuration undoes its work: unless the context was          *)
(* cancelled under it, ConfigureK8s returns an error only after asking for *)
(* the deletion of everything it had asked for.                            *)
ConfigureUndone ==
    configRet.err /\ ~CtxDone =>
        \A r \in Resource : call[<<"configure", r>>] # "unsent" =>
                            call[<<"rollback", r>>] # "unsent"

(* When the configuration had succeeded before the wait ended and main had *)
(* nothing to complain about, no resource outlives runAllSteps.            *)
NoLeftovers ==
    mpc = "returned" /\ cpc = "done" /\ configRet = Ok /\ complaints = {} =>
        k8s = {}

(* Why the step's container may still run when the wait for it has ended:  *)
(* the answer of ConfigureK8s ended the wait, or the container's client    *)
(* has failed, or the job was stopped.  The last two are a failed step for *)
(* Run, unless the exit of the proxy erased the client's error.            *)
StepClientFailed == execRet.status = "StepFailed"
StepOutlives ==
    \/ exitBy = "config"
    \/ StepClientFailed /\ (result.err \/ proxy = "exited")
    \/ parentDone /\ result.err

(* When runAllSteps returns, the step's container has ended, and with it   *)
(* the writing of the outputs that Run uploads next, or Run knows that the *)
(* step has failed; the exceptions are those of StepOutlives.              *)
OutputsFinished ==
    mpc = "returned" /\ "step" \in containers => StepOutlives

(* The deferred cancel(): after runAllSteps has returned, the goroutines   *)
(* it left behind start no container and send no request.                  *)
NothingStartsAfterReturn ==
    [][mpc = "returned" =>
        /\ containers' \subseteq containers
        /\ \A c \in Call : call[c] = "unsent" => call'[c] = "unsent"]_vars

-----------------------------------------------------------------------------
(***************************************************************************)
(* Liveness                                                                *)
(***************************************************************************)

(* The steps main takes without waiting for anyone.  A DELETE under a live *)
(* context waits for app-exposer; under a context that is done it returns. *)
MainProgress ==
    \/ StartStep \/ SelectExec \/ SelectConfig \/ SelectDone
    \/ CleanupSend \/ CleanupAck \/ (CtxDone /\ CleanupErr)
    \/ CleanupReports \/ Return

(* The Go scheduler runs a goroutine that can go on.                       *)
MainFair == Spec /\ WF_vars(MainProgress)

(* The ConfigureK8s goroutine runs, and every request it makes ends.       *)
ConfigureFair == Spec /\ WF_vars(Configure)

(* App-exposer answers every request, or its connection breaks.            *)
Answered == WF_vars(Main)

(* Where requests end, runAllSteps returns once the step goroutine has     *)
(* sent its result, whatever the proxy and ConfigureK8s are doing.         *)
StepEndReturns == Answered => (step = "sending" ~> mpc = "returned" \/ ~Up)

-----------------------------------------------------------------------------
(***************************************************************************)
(* Refinement: runAllSteps keeps the contract Run relies on.               *)
(***************************************************************************)
phaseBar == CASE mpc = "idle" -> "idle"
              [] mpc = "returned" -> "returned"
              [] OTHER -> "running"
resultBar == IF mpc = "returned" THEN result ELSE NoReturn

Contract == INSTANCE StepContract
                WITH phase <- phaseBar, doomed <- bornDone, result <- resultBar

KeepsContract == Contract!Spec

(* A stopped job leaves runAllSteps even if app-exposer, the containers    *)
(* and the goroutines never do anything again: ConfigureK8s may loop for   *)
(* ever on url-ready, or block on its channel.                             *)
KeepsFairContract == Contract!FairSpec

=============================================================================
