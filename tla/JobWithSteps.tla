---------------------------- MODULE JobWithSteps -----------------------------
(***************************************************************************)
(* Run with runAllSteps as it is (run.go): JobRun with StepRunner in the   *)
(* place of StepContract.  Run's own steps and those of the step runner    *)
(* are the actions of the two modules, side by side; they share the        *)
(* context, the process, and what upstream was last told.                  *)
(***************************************************************************)
EXTENDS StepRunner, JobSize

VARIABLES rpc, client, index, status, done, informed, stoppedFirst

runVars == <<rpc, client, index, status, done, informed, stoppedFirst>>
jobVars == <<vars, runVars>>

(* What runAllSteps does not share with Run, which sees of its containers  *)
(* only that docker-compose can bring them down.                           *)
hiddenVars == <<cancelled, bornDone, err, mainVars, proxy, stepVars, configVars,
                serverVars>>
ownVars == <<hiddenVars, containers>>

Run == INSTANCE JobRun
           WITH phase <- phaseBar, doomed <- bornDone, result <- resultBar

JobInit == Init /\ Run!Init

RunBegins == UNCHANGED ownVars /\ (Run!Begin \/ Run!NoRunner)

RunGoesOn ==
    /\ UNCHANGED ownVars
    /\ \/ Run!ClientStarts
       \/ rpc # "down" /\ (Run!ClientSucceeds \/ Run!ClientFails)
       \/ Run!PhaseEnds \/ Run!Skip \/ Run!StepsReturned \/ Run!Inform

(* docker-compose down removes the containers of its project, those of the *)
(* step included; one that fails may have removed some of them.            *)
ComposeDown ==
    /\ rpc = "down" /\ UNCHANGED hiddenVars
    /\ \/ containers' = {} /\ Run!ClientSucceeds
       \/ containers' \in SUBSET containers /\ Run!ClientFails

RunStep == RunBegins \/ RunGoesOn \/ ComposeDown

CallSteps ==
    /\ rpc = "steps" /\ ~Run!Skipped
    /\ StartStep
    /\ UNCHANGED runVars

(* runAllSteps and its goroutines, also those it has left behind.          *)
StepsWork ==
    /\ mpc # "idle"
    /\ Main \/ Proxy \/ Step \/ Configure \/ Server \/ Orphan
    /\ UNCHANGED runVars

Cancelled == CancelParent /\ UNCHANGED runVars

JobNext == RunStep \/ CallSteps \/ StepsWork \/ Cancelled

JobSpec == JobInit /\ [][JobNext]_jobVars

-----------------------------------------------------------------------------
(* Upstream is told that a job completed only if its images were pulled,   *)
(* its data containers created, its inputs downloaded and its outputs      *)
(* uploaded, it was not stopped before its step, and its step succeeded or *)
(* its failure was hidden: the exit of the proxy erased it from the shared *)
(* err, or the answer of ConfigureK8s ended the wait for it.               *)
CompletionExplained ==
    informed = "Completed" =>
        /\ Run!Pulled /\ Run!DataCreated /\ Run!InputsDownloaded /\ Run!Uploaded
        /\ ~bornDone /\ ~stoppedFirst
        /\ \/ StepSucceeded
           \/ proxy = "exited"
           \/ exitBy = "config" /\ configRet = Ok

(* While the outputs are uploaded the container of the step writes no      *)
(* more, or Run knows that the step has failed, with the exceptions of     *)
(* StepOutlives: ConfigureK8s ended the wait, or the proxy's exit erased   *)
(* the error of the container's client.                                    *)
UploadsFinished ==
    rpc = "upload" /\ "step" \in containers => StepOutlives

AfterSteps == rpc \in {"upload", "inform", "down", "rmnet", "done"}

(* From the upload on, the goroutines that runAllSteps has left behind     *)
(* start no container and send no request.                                 *)
NothingStartsFromUpload ==
    [][AfterSteps =>
        /\ containers' \subseteq containers
        /\ \A c \in Call : call[c] = "unsent" => call'[c] = "unsent"]_jobVars

(* Once docker-compose down has succeeded no container of the step is left *)
(* and none comes back: the clients were started before, and are stopped.  *)
DownIsFinal == <<"down", 0>> \in done => containers = {}

(* A job stopped before Run was called never calls runAllSteps: no         *)
(* container of its step is started, and nothing is asked of app-exposer.  *)
StoppedFirstStartsNothing ==
    stoppedFirst => mpc = "idle" /\ containers = {} /\ k8s = {}
                    /\ \A c \in Call : call[c] = "unsent"

(* The job panics for want of a runner, or in err.Error() on the shared    *)
(* err after one of the two commands of the step has succeeded.            *)
PanicExplained ==
    proc = "panic" =>
        IF mpc = "idle" THEN rpc = "start" ELSE proxy = "exited" \/ StepSucceeded

(* What upstream was finally told is overwritten only with Running, and    *)
(* only by a proxy that has failed, by ConfigureK8s, or by a step whose    *)
(* wait was cut short.                                                     *)
FinalWord ==
    [][informed # "none" /\ upstream' # upstream =>
        /\ upstream' = "Running" /\ mpc = "returned"
        /\ \/ proxy = "reporting"
           \/ cpc \in {"create", "creating"}
           \/ exitBy \in {"config", "context"}]_jobVars

-----------------------------------------------------------------------------
(* Run keeps the contract of JobRun, and with it the one main.go relies    *)
(* on, with the real runAllSteps.                                          *)
ImplementsRun == Run!Spec
KeepsRunContract == Run!KeepsContract
=============================================================================
