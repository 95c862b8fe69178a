------------------------------- MODULE JobRun -------------------------------
(***************************************************************************)
(* Run (run.go): the phases of a job, from the creation of the runner to   *)
(* the removal of its network.  Each phase waits for docker or             *)
(* docker-compose clients; the steps are known by their contract.  The     *)
(* updates of a phase are published with the start and the end of its      *)
(* client.  What only goes to the log is left out, and with it the two     *)
(* summary files and the outcome of JobRunner.Init.                        *)
(***************************************************************************)
EXTENDS JobSize, JobStatus

VARIABLES
    parentDone, proc, upstream,  \* shared with runAllSteps
    phase, doomed, result,       \* the contract of runAllSteps
    rpc,        \* where Run is
    client,     \* a docker client that Run waits for is running
    index,      \* the data container or input Run is at
    status,     \* runner.status
    done,       \* history: the commands that succeeded
    informed,   \* history: the final update Run published
    stoppedFirst  \* history: the context was done when Run was called

stepVars == <<phase, doomed, result>>
runVars == <<rpc, client, index, status, done, informed, stoppedFirst>>
vars == <<parentDone, proc, upstream, stepVars, runVars>>

Steps == INSTANCE StepContract

Up == proc = "up"
Publish(s) == upstream' = s

-----------------------------------------------------------------------------
(* The phases that wait for clients, and those whose clients are killed    *)
(* with the context.  docker login, the upload, docker-compose down and    *)
(* docker network rm run without it.                                       *)
ClientPhase == {"login", "network", "pull", "data", "input", "upload", "down",
                "rmnet"}

(* Mutant: the downloads are not given the context.                        *)
Cancelable_NotInputs == {"network", "pull", "data"}
Cancelable == {"network", "pull", "data", "input"}

(* Mutant: upstream is informed before the upload.                         *)
Following_InformFirst ==
    [login |-> "network", network |-> "pull", pull |-> "data",
     data |-> "input", input |-> "steps", steps |-> "inform",
     inform |-> "upload", upload |-> "down", down |-> "rmnet", rmnet |-> "done"]

(* The order of the phases.                                                *)
Following ==
    [login |-> "network", network |-> "pull", pull |-> "data",
     data |-> "input", input |-> "steps", steps |-> "upload",
     upload |-> "inform", inform |-> "down", down |-> "rmnet", rmnet |-> "done"]

Enter(p) == rpc' = p /\ index' = 0

(* How many clients the phase runs, one after the other.                   *)
Clients == CASE rpc = "data" -> NumData
             [] rpc = "input" -> NumInputs
             [] OTHER -> 1

(* Mutant: one client too many.                                            *)
MoreToRun_OffByOne == index <= Clients
MoreToRun == index < Clients

(* Mutant: every failure is logged, and forgotten.                         *)
Failure_Logged == status

(* The status when a client fails.  That docker login, the creation of the *)
(* network or the final removals failed only goes to the log.              *)
Failure == CASE rpc = "pull" -> "DockerPullFailed"
             [] rpc = "data" -> "DockerCreateFailed"
             [] rpc = "input" -> "InputFailed"
             [] rpc = "upload" -> "OutputFailed"
             [] OTHER -> status

(* Mutants: inputs are downloaded, or steps run, after a failure.          *)
Guarded_NotInputs == {"data", "steps"}
Guarded_NotSteps == {"data", "input"}

(* The phases under if runner.status == messaging.Success.                 *)
Guarded == {"data", "input", "steps"}
Skipped == rpc \in Guarded /\ status # "Success"

(* The phases that publish an update when a client starts and ends.        *)
Reporting == {"data", "input", "upload"}
PhaseReport == upstream' = IF rpc \in Reporting THEN "Running" ELSE upstream

TypeOK ==
    /\ parentDone \in BOOLEAN
    /\ proc \in Process
    /\ upstream \in JobState
    /\ phase \in {"idle", "running", "returned"}
    /\ doomed \in BOOLEAN
    /\ result \in {NoReturn, Ok, StepFailed}
    /\ rpc \in ClientPhase \cup {"start", "steps", "inform", "done"}
    /\ client \in BOOLEAN
    /\ index \in Nat /\ index <= Clients
    /\ status \in StatusCode \ {"none"}
    /\ done \subseteq ClientPhase \X Nat
    /\ informed \in {"none"} \cup FinalState
    /\ stoppedFirst \in BOOLEAN

Init ==
    /\ parentDone = FALSE /\ proc = "up" /\ upstream = "none"
    /\ phase = "idle" /\ doomed = FALSE /\ result = NoReturn
    /\ rpc = "start" /\ client = FALSE /\ index = 0
    /\ status = "Success" /\ done = {} /\ informed = "none"
    /\ stoppedFirst = FALSE

-----------------------------------------------------------------------------
(***************************************************************************)
(* Run                                                                     *)
(***************************************************************************)
Begin ==
    /\ Up /\ rpc = "start"
    /\ Enter("login")
    /\ stoppedFirst' = parentDone
    /\ Publish("Running")
    /\ UNCHANGED <<parentDone, proc, stepVars, client, status, done, informed>>

(* NewJobRunner fails for want of a working directory; its error is only   *)
(* logged, and Init is called on nil.                                      *)
NoRunner ==
    /\ Up /\ rpc = "start"
    /\ proc' = "panic"
    /\ UNCHANGED <<parentDone, upstream, stepVars, runVars>>

(* A client given a context that is done does not start.                   *)
ClientStarts ==
    /\ Up /\ rpc \in ClientPhase /\ ~Skipped /\ ~client /\ MoreToRun
    /\ rpc \in Cancelable => ~parentDone
    /\ client' = TRUE
    /\ PhaseReport
    /\ UNCHANGED <<parentDone, proc, stepVars, rpc, index, status, done,
                   informed, stoppedFirst>>

ClientSucceeds ==
    /\ Up /\ client
    /\ client' = FALSE
    /\ index' = index + 1
    /\ done' = done \cup {<<rpc, index>>}
    /\ PhaseReport
    /\ UNCHANGED <<parentDone, proc, stepVars, rpc, status, informed,
                   stoppedFirst>>

(* By itself, killed with the context, or not even started.                *)
ClientFails ==
    /\ Up /\ rpc \in ClientPhase
    /\ \/ client
       \/ rpc \in Cancelable /\ parentDone /\ ~Skipped /\ MoreToRun
    /\ client' = FALSE
    /\ status' = Failure
    /\ Enter(Following[rpc])
    /\ PhaseReport
    /\ UNCHANGED <<parentDone, proc, stepVars, done, informed,
                   stoppedFirst>>

PhaseEnds ==
    /\ Up /\ rpc \in ClientPhase /\ ~Skipped /\ ~client /\ ~MoreToRun
    /\ Enter(Following[rpc])
    /\ UNCHANGED <<parentDone, proc, upstream, stepVars, client, status, done,
                   informed, stoppedFirst>>

Skip ==
    /\ Up /\ Skipped
    /\ Enter(Following[rpc])
    /\ UNCHANGED <<parentDone, proc, upstream, stepVars, client, status, done,
                   informed, stoppedFirst>>

CallSteps ==
    /\ rpc = "steps" /\ ~Skipped
    /\ Steps!Call
    /\ UNCHANGED runVars

StepsReturned ==
    /\ Up /\ rpc = "steps" /\ phase = "returned"
    /\ status' = result.status
    /\ Enter(Following[rpc])
    /\ UNCHANGED <<parentDone, proc, upstream, stepVars, client, done,
                   informed, stoppedFirst>>

(* Mutant: the update tells how the steps did.                             *)
FinalUpdate_OfSteps == IF result = Ok THEN "Completed" ELSE "Failed"
FinalUpdate == IF status = "Success" THEN "Completed" ELSE "Failed"

Inform ==
    /\ Up /\ rpc = "inform"
    /\ informed' = FinalUpdate
    /\ Publish(informed')
    /\ Enter(Following[rpc])
    /\ UNCHANGED <<parentDone, proc, stepVars, client, status, done,
                   stoppedFirst>>

-----------------------------------------------------------------------------
(***************************************************************************)
(* What happens around Run: runAllSteps and the goroutines it leaves       *)
(* behind, and the cancellation by a signal or a stop request.             *)
(***************************************************************************)
StepsWork == (Steps!Report \/ Steps!Return \/ Steps!Die) /\ UNCHANGED runVars
Cancelled == Steps!Cancel /\ UNCHANGED runVars

Next == \/ Begin \/ NoRunner
        \/ ClientStarts \/ ClientSucceeds \/ ClientFails \/ PhaseEnds
        \/ Skip \/ CallSteps \/ StepsReturned \/ Inform
        \/ StepsWork \/ Cancelled

Spec == Init /\ [][Next]_vars

-----------------------------------------------------------------------------
(***************************************************************************)
(* Safety                                                                  *)
(***************************************************************************)
NoneDone(p) == \A c \in done : c[1] # p
NoData == NoneDone("data")
NoInputs == NoneDone("input")
AllDone(p, n) == \A i \in 0..(n - 1) : <<p, i>> \in done
Pulled == AllDone("pull", 1)
DataCreated == AllDone("data", NumData)
InputsDownloaded == AllDone("input", NumInputs)
Uploaded == AllDone("upload", 1)

(* The steps run only on what they need: pulled images, every data         *)
(* container and every input.                                              *)
StepsNeedInputs ==
    phase # "idle" => Pulled /\ DataCreated /\ InputsDownloaded

(* Upstream is told that a job completed only if everything was done for   *)
(* it, its outputs are uploaded, and it was not stopped before Run was     *)
(* called or before its step.                                              *)
HonestCompletion ==
    informed = "Completed" =>
        /\ Pulled /\ DataCreated /\ InputsDownloaded /\ Uploaded
        /\ phase = "returned" /\ result = Ok /\ ~doomed /\ ~stoppedFirst

(* Once upstream has been told how the job ended, the exit code names the  *)
(* first thing that went wrong, unless the upload went wrong as well.      *)
StatusExplained ==
    informed # "none" =>
        CASE status = "OutputFailed" -> ~Uploaded
          [] status = "DockerPullFailed" -> ~Pulled /\ NoData
          [] status = "DockerCreateFailed" ->
                 Pulled /\ ~DataCreated /\ NoInputs
          [] status = "InputFailed" ->
                 Pulled /\ DataCreated /\ ~InputsDownloaded
          [] status = "StepFailed" -> InputsDownloaded /\ result = StepFailed
          [] OTHER -> informed = "Completed"

(* After the final update only what the steps left behind can publish      *)
(* another one: Run itself is silent.                                      *)
SilentAfterFinal ==
    [][informed # "none" /\ phase = "idle" => upstream' = upstream]_vars

-----------------------------------------------------------------------------
(***************************************************************************)
(* Liveness                                                                *)
(***************************************************************************)
(* docker login, the upload, docker-compose down and docker network rm     *)
(* cannot be cancelled, so they have to end by themselves.                 *)
MustEnd == {"login", "upload", "down", "rmnet"}

(* The steps Run takes without waiting for a client that can be killed.    *)
RunProgress ==
    \/ Begin \/ NoRunner \/ ClientStarts \/ PhaseEnds \/ Skip \/ CallSteps
    \/ StepsReturned \/ Inform
    \/ /\ rpc \in MustEnd \/ (parentDone /\ rpc \in Cancelable)
       /\ ClientSucceeds \/ ClientFails

(* The Go scheduler runs the goroutine of Run, and runAllSteps keeps the   *)
(* fair part of its contract.                                              *)
FairSpec ==
    /\ Spec
    /\ WF_vars(RunProgress)
    /\ WF_vars(parentDone /\ Steps!Return /\ UNCHANGED runVars)

-----------------------------------------------------------------------------
(***************************************************************************)
(* Refinement: Run keeps the contract main.go relies on.                   *)
(***************************************************************************)
phaseBar == CASE rpc = "start" -> "idle"
              [] rpc = "done" -> "returned"
              [] rpc # "done" /\ informed # "none" -> "informed"
              [] OTHER -> "running"
exitBar == IF rpc = "done" THEN status ELSE "none"

Contract == INSTANCE RunContract
                WITH phase <- phaseBar, announced <- informed, exitCode <- exitBar

KeepsContract == Contract!Spec

(* A stopped job ends, though nothing else it waits for ever does: what    *)
(* main.go waits for after a signal or a stop request.                     *)
StopEndsRun == Contract!StopReturns
=============================================================================
