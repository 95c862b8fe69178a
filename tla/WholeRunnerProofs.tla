------------------------- MODULE WholeRunnerProofs ---------------------------
(***************************************************************************)
(* Proofs about Run with the real runAllSteps (JobWithSteps), and about    *)
(* the whole process (WholeRunner), for every number of resources, data    *)
(* containers, inputs, stop requests and signals.  What the proofs of the  *)
(* modules show of main, of Run and of runAllSteps is carried over, and    *)
(* not proved again: a step of the whole is a step of each of them, or     *)
(* leaves it alone.                                                        *)
(***************************************************************************)
EXTENDS WholeRunner, StepRunnerProofs

RunFacts == INSTANCE JobRunProofs
                WITH phase <- phaseBar, doomed <- bornDone, result <- resultBar

LifeFacts == INSTANCE MainLifecycleProofs
                 WITH mpc <- main, client <- amqp,
                      phase <- Run!phaseBar, announced <- informed,
                      exitCode <- Run!exitBar,
                      pending <- signals # <<>>, busy <- receiver = "f"

USE NumDataAssumption, NumInputsAssumption
    DEF ctxVars, mainVars, stepVars, configVars, serverVars

(* Until Run calls it, runAllSteps is as at the start.                     *)
Fresh ==
    /\ cancelled = FALSE /\ bornDone = FALSE /\ err = "nil"
    /\ mpc = "idle" /\ exitBy = "none" /\ result = NoReturn
    /\ cpos = 1 /\ complaints = {}
    /\ proxy = "idle"
    /\ step = "idle" /\ execRet = NoReturn
    /\ cpc = "idle" /\ kpos = 0 /\ configRet = NoReturn
    /\ containers = {}
    /\ call = [c \in Call |-> "unsent"] /\ k8s = {}

StepsInv == TypeInv /\ SafeInv /\ ResourceInv

(* The steps in their job: they keep their invariant once they are called, *)
(* and they are not called before Run has begun.                           *)
InJob ==
    /\ parentDone \in BOOLEAN /\ proc \in Process /\ upstream \in JobState
    /\ rpc = "start" => mpc = "idle"
    /\ IF mpc = "idle" THEN Fresh ELSE StepsInv

LEMMA FreshInv ==
    ASSUME Fresh, Up, parentDone \in BOOLEAN, upstream \in JobState
    PROVE  StepsInv
<1>1. TypeInv
  <2>1. call \in [Call -> CallState]
    BY DEF Fresh, CallState
  <2>2. cpos \in 1..(NumResources + 1) /\ kpos \in 0..NumResources
    BY NumResourcesAssumption DEF Fresh
  <2> QED
    BY <2>1, <2>2 DEF Fresh, TypeInv, TypeOK, InRange, NoReturn, AsyncReturn, Process, Up
<1>2. SafeInv
  BY DEF Fresh, Up, SafeInv, NothingBeforeStart, WhyEnded, Waiting, ExecResult, ConfigResult,
      NilErr, NilExplained, ResultInv, BornDone, PanicNeedsSuccess, SuccessExplained,
      StoppedBeforeStep, StepSucceeded, NoReturn, Ok, StepFailed
<1>3. PostInv /\ UndoInv /\ DeleteInv /\ OutputInv
  BY NumResourcesAssumption DEF Fresh, PostInv, UndoInv, DeleteInv, OutputInv, Waiting,
      Configured, RolledBack, Deleted, ConfigureUndone, NoReturn, Ok, Call, Resource, CtxDone
<1> QED
  BY <1>1, <1>2, <1>3 DEF StepsInv, ResourceInv

(* Run's own steps leave runAllSteps alone, but for what was published and *)
(* the containers that docker-compose down removes.                        *)
LEMMA StepsFrame ==
    ASSUME StepsInv, UNCHANGED <<hiddenVars, parentDone, proc>>, upstream' \in JobState,
           containers' \subseteq containers
    PROVE  StepsInv'
<1> USE DEF hiddenVars
<1>1. TypeInv'
  BY DEF StepsInv, TypeInv, TypeOK, InRange
<1>2. SafeInv'
  <2>1. NothingBeforeStart' /\ WhyEnded' /\ ExecResult' /\ ConfigResult'
    BY DEF StepsInv, SafeInv, NothingBeforeStart, WhyEnded, Waiting, ExecResult, ConfigResult,
           CtxDone
  <2>2. NilErr' /\ ResultInv' /\ BornDone'
    BY DEF StepsInv, SafeInv, NilErr, NilExplained, ResultInv, BornDone, StepSucceeded
  <2>3. PanicNeedsSuccess' /\ SuccessExplained' /\ StoppedBeforeStep'
    BY DEF StepsInv, SafeInv, PanicNeedsSuccess, SuccessExplained, StoppedBeforeStep,
           StepSucceeded
  <2> QED
    BY <2>1, <2>2, <2>3 DEF SafeInv
<1>3. PostInv' /\ UndoInv'
  BY DEF StepsInv, ResourceInv, PostInv, UndoInv, ConfigureUndone, Configured, RolledBack,
         CtxDone
<1>4. DeleteInv' /\ OutputInv'
  BY DEF StepsInv, ResourceInv, DeleteInv, OutputInv, StepClientFailed, Waiting, Deleted
<1> QED
  BY <1>1, <1>2, <1>3, <1>4 DEF StepsInv, ResourceInv

LEMMA StepsNext ==
    ASSUME StepsInv, [Next]_vars
    PROVE  StepsInv'
BY TypeNext, SafeNext, ResourceNext DEF StepsInv

(* What Run's own steps do to what it shares with runAllSteps.             *)
LEMMA RunStepChanges ==
    ASSUME RunStep, InJob
    PROVE  /\ UNCHANGED <<hiddenVars, parentDone>>
           /\ containers' \subseteq containers
           /\ upstream' \in JobState
           /\ rpc' # "start" \/ UNCHANGED rpc
           /\ proc' = proc \/ (rpc = "start" /\ proc' \in Process)
<1> USE DEF JobState, InJob
<1>1. UNCHANGED hiddenVars /\ containers' \subseteq containers
  BY DEF RunStep, RunBegins, RunGoesOn, ComposeDown, ownVars
<1>2. CASE Run!Begin
  BY <1>1, <1>2 DEF Run!Begin, Run!Enter, Run!Publish
<1>3. CASE Run!NoRunner
  BY <1>1, <1>3 DEF Run!NoRunner, Run!runVars, Process
<1>4. CASE Run!ClientStarts \/ Run!ClientSucceeds
  BY <1>1, <1>4 DEF Run!ClientStarts, Run!ClientSucceeds, Run!PhaseReport
<1>5. CASE Run!ClientFails
  BY <1>1, <1>5 DEF Run!ClientFails, Run!PhaseReport, Run!Enter, Run!Following, Run!ClientPhase
<1>6. CASE Run!PhaseEnds \/ Run!Skip \/ Run!StepsReturned
  BY <1>1, <1>6 DEF Run!PhaseEnds, Run!Skip, Run!Skipped, Run!Guarded, Run!StepsReturned,
                    Run!Enter, Run!Following, Run!ClientPhase
<1>7. CASE Run!Inform
  BY <1>1, <1>7 DEF Run!Inform, Run!Publish, Run!Enter, Run!Following, Run!FinalUpdate
<1> QED
  BY <1>2, <1>3, <1>4, <1>5, <1>6, <1>7 DEF RunStep, RunBegins, RunGoesOn, ComposeDown

(* runAllSteps is called once, and does not cancel the context of the job. *)
LEMMA WorkGoesOn ==
    ASSUME StepsWork
    PROVE  mpc' # "idle" /\ UNCHANGED parentDone
BY DEF StepsWork, Main, StartStep, SelectExec, SelectConfig, SelectDone, EndWait,
       CleanupSend, CleanupAck, CleanupErr, CleanupReports, Return,
       Proxy, ProxyStart, ProxyFails, ProxyReports, ProxyExits,
       Step, StepStart, StepFails, StepReportsError, StepSendsError, StepExits,
       StepReportsSuccess, Configure, ConfigNoRoute, PollSend, PollNotReady, PollReady,
       CreateSend, CreateAck, CreateErr, RollbackSend, RollbackNext, RollbackDone,
       Server, ServerAccepts, Orphan, OrphanEnds

LEMMA InJobInit == JobInit => InJob
BY DEF JobInit, Init, InJob, Fresh, Process, JobState

LEMMA InJobNext == InJob /\ [JobNext]_jobVars => InJob'
<1> SUFFICES ASSUME InJob, [JobNext]_jobVars PROVE InJob'
  OBVIOUS
<1>1. CASE RunStep
  <2>1. /\ UNCHANGED <<hiddenVars, parentDone, mpc>> /\ containers' \subseteq containers
        /\ upstream' \in JobState /\ proc' \in Process
        /\ rpc' = "start" => rpc = "start"
    BY <1>1, RunStepChanges DEF InJob, hiddenVars
  <2>2. CASE mpc = "idle"
    <3>1. Fresh'
      BY <2>1, <2>2 DEF InJob, Fresh, ownVars, hiddenVars
    <3> QED
      BY <2>1, <2>2, <3>1 DEF InJob
  <2>3. CASE mpc # "idle"
    <3>1. UNCHANGED proc
      BY <1>1, <2>3, RunStepChanges DEF InJob
    <3>2. StepsInv'
      BY <2>1, <2>3, <3>1, StepsFrame DEF InJob
    <3> QED
      BY <2>1, <2>3, <3>2 DEF InJob
  <2> QED
    BY <2>2, <2>3
<1>2. CASE CallSteps
  <2>1. rpc' = rpc /\ rpc = "steps" /\ mpc = "idle" /\ mpc' = "select" /\ Up
    BY <1>2 DEF CallSteps, StartStep, runVars
  <2>2. StepsInv
    BY <2>1, FreshInv DEF InJob
  <2>3. StepsInv'
    BY <1>2, <2>2, StepsNext DEF CallSteps, Next, Main
  <2> QED
    BY <2>1, <2>3 DEF InJob, StepsInv, TypeInv, TypeOK
<1>3. CASE StepsWork
  <2>1. StepsInv /\ rpc' = rpc /\ rpc # "start"
    BY <1>3 DEF StepsWork, InJob, runVars
  <2>2. StepsInv'
    BY <1>3, <2>1, StepsNext DEF StepsWork, Next
  <2>3. mpc' # "idle"
    BY <1>3, WorkGoesOn
  <2> QED
    BY <2>1, <2>2, <2>3 DEF InJob, StepsInv, TypeInv, TypeOK
<1>4. CASE Cancelled
  <2>1. /\ UNCHANGED <<ownVars, proc, upstream, mpc, rpc>> /\ parentDone' = TRUE
    BY <1>4 DEF Cancelled, CancelParent, ownVars, hiddenVars, runVars
  <2>2. CASE mpc = "idle"
    BY <2>1, <2>2 DEF InJob, Fresh, ownVars, hiddenVars
  <2>3. CASE mpc # "idle"
    <3>1. StepsInv'
      BY <1>4, <2>3, StepsNext DEF InJob, Cancelled, Next
    <3> QED
      BY <2>1, <2>3, <3>1 DEF InJob
  <2> QED
    BY <2>2, <2>3
<1>5. CASE UNCHANGED jobVars
  <2>1. UNCHANGED <<ownVars, hiddenVars, parentDone, proc, upstream, mpc, rpc>>
    BY <1>5 DEF jobVars, vars, runVars, ownVars, hiddenVars
  <2>2. CASE mpc = "idle"
    BY <2>1, <2>2 DEF InJob, Fresh, ownVars, hiddenVars
  <2>3. CASE mpc # "idle"
    <3>1. StepsInv'
      BY <2>1, <2>3, StepsFrame DEF InJob, ownVars
    <3> QED
      BY <2>1, <2>3, <3>1 DEF InJob
  <2> QED
    BY <2>2, <2>3
<1> QED
  BY <1>1, <1>2, <1>3, <1>4, <1>5 DEF JobNext

(* In a job of any size, what StepRunnerProofs shows of runAllSteps called *)
(* by itself holds of it from the moment Run has called it.                *)
THEOREM StepsInJob == JobSpec => []InJob
BY InJobInit, InJobNext, PTL DEF JobSpec

-----------------------------------------------------------------------------
(***************************************************************************)
(* Refinement: with the real runAllSteps, Run behaves as JobRun.           *)
(***************************************************************************)
LEMMA RunInit == JobInit => Run!Init
BY DEF JobInit

(* A step of runAllSteps is one its contract allows, and not a call or a   *)
(* cancellation.                                                           *)
LEMMA WorkRefines ==
    ASSUME InJob, StepsWork
    PROVE  Run!StepsWork \/ UNCHANGED Run!vars
<1>1. StepsInv /\ mpc # "idle"
  BY DEF InJob, StepsWork
<1>2. [Contract!Next]_(Contract!vars)
  BY <1>1, ContractNext DEF StepsInv, StepsWork, Next
<1>3. phaseBar # "idle" /\ UNCHANGED <<parentDone, runVars>>
  BY <1>1, WorkGoesOn DEF phaseBar, StepsWork
<1>4. CASE Contract!Report
  BY <1>3, <1>4 DEF Contract!Report, Run!Steps!Report, Run!StepsWork, Run!runVars, runVars
<1>5. CASE Contract!Return
  BY <1>3, <1>5 DEF Contract!Return, Run!Steps!Return, Run!StepsWork, Run!runVars, runVars,
     Contract!Ok, Contract!StepFailed, Run!Steps!Ok, Run!Steps!StepFailed
<1>6. CASE Contract!Die
  BY <1>3, <1>6 DEF Contract!Die, Run!Steps!Die, Run!StepsWork, Run!runVars, runVars
<1>7. CASE Contract!Call \/ Contract!Cancel
  BY <1>3, <1>7 DEF Contract!Call, Contract!Cancel
<1>8. CASE UNCHANGED Contract!vars
  BY <1>3, <1>8 DEF Contract!vars, Run!vars, Run!stepVars, Run!runVars, runVars
<1> QED
  BY <1>2, <1>4, <1>5, <1>6, <1>7, <1>8 DEF Contract!Next

LEMMA RunNext ==
    ASSUME InJob, [JobNext]_jobVars
    PROVE  [Run!Next]_(Run!vars)
<1>1. CASE RunStep
  BY <1>1 DEF RunStep, RunBegins, RunGoesOn, ComposeDown, Run!Next
<1>2. CASE CallSteps
  <2>1. mpc = "idle" /\ ~cancelled /\ mpc' = "select" /\ Up
    BY <1>2 DEF CallSteps, StartStep, InJob, Fresh
  <2>2. phaseBar = "idle" /\ phaseBar' = "running" /\ UNCHANGED resultBar
    BY <2>1 DEF phaseBar, resultBar
  <2>3. CtxDone = parentDone
    BY <2>1 DEF CtxDone, InJob
  <2>4. Run!Steps!Call
    BY <1>2, <2>2, <2>3 DEF CallSteps, StartStep, Publish, Up, Run!Steps!Call
  <2> QED
    BY <1>2, <2>4 DEF CallSteps, Run!CallSteps, Run!Next, Run!runVars, runVars
<1>3. CASE StepsWork
  BY <1>3, WorkRefines DEF Run!Next
<1>4. CASE Cancelled
  BY <1>4 DEF Cancelled, CancelParent, Up, Run!Cancelled, Run!Steps!Cancel, Run!Next,
     Run!runVars, runVars, phaseBar, resultBar
<1>5. CASE UNCHANGED jobVars
  BY <1>5 DEF jobVars, vars, runVars, Run!vars, Run!stepVars, Run!runVars, phaseBar, resultBar
<1> QED
  BY <1>1, <1>2, <1>3, <1>4, <1>5 DEF JobNext

(* Run, with the real runAllSteps in place of the contract, takes only     *)
(* steps that JobRun allows.                                               *)
THEOREM JobImplementsRun == JobSpec => ImplementsRun
<1>1. InJob /\ [JobNext]_jobVars => [Run!Next]_(Run!vars)
  BY RunNext
<1> QED
  BY <1>1, RunInit, StepsInJob, PTL DEF JobSpec, ImplementsRun, Run!Spec

-----------------------------------------------------------------------------
(* What JobRunProofs shows is about the same Run: the definitions of       *)
(* JobRun, instantiated here twice with the same substitution.             *)
LEMMA SameClients ==
    /\ Run!Begin => RunFacts!Begin
    /\ Run!NoRunner => RunFacts!NoRunner
    /\ Run!ClientStarts => RunFacts!ClientStarts
    /\ Run!ClientSucceeds => RunFacts!ClientSucceeds
    /\ Run!ClientFails => RunFacts!ClientFails
<1> USE DEF Run!Up, RunFacts!Up, Run!Publish, RunFacts!Publish, Run!Enter, RunFacts!Enter,
            Run!stepVars, RunFacts!stepVars, Run!runVars, RunFacts!runVars,
            Run!ClientPhase, RunFacts!ClientPhase, Run!Cancelable, RunFacts!Cancelable,
            Run!PhaseReport, RunFacts!PhaseReport, Run!Reporting, RunFacts!Reporting
<1>1. (Run!Skipped <=> RunFacts!Skipped) /\ (Run!MoreToRun <=> RunFacts!MoreToRun)
  BY DEF Run!Skipped, RunFacts!Skipped, Run!Guarded, RunFacts!Guarded,
         Run!MoreToRun, RunFacts!MoreToRun, Run!Clients, RunFacts!Clients
<1>2. Run!Begin => RunFacts!Begin
  BY DEF Run!Begin, RunFacts!Begin
<1>3. Run!NoRunner => RunFacts!NoRunner
  BY DEF Run!NoRunner, RunFacts!NoRunner
<1>4. Run!ClientStarts => RunFacts!ClientStarts
  BY <1>1 DEF Run!ClientStarts, RunFacts!ClientStarts
<1>5. Run!ClientSucceeds => RunFacts!ClientSucceeds
  BY DEF Run!ClientSucceeds, RunFacts!ClientSucceeds
<1>6. Run!ClientFails => RunFacts!ClientFails
  BY <1>1 DEF Run!ClientFails, RunFacts!ClientFails, Run!Failure, RunFacts!Failure,
              Run!Following, RunFacts!Following
<1> QED
  BY <1>2, <1>3, <1>4, <1>5, <1>6

LEMMA SamePhases ==
    /\ Run!PhaseEnds => RunFacts!PhaseEnds
    /\ Run!Skip => RunFacts!Skip
    /\ Run!CallSteps => RunFacts!CallSteps
    /\ Run!StepsReturned => RunFacts!StepsReturned
    /\ Run!Inform => RunFacts!Inform
    /\ Run!StepsWork => RunFacts!StepsWork
    /\ Run!Cancelled => RunFacts!Cancelled
<1> USE DEF Run!Up, RunFacts!Up, Run!Publish, RunFacts!Publish, Run!Enter, RunFacts!Enter,
            Run!stepVars, RunFacts!stepVars, Run!runVars, RunFacts!runVars,
            Run!ClientPhase, RunFacts!ClientPhase, Run!Following, RunFacts!Following
<1>1. (Run!Skipped <=> RunFacts!Skipped) /\ (Run!MoreToRun <=> RunFacts!MoreToRun)
  BY DEF Run!Skipped, RunFacts!Skipped, Run!Guarded, RunFacts!Guarded,
         Run!MoreToRun, RunFacts!MoreToRun, Run!Clients, RunFacts!Clients
<1>2. Run!PhaseEnds => RunFacts!PhaseEnds
  BY <1>1 DEF Run!PhaseEnds, RunFacts!PhaseEnds
<1>3. Run!Skip => RunFacts!Skip
  BY <1>1 DEF Run!Skip, RunFacts!Skip
<1>4. Run!CallSteps => RunFacts!CallSteps
  BY <1>1 DEF Run!CallSteps, RunFacts!CallSteps, Run!Steps!Call, RunFacts!Steps!Call
<1>5. Run!StepsReturned => RunFacts!StepsReturned
  BY DEF Run!StepsReturned, RunFacts!StepsReturned
<1>6. Run!Inform => RunFacts!Inform
  BY DEF Run!Inform, RunFacts!Inform, Run!FinalUpdate, RunFacts!FinalUpdate
<1>7. Run!StepsWork => RunFacts!StepsWork
  BY DEF Run!StepsWork, RunFacts!StepsWork, Run!Steps!Report, RunFacts!Steps!Report,
         Run!Steps!Return, RunFacts!Steps!Return, Run!Steps!Die, RunFacts!Steps!Die,
         Run!Steps!Ok, RunFacts!Steps!Ok, Run!Steps!StepFailed, RunFacts!Steps!StepFailed
<1>8. Run!Cancelled => RunFacts!Cancelled
  BY DEF Run!Cancelled, RunFacts!Cancelled, Run!Steps!Cancel, RunFacts!Steps!Cancel
<1> QED
  BY <1>2, <1>3, <1>4, <1>5, <1>6, <1>7, <1>8

LEMMA SameRunNext == [Run!Next]_(Run!vars) => [RunFacts!Next]_(RunFacts!vars)
<1>1. Run!Next => RunFacts!Next
  BY SameClients, SamePhases DEF Run!Next, RunFacts!Next
<1>2. UNCHANGED Run!vars => UNCHANGED RunFacts!vars
  BY DEF Run!vars, RunFacts!vars, Run!stepVars, RunFacts!stepVars, Run!runVars,
         RunFacts!runVars
<1> QED
  BY <1>1, <1>2

LEMMA SameRunInit == Run!Init => RunFacts!Init
BY DEF Run!Init, RunFacts!Init, Run!NoReturn, RunFacts!NoReturn

LEMMA SameRun == Run!Spec => RunFacts!Spec
BY SameRunInit, SameRunNext, PTL DEF Run!Spec, RunFacts!Spec

LEMMA SameContract == RunFacts!KeepsContract => Run!KeepsContract
<1> USE DEF Run!phaseBar, RunFacts!phaseBar, Run!exitBar, RunFacts!exitBar,
            Run!Contract!FinalState, RunFacts!Contract!FinalState,
            Run!Contract!StatusCode, RunFacts!Contract!StatusCode
<1>1. RunFacts!Contract!Init => Run!Contract!Init
  BY DEF Run!Contract!Init, RunFacts!Contract!Init
<1>2. RunFacts!Contract!Next => Run!Contract!Next
  <2>1. RunFacts!Contract!Call => Run!Contract!Call
    BY DEF Run!Contract!Call, RunFacts!Contract!Call
  <2>2. RunFacts!Contract!Report => Run!Contract!Report
    BY DEF Run!Contract!Report, RunFacts!Contract!Report
  <2>3. RunFacts!Contract!Announce => Run!Contract!Announce
    BY DEF Run!Contract!Announce, RunFacts!Contract!Announce
  <2>4. RunFacts!Contract!Return => Run!Contract!Return
    BY DEF Run!Contract!Return, RunFacts!Contract!Return
  <2>5. RunFacts!Contract!Die => Run!Contract!Die
    BY DEF Run!Contract!Die, RunFacts!Contract!Die
  <2>6. RunFacts!Contract!Cancel => Run!Contract!Cancel
    BY DEF Run!Contract!Cancel, RunFacts!Contract!Cancel
  <2> QED
    BY <2>1, <2>2, <2>3, <2>4, <2>5, <2>6 DEF Run!Contract!Next, RunFacts!Contract!Next
<1>3. UNCHANGED RunFacts!Contract!vars => UNCHANGED Run!Contract!vars
  BY DEF Run!Contract!vars, RunFacts!Contract!vars
<1> QED
  BY <1>1, <1>2, <1>3, PTL DEF Run!KeepsContract, RunFacts!KeepsContract, Run!Contract!Spec,
     RunFacts!Contract!Spec

(* Run keeps with the real runAllSteps the contract main.go relies on.     *)
THEOREM JobKeepsContract == JobSpec => KeepsRunContract
<1>1. RunFacts!Spec => RunFacts!KeepsContract
  BY RunFacts!RunRefinement
<1> QED
  BY <1>1, JobImplementsRun, SameRun, SameContract DEF ImplementsRun, KeepsRunContract

-----------------------------------------------------------------------------
(***************************************************************************)
(* What neither of the two can promise alone                               *)
(***************************************************************************)
LEMMA RunInJob == JobSpec => [](RunFacts!TypeOK /\ RunFacts!JobInv)
<1>1. RunFacts!Spec => [](RunFacts!TypeOK /\ RunFacts!JobInv)
  BY RunFacts!JobSafe
<1> QED
  BY <1>1, JobImplementsRun, SameRun DEF ImplementsRun

(* What Run knows of the steps, in terms of their own state.               *)
LEMMA RunKnows ==
    ASSUME InJob, RunFacts!TypeOK, RunFacts!JobInv
    PROVE  /\ AfterSteps => mpc \in {"idle", "returned"}
           /\ informed # "none" => rpc \in {"down", "rmnet", "done"}
<1>1. phaseBar \in {"idle", "returned"} => mpc \in {"idle", "returned"}
  BY DEF phaseBar
<1>2. AfterSteps => phaseBar # "running"
  BY DEF AfterSteps, RunFacts!JobInv, RunFacts!StepsInv, RunFacts!AfterSteps,
         RunFacts!AfterUpload, RunFacts!AfterInform
<1>3. phaseBar \in {"idle", "running", "returned"}
  BY DEF phaseBar
<1>4. informed # "none" => rpc \in {"down", "rmnet", "done"}
  BY DEF RunFacts!JobInv, RunFacts!InformInv, RunFacts!AfterInform
<1> QED
  BY <1>1, <1>2, <1>3, <1>4

LEMMA Explained ==
    ASSUME InJob, RunFacts!JobInv
    PROVE  CompletionExplained
<1> SUFFICES ASSUME informed = "Completed"
             PROVE  /\ Run!Pulled /\ Run!DataCreated /\ Run!InputsDownloaded
                    /\ Run!Uploaded /\ ~bornDone /\ ~stoppedFirst
                    /\ \/ StepSucceeded
                       \/ proxy = "exited"
                       \/ exitBy = "config" /\ configRet = Ok
  BY DEF CompletionExplained
<1>1. /\ RunFacts!Pulled /\ RunFacts!DataCreated /\ RunFacts!InputsDownloaded
      /\ RunFacts!Uploaded /\ phaseBar = "returned" /\ resultBar = RunFacts!Ok
      /\ ~bornDone /\ ~stoppedFirst
  BY RunFacts!Honest DEF RunFacts!HonestCompletion
<1>2. Run!Pulled /\ Run!DataCreated /\ Run!InputsDownloaded /\ Run!Uploaded
  BY <1>1 DEF Run!Pulled, Run!DataCreated, Run!InputsDownloaded, Run!Uploaded,
     Run!AllDone, RunFacts!Pulled, RunFacts!DataCreated, RunFacts!InputsDownloaded,
     RunFacts!Uploaded, RunFacts!AllDone
<1>3. mpc = "returned" /\ ~result.err
  BY <1>1 DEF phaseBar, resultBar, RunFacts!Ok
<1>4. SuccessExplained
  BY <1>3 DEF InJob, StepsInv, SafeInv
<1> QED
  BY <1>1, <1>2, <1>3, <1>4 DEF SuccessExplained

(* Upstream hears of a completed job only if everything was done for it,   *)
(* and its step succeeded or its failure was hidden by the shared err.     *)
THEOREM CompletionIsExplained == JobSpec => []CompletionExplained
BY Explained, StepsInJob, RunInJob, PTL

(* The outputs Run uploads are complete or of a step it knows to have      *)
(* failed, but for a wait that ended with the answer of ConfigureK8s and   *)
(* an error that the proxy's exit erased.                                  *)
THEOREM UploadIsFinished == JobSpec => []UploadsFinished
<1>1. InJob /\ RunFacts!TypeOK /\ RunFacts!JobInv => UploadsFinished
  <2> SUFFICES ASSUME InJob, RunFacts!TypeOK, RunFacts!JobInv,
                      rpc = "upload", "step" \in containers
               PROVE  StepOutlives
    BY DEF UploadsFinished
  <2>1. mpc # "idle"
    BY DEF InJob, Fresh
  <2>2. mpc = "returned"
    BY <2>1, RunKnows DEF AfterSteps
  <2>3. TypeInv /\ SafeInv /\ OutputInv
    BY <2>1 DEF InJob, StepsInv, ResourceInv
  <2> QED
    BY <2>2, <2>3, WhyOutlives
<1> QED
  BY <1>1, StepsInJob, RunInJob, PTL

(* A job stopped before Run was called does not come to its step.          *)
NotCalled == stoppedFirst => mpc = "idle"

LEMMA NotCalledNext ==
    ASSUME InJob, RunFacts!JobInv, NotCalled, [JobNext]_jobVars
    PROVE  NotCalled'
<1> USE DEF NotCalled
<1>1. CASE RunStep
  <2>1. stoppedFirst' => stoppedFirst \/ rpc = "start"
    BY <1>1 DEF RunStep, RunBegins, RunGoesOn, ComposeDown, Run!Begin, Run!NoRunner,
       Run!ClientStarts, Run!ClientSucceeds, Run!ClientFails, Run!PhaseEnds, Run!Skip,
       Run!StepsReturned, Run!Inform, Run!runVars
  <2>2. UNCHANGED mpc
    BY <1>1 DEF RunStep, RunBegins, RunGoesOn, ComposeDown, ownVars, hiddenVars
  <2> QED
    BY <2>1, <2>2 DEF InJob
<1>2. CASE CallSteps
  <2>1. rpc = "steps" /\ status = "Success" /\ UNCHANGED stoppedFirst
    BY <1>2 DEF CallSteps, Run!Skipped, Run!Guarded, runVars
  <2>2. ~stoppedFirst
    BY <2>1 DEF RunFacts!JobInv, RunFacts!StoppedInv, RunFacts!AfterPull,
       RunFacts!AfterData, RunFacts!AfterInput
  <2> QED
    BY <2>1, <2>2
<1>3. CASE StepsWork
  BY <1>3 DEF StepsWork, runVars
<1>4. CASE Cancelled
  BY <1>4 DEF Cancelled, CancelParent, runVars
<1>5. CASE UNCHANGED jobVars
  BY <1>5 DEF jobVars, vars, runVars
<1> QED
  BY <1>1, <1>2, <1>3, <1>4, <1>5 DEF JobNext

LEMMA NotCalledQuiet ==
    ASSUME InJob, NotCalled
    PROVE  StoppedFirstStartsNothing
BY DEF InJob, Fresh, NotCalled, StoppedFirstStartsNothing

(* A job stopped before Run was called gets nowhere near its step.         *)
THEOREM StoppedFirstIsQuiet == JobSpec => []StoppedFirstStartsNothing
<1>1. JobInit => NotCalled
  BY DEF JobInit, Init, NotCalled
<1>2. InJob /\ RunFacts!JobInv /\ NotCalled /\ [JobNext]_jobVars => NotCalled'
  BY NotCalledNext
<1> QED
  BY <1>1, <1>2, NotCalledQuiet, StepsInJob, RunInJob, PTL DEF JobSpec

(* A job panics for want of a runner, or because of the shared err.        *)
THEOREM PanicIsExplained == JobSpec => []PanicExplained
<1> DEFINE NoRunnerOnly == mpc = "idle" /\ proc = "panic" => rpc = "start"
<1>1. JobInit => NoRunnerOnly
  BY DEF JobInit, Init
<1>2. ASSUME NoRunnerOnly, [JobNext]_jobVars
      PROVE  NoRunnerOnly'
  <2>1. CASE RunStep
    <3>1. CASE Run!NoRunner
      BY <1>2, <3>1 DEF Run!NoRunner, Run!runVars
    <3>2. CASE ~Run!NoRunner
      BY <2>1, <3>2 DEF RunStep, RunBegins, RunGoesOn, ComposeDown, Run!Up, Run!Begin,
         Run!ClientStarts, Run!ClientSucceeds, Run!ClientFails, Run!PhaseEnds, Run!Skip,
         Run!StepsReturned, Run!Inform
    <3> QED
      BY <3>1, <3>2
  <2>2. CASE CallSteps
    BY <2>2 DEF CallSteps, StartStep
  <2>3. CASE StepsWork
    BY <2>3, WorkGoesOn
  <2>4. CASE Cancelled
    BY <1>2, <2>4 DEF Cancelled, CancelParent, runVars
  <2>5. CASE UNCHANGED jobVars
    BY <1>2, <2>5 DEF jobVars, vars, runVars
  <2> QED
    BY <1>2, <2>1, <2>2, <2>3, <2>4, <2>5 DEF JobNext
<1>3. InJob /\ NoRunnerOnly => PanicExplained
  BY DEF InJob, StepsInv, SafeInv, PanicNeedsSuccess, PanicExplained
<1> QED
  BY <1>1, <1>2, <1>3, StepsInJob, PTL DEF JobSpec

LEMMA StartsNothing ==
    ASSUME InJob, RunFacts!TypeOK, RunFacts!JobInv, [JobNext]_jobVars, AfterSteps
    PROVE  /\ containers' \subseteq containers
           /\ \A c \in Call : call[c] = "unsent" => call'[c] = "unsent"
<1>1. CASE RunStep
  BY <1>1, RunStepChanges DEF hiddenVars
<1>2. CASE CallSteps
  BY <1>2 DEF CallSteps, AfterSteps
<1>3. CASE StepsWork
  <2>1. mpc = "returned" /\ SafeInv
    BY <1>3, RunKnows DEF StepsWork, InJob, StepsInv
  <2>2. Next
    BY <1>3 DEF StepsWork, Next
  <2> QED
    BY <2>1, <2>2, AfterReturn
<1>4. CASE Cancelled
  BY <1>4 DEF Cancelled, CancelParent
<1>5. CASE UNCHANGED jobVars
  BY <1>5 DEF jobVars, vars
<1> QED
  BY <1>1, <1>2, <1>3, <1>4, <1>5 DEF JobNext

(* From the upload on, what runAllSteps has left behind starts nothing.    *)
THEOREM NothingIsStarted == JobSpec => NothingStartsFromUpload
<1>1. InJob /\ RunFacts!TypeOK /\ RunFacts!JobInv /\ [JobNext]_jobVars =>
          [AfterSteps => /\ containers' \subseteq containers
                         /\ \A c \in Call : call[c] = "unsent" => call'[c] = "unsent"]_jobVars
  BY StartsNothing
<1> QED
  BY <1>1, StepsInJob, RunInJob, PTL DEF JobSpec, NothingStartsFromUpload

(* When docker-compose down has succeeded, and what it says of Run.        *)
DownInv == <<"down", 0>> \in done => rpc \in {"down", "rmnet", "done"} /\ containers = {}

LEMMA DownNext ==
    ASSUME InJob, RunFacts!TypeOK, RunFacts!JobInv, DownInv, [JobNext]_jobVars
    PROVE  DownInv'
<1> SUFFICES ASSUME <<"down", 0>> \in done'
             PROVE  rpc' \in {"down", "rmnet", "done"} /\ containers' = {}
  BY DEF DownInv
<1>1. CASE <<"down", 0>> \in done
  <2>1. rpc \in {"down", "rmnet", "done"} /\ containers = {}
    BY <1>1 DEF DownInv
  <2>2. containers' = {}
    BY <2>1, StartsNothing DEF AfterSteps
  <2>3. rpc' \in {"down", "rmnet", "done"}
    BY <2>1 DEF JobNext, RunStep, RunBegins, RunGoesOn, ComposeDown, Run!Begin, Run!NoRunner,
       Run!ClientStarts, Run!ClientSucceeds, Run!ClientFails, Run!PhaseEnds, Run!Skip,
       Run!StepsReturned, Run!Inform, Run!Enter, Run!Following, Run!ClientPhase, Run!runVars,
       CallSteps, StepsWork, Cancelled, runVars, jobVars, Run!Skipped, Run!Guarded
  <2> QED
    BY <2>2, <2>3
<1>2. CASE <<"down", 0>> \notin done
  <2>1. ComposeDown
    <3>1. done' # done
      BY <1>2
    <3>2. Run!ClientSucceeds /\ (rpc # "down" => RunGoesOn)
      BY <3>1 DEF JobNext, RunStep, RunBegins, RunGoesOn, ComposeDown, Run!Begin, Run!NoRunner,
         Run!ClientStarts, Run!ClientFails, Run!PhaseEnds, Run!Skip,
         Run!StepsReturned, Run!Inform, Run!runVars, CallSteps, StepsWork, Cancelled,
         runVars, jobVars
    <3>3. <<"down", 0>> = <<rpc, index>>
      BY <1>2, <3>2 DEF Run!ClientSucceeds
    <3>4. rpc = "down"
      BY <3>3
    <3> QED
      BY <3>1, <3>4 DEF JobNext, RunStep, RunBegins, RunGoesOn, ComposeDown, Run!Begin,
         Run!NoRunner, Run!ClientStarts, Run!ClientFails, Run!PhaseEnds, Run!Skip,
         Run!StepsReturned, Run!Inform, Run!runVars, CallSteps, StepsWork, Cancelled,
         runVars, jobVars
  <2> QED
    BY <1>2, <2>1 DEF ComposeDown, Run!ClientSucceeds, Run!ClientFails
<1> QED
  BY <1>1, <1>2

(* docker-compose down has the last word on the containers of the job.     *)
THEOREM DownHasTheLastWord == JobSpec => []DownIsFinal
<1>1. JobInit => DownInv
  BY DEF JobInit, Run!Init, DownInv
<1>2. InJob /\ RunFacts!TypeOK /\ RunFacts!JobInv /\ DownInv /\ [JobNext]_jobVars => DownInv'
  BY DownNext
<1>3. DownInv => DownIsFinal
  BY DEF DownInv, DownIsFinal
<1> QED
  BY <1>1, <1>2, <1>3, StepsInJob, RunInJob, PTL DEF JobSpec

(* What a goroutine that runAllSteps left behind still publishes.          *)
LEMMA LeftBehindReports ==
    ASSUME StepsInv, StepsWork, mpc = "returned", upstream' # upstream
    PROVE  /\ upstream' = "Running"
           /\ \/ proxy = "reporting"
              \/ cpc \in {"create", "creating"}
              \/ exitBy \in {"config", "context"}
<1> USE DEF Publish, NilError
<1>1. CASE Main
  BY <1>1 DEF Main, StartStep, SelectExec, SelectConfig, SelectDone,
              CleanupSend, CleanupAck, CleanupErr, CleanupReports, Return
<1>2. CASE Proxy
  BY <1>2 DEF Proxy, ProxyStart, ProxyFails, ProxyReports, ProxyExits
<1>3. CASE Step
  <2>1. step # "done" /\ upstream' = "Running"
    BY <1>3 DEF Step, StepStart, StepFails, StepReportsError, StepSendsError, StepExits,
       StepReportsSuccess
  <2>2. exitBy \in {"config", "context"}
    BY <2>1 DEF StepsInv, SafeInv, WhyEnded, Waiting, TypeInv, TypeOK
  <2> QED
    BY <2>1, <2>2
<1>4. CASE Configure
  BY <1>4 DEF Configure, ConfigNoRoute, PollSend, PollNotReady, PollReady, CreateSend,
              CreateAck, CreateErr, RollbackSend, RollbackNext, RollbackDone
<1>5. CASE Server \/ Orphan
  BY <1>5 DEF Server, ServerAccepts, Orphan, OrphanEnds
<1> QED
  BY <1>1, <1>2, <1>3, <1>4, <1>5 DEF StepsWork

LEMMA AfterTheLastWord ==
    ASSUME InJob, RunFacts!TypeOK, RunFacts!JobInv, [JobNext]_jobVars,
           informed # "none", upstream' # upstream
    PROVE  /\ upstream' = "Running" /\ mpc = "returned"
           /\ \/ proxy = "reporting"
              \/ cpc \in {"create", "creating"}
              \/ exitBy \in {"config", "context"}
<1>1. /\ AfterSteps /\ rpc \in {"down", "rmnet", "done"}
      /\ mpc \in {"idle", "returned"}
  BY RunKnows DEF AfterSteps
<1>2. CASE RunStep
  BY <1>1, <1>2 DEF RunStep, RunBegins, RunGoesOn, ComposeDown, Run!Begin,
     Run!NoRunner, Run!ClientStarts, Run!ClientSucceeds, Run!ClientFails,
     Run!PhaseReport, Run!Reporting, Run!PhaseEnds, Run!Skip, Run!StepsReturned,
     Run!Inform
<1>3. CASE CallSteps
  BY <1>1, <1>3 DEF CallSteps
<1>4. CASE StepsWork
  <2>1. StepsInv /\ mpc = "returned"
    BY <1>1, <1>4 DEF StepsWork, InJob
  <2> QED
    BY <1>4, <2>1, LeftBehindReports
<1>5. CASE Cancelled \/ UNCHANGED jobVars
  BY <1>5 DEF Cancelled, CancelParent, jobVars, vars
<1> QED
  BY <1>2, <1>3, <1>4, <1>5 DEF JobNext

(* Only Running can follow what upstream was finally told, and only from a *)
(* goroutine that runAllSteps left behind.                                 *)
THEOREM FinalWordIsKept == JobSpec => FinalWord
<1>1. InJob /\ RunFacts!TypeOK /\ RunFacts!JobInv /\ [JobNext]_jobVars =>
          [informed # "none" /\ upstream' # upstream =>
              /\ upstream' = "Running" /\ mpc = "returned"
              /\ \/ proxy = "reporting"
                 \/ cpc \in {"create", "creating"}
                 \/ exitBy \in {"config", "context"}]_jobVars
  BY AfterTheLastWord
<1> QED
  BY <1>1, StepsInJob, RunInJob, PTL DEF JobSpec, FinalWord

-----------------------------------------------------------------------------
(***************************************************************************)
(* What MainLifecycleProofs shows is about the same main: its definitions, *)
(* instantiated twice with the same substitution.                          *)
(***************************************************************************)
LEMMA SameVars ==
    /\ Life!runVars = LifeFacts!runVars /\ Life!signalVars = LifeFacts!signalVars
    /\ Life!mainVars = LifeFacts!mainVars /\ Life!stopVars = LifeFacts!stopVars
    /\ Life!vars = LifeFacts!vars
BY DEF Life!runVars, LifeFacts!runVars, Life!signalVars, LifeFacts!signalVars,
       Life!mainVars, LifeFacts!mainVars, Life!stopVars, LifeFacts!stopVars,
       Life!vars, LifeFacts!vars

LEMMA SameDeaths ==
    /\ Life!ShowVersion => LifeFacts!ShowVersion
    /\ Life!Fatal => LifeFacts!Fatal
    /\ Life!ComposePanics => LifeFacts!ComposePanics
    /\ Life!CallRunUnready => LifeFacts!CallRunUnready
    /\ Life!OsExit => LifeFacts!OsExit
    /\ Life!Killed => LifeFacts!Killed
    /\ Life!HandlerPanics => LifeFacts!HandlerPanics
    /\ \A r \in StopRequest : Life!StopPanics(r) => LifeFacts!StopPanics(r)
BY DEF Life!ShowVersion, LifeFacts!ShowVersion, Life!Fatal, LifeFacts!Fatal,
       Life!ComposePanics, LifeFacts!ComposePanics,
       Life!CallRunUnready, LifeFacts!CallRunUnready, Life!OsExit, LifeFacts!OsExit,
       Life!Killed, LifeFacts!Killed, Life!HandlerPanics, LifeFacts!HandlerPanics,
       Life!StopPanics, LifeFacts!StopPanics, Life!PublishPanics, LifeFacts!PublishPanics,
       Life!Dies, LifeFacts!Dies, Life!Up, LifeFacts!Up,
       Life!Preparing, LifeFacts!Preparing,
       Life!signalVars, LifeFacts!signalVars, Life!mainVars, LifeFacts!mainVars,
       Life!stopVars, LifeFacts!stopVars

LEMMA SameStartup ==
    /\ Life!NotifySignals => LifeFacts!NotifySignals
    /\ Life!ReadJob => LifeFacts!ReadJob
    /\ Life!CheckJob => LifeFacts!CheckJob
    /\ Life!CreateJobFile => LifeFacts!CreateJobFile
    /\ Life!FillJobFile => LifeFacts!FillJobFile
    /\ Life!Connect => LifeFacts!Connect
    /\ Life!SetUpPublishing => LifeFacts!SetUpPublishing
    /\ Life!Compose => LifeFacts!Compose
    /\ Life!StartExit => LifeFacts!StartExit
    /\ Life!AddConsumer => LifeFacts!AddConsumer
BY SameVars DEF Life!NotifySignals, LifeFacts!NotifySignals, Life!ReadJob, LifeFacts!ReadJob,
       Life!CheckJob, LifeFacts!CheckJob, Life!CreateJobFile, LifeFacts!CreateJobFile,
       Life!FillJobFile, LifeFacts!FillJobFile, Life!Connect, LifeFacts!Connect,
       Life!SetUpPublishing, LifeFacts!SetUpPublishing, Life!Compose, LifeFacts!Compose,
       Life!StartExit, LifeFacts!StartExit, Life!AddConsumer, LifeFacts!AddConsumer,
       Life!Goto, LifeFacts!Goto, Life!Up, LifeFacts!Up,
       Life!runVars, LifeFacts!runVars, Life!signalVars, LifeFacts!signalVars,
       Life!stopVars, LifeFacts!stopVars

LEMMA SameMainStep ==
    /\ Life!MainStep => LifeFacts!MainStep
    /\ Life!ExitCancels => LifeFacts!ExitCancels
<1> USE DEF Life!Goto, LifeFacts!Goto, Life!Up, LifeFacts!Up,
       Life!runVars, LifeFacts!runVars, Life!signalVars, LifeFacts!signalVars,
       Life!mainVars, LifeFacts!mainVars, Life!stopVars, LifeFacts!stopVars,
       Life!CancelContext, LifeFacts!CancelContext
<1>1. Life!CallRun => LifeFacts!CallRun
  BY DEF Life!CallRun, LifeFacts!CallRun, Life!Run!Call, LifeFacts!Run!Call
<1>2. Life!RunReturned => LifeFacts!RunReturned
  BY DEF Life!RunReturned, LifeFacts!RunReturned
<1>3. Life!RemoveJobFile => LifeFacts!RemoveJobFile
  BY DEF Life!RemoveJobFile, LifeFacts!RemoveJobFile
<1>4. Life!CancelAgain => LifeFacts!CancelAgain
  BY DEF Life!CancelAgain, LifeFacts!CancelAgain
<1>5. Life!ExitCancels => LifeFacts!ExitCancels
  BY DEF Life!ExitCancels, LifeFacts!ExitCancels
<1> QED
  BY <1>1, <1>2, <1>3, <1>4, <1>5, SameDeaths, SameStartup
     DEF Life!MainStep, LifeFacts!MainStep

LEMMA SameHandlerStep ==
    /\ Life!SignalArrives => LifeFacts!SignalArrives
    /\ Life!SignalTaken => LifeFacts!SignalTaken
    /\ Life!HandlerCancels => LifeFacts!HandlerCancels
    /\ Life!HandlerSkips => LifeFacts!HandlerSkips
    /\ Life!HandlerFails => LifeFacts!HandlerFails
    /\ Life!HandlerPublishes => LifeFacts!HandlerPublishes
<1> USE DEF Life!Up, LifeFacts!Up,
       Life!runVars, LifeFacts!runVars, Life!signalVars, LifeFacts!signalVars,
       Life!mainVars, LifeFacts!mainVars, Life!stopVars, LifeFacts!stopVars
<1>1. Life!SignalArrives => LifeFacts!SignalArrives
  BY DEF Life!SignalArrives, LifeFacts!SignalArrives, Life!Signals!Arrive,
         LifeFacts!Signals!Arrive
<1>2. Life!SignalTaken => LifeFacts!SignalTaken
  BY DEF Life!SignalTaken, LifeFacts!SignalTaken, Life!Signals!Take,
         LifeFacts!Signals!Take
<1>3. Life!HandlerCancels => LifeFacts!HandlerCancels
  BY DEF Life!HandlerCancels, LifeFacts!HandlerCancels,
         Life!CancelContext, LifeFacts!CancelContext
<1>4. Life!HandlerSkips => LifeFacts!HandlerSkips
  BY DEF Life!HandlerSkips, LifeFacts!HandlerSkips, Life!Signals!Finish,
         LifeFacts!Signals!Finish
<1>5. Life!HandlerFails => LifeFacts!HandlerFails
  BY DEF Life!HandlerFails, LifeFacts!HandlerFails
<1>6. Life!HandlerPublishes => LifeFacts!HandlerPublishes
  BY DEF Life!HandlerPublishes, LifeFacts!HandlerPublishes, Life!Signals!Finish,
         LifeFacts!Signals!Finish
<1> QED
  BY <1>1, <1>2, <1>3, <1>4, <1>5, <1>6

LEMMA SameStopStep ==
    \A r \in StopRequest : Life!StopStep(r) => LifeFacts!StopStep(r)
BY SameDeaths DEF Life!StopStep, LifeFacts!StopStep, Life!StopArrives, LifeFacts!StopArrives,
   Life!StopReported, LifeFacts!StopReported, Life!ExitReceives, LifeFacts!ExitReceives,
   Life!Up, LifeFacts!Up,
   Life!runVars, LifeFacts!runVars, Life!signalVars, LifeFacts!signalVars,
   Life!mainVars, LifeFacts!mainVars

LEMMA SameRunSteps == Life!RunStep => LifeFacts!RunStep
BY DEF Life!RunStep, LifeFacts!RunStep, Life!RunReports, LifeFacts!RunReports,
   Life!RunEnds, LifeFacts!RunEnds, Life!RunDies, LifeFacts!RunDies,
   Life!Run!Report, LifeFacts!Run!Report, Life!Run!Announce, LifeFacts!Run!Announce,
   Life!Run!Return, LifeFacts!Run!Return, Life!Run!Die, LifeFacts!Run!Die,
   Life!Run!FinalState, LifeFacts!Run!FinalState,
   Life!Run!StatusCode, LifeFacts!Run!StatusCode,
   Life!signalVars, LifeFacts!signalVars,
   Life!mainVars, LifeFacts!mainVars, Life!stopVars, LifeFacts!stopVars

LEMMA SameMainInit == Life!Init => LifeFacts!Init
BY DEF Life!Init, LifeFacts!Init, Life!Run!Init, LifeFacts!Run!Init,
       Life!Signals!Init, LifeFacts!Signals!Init

LEMMA SameMainNext == [Life!Next]_(Life!vars) => [LifeFacts!Next]_(LifeFacts!vars)
<1>1. Life!Next => LifeFacts!Next
  BY SameMainStep, SameHandlerStep, SameDeaths, SameStopStep, SameRunSteps
     DEF Life!Next, LifeFacts!Next, Life!HandlerStep, LifeFacts!HandlerStep
<1>2. UNCHANGED Life!vars => UNCHANGED LifeFacts!vars
  BY DEF Life!vars, LifeFacts!vars, Life!runVars, LifeFacts!runVars,
         Life!signalVars, LifeFacts!signalVars, Life!mainVars, LifeFacts!mainVars,
         Life!stopVars, LifeFacts!stopVars
<1> QED
  BY <1>1, <1>2

-----------------------------------------------------------------------------
(***************************************************************************)
(* What is shown above of a job that runs by itself holds of the job       *)
(* beside main, the handler and the consumer, while the process is up.     *)
(***************************************************************************)
JobOK == InJob /\ RunFacts!TypeOK /\ RunFacts!JobInv /\ DownInv /\ NotCalled

LEMMA JobKept ==
    ASSUME JobOK, [JobNext]_jobVars
    PROVE  JobOK'
<1>1. [RunFacts!Next]_(RunFacts!vars)
  BY RunNext, SameRunNext DEF JobOK
<1>2. RunFacts!TypeOK'
  BY <1>1, RunFacts!JobTypeNext DEF JobOK
<1>3. RunFacts!JobInv'
  BY <1>1, RunFacts!JobNext DEF JobOK
<1> QED
  BY <1>2, <1>3, InJobNext, DownNext, NotCalledNext DEF JobOK

(* What another part of the process publishes is no matter to the job.     *)
LEMMA PublishedBeside ==
    ASSUME JobOK, UNCHANGED <<parentDone, proc, runOwnVars, stoppedFirst>>,
           upstream' \in JobState
    PROVE  JobOK'
<1> USE DEF runOwnVars, ownVars
<1>1. InJob'
  <2>1. CASE mpc = "idle"
    <3>1. Fresh'
      BY <2>1 DEF JobOK, InJob, Fresh, hiddenVars
    <3> QED
      BY <2>1, <3>1 DEF JobOK, InJob, hiddenVars
  <2>2. CASE mpc # "idle"
    <3>1. StepsInv'
      BY <2>2, StepsFrame DEF JobOK, InJob
    <3> QED
      BY <2>2, <3>1 DEF JobOK, InJob, hiddenVars
  <2> QED
    BY <2>1, <2>2
<1>2. UNCHANGED <<phaseBar, resultBar>>
  BY DEF hiddenVars, phaseBar, resultBar
<1>3. RunFacts!TypeOK' /\ RunFacts!JobInv'
  <2>1. UNCHANGED <<parentDone, proc, RunFacts!stepVars, RunFacts!runVars>>
    BY <1>2 DEF RunFacts!stepVars, RunFacts!runVars, hiddenVars
  <2> QED
    BY <2>1, RunFacts!JobFrame DEF JobOK, JobState, RunFacts!JobState
<1>4. DownInv' /\ NotCalled'
  BY DEF JobOK, DownInv, NotCalled, hiddenVars
<1> QED
  BY <1>1, <1>3, <1>4 DEF JobOK

(* A cancellation by main or by its callbacks is one the job is used to.   *)
LEMMA CancelledBeside ==
    ASSUME JobOK, Up, UNCHANGED <<proc, upstream, runOwnVars, stoppedFirst>>,
           parentDone' = TRUE
    PROVE  JobOK'
<1> USE DEF runOwnVars, ownVars, hiddenVars
<1>1. CASE parentDone
  BY <1>1, PublishedBeside DEF JobOK, InJob
<1>2. CASE ~parentDone
  <2>1. Cancelled
    BY <1>2 DEF Cancelled, CancelParent, runVars
  <2> QED
    BY <2>1, JobKept DEF JobNext
<1> QED
  BY <1>1, <1>2

(* The steps beside the job are those of MainLifecycle without Run's.      *)
LEMMA BesideRefines ==
    ASSUME MainGoesOn \/ SignalHandled
    PROVE  LifeFacts!MainStep \/ LifeFacts!HandlerStep \/ LifeFacts!ExitCancels
           \/ \E r \in StopRequest : LifeFacts!StopStep(r)
BY SameMainStep, SameHandlerStep, SameDeaths, SameStopStep
   DEF MainGoesOn, SignalHandled, LifeFacts!HandlerStep

LEMMA BesideChanges ==
    ASSUME LifeFacts!TypeOK, LifeFacts!MainInv, MainGoesOn \/ SignalHandled
    PROVE  /\ Up /\ UNCHANGED <<runOwnVars, stoppedFirst>>
           /\ \/ /\ proc' # "up" /\ UNCHANGED <<parentDone, upstream, lifeVars>>
                 /\ proc' = "panic" => main = "compose" \/ amqp # "ready"
              \/ /\ UNCHANGED <<parentDone, proc>>
                 /\ \/ UNCHANGED upstream
                    \/ upstream' = "Failed" /\ hpc = "publish"
                    \/ upstream' = "Running" /\ \E r \in StopRequest : stop[r] = "acked"
              \/ parentDone' = TRUE /\ UNCHANGED <<proc, upstream>>
<1>1. UNCHANGED runOwnVars /\ UNCHANGED Run!phaseBar
  BY DEF MainGoesOn, SignalHandled, runOwnVars, Run!phaseBar
<1> USE DEF LifeFacts!runVars, LifeFacts!Up, LifeFacts!Goto, Up
<1>2. CASE LifeFacts!Death
  <2>1. UNCHANGED <<parentDone, upstream, stoppedFirst, lifeVars>>
    BY <1>2, LifeFacts!DeathChanges DEF lifeVars, LifeFacts!mainVars, LifeFacts!stopVars
  <2>2. Up /\ proc' # "up" /\ (proc' = "panic" => main = "compose" \/ amqp # "ready")
    BY <1>2 DEF LifeFacts!Death, LifeFacts!ShowVersion, LifeFacts!Fatal,
       LifeFacts!ComposePanics, LifeFacts!CallRunUnready, LifeFacts!OsExit, LifeFacts!Killed,
       LifeFacts!HandlerPanics, LifeFacts!StopPanics, LifeFacts!PublishPanics, LifeFacts!Dies
  <2> QED
    BY <1>1, <2>1, <2>2
<1>3. CASE LifeFacts!Startup
  BY <1>1, <1>3 DEF LifeFacts!Startup, LifeFacts!NotifySignals, LifeFacts!ReadJob,
     LifeFacts!CheckJob, LifeFacts!CreateJobFile, LifeFacts!FillJobFile, LifeFacts!Connect,
     LifeFacts!SetUpPublishing, LifeFacts!Compose, LifeFacts!StartExit, LifeFacts!AddConsumer
<1>4. CASE LifeFacts!Wrapup \/ LifeFacts!StopRuns \/ LifeFacts!Handling
  BY <1>1, <1>4 DEF LifeFacts!Wrapup, LifeFacts!RunReturned, LifeFacts!RemoveJobFile,
     LifeFacts!StopRuns, LifeFacts!StopArrives, LifeFacts!ExitReceives,
     LifeFacts!Handling, LifeFacts!SignalArrives, LifeFacts!SignalTaken,
     LifeFacts!HandlerSkips, LifeFacts!HandlerFails
<1>5. CASE LifeFacts!Cancelling
  <2>1. Up
    BY <1>5 DEF LifeFacts!Cancelling, LifeFacts!CancelAgain, LifeFacts!HandlerCancels,
                LifeFacts!ExitCancels
  <2> QED
    BY <1>1, <1>5, <2>1, LifeFacts!CancelChanges
<1>6. CASE LifeFacts!CallRun
  BY <1>1, <1>6 DEF LifeFacts!CallRun, LifeFacts!Run!Call
<1>7. CASE LifeFacts!HandlerPublishes \/ \E r \in StopRequest : LifeFacts!StopReported(r)
  BY <1>1, <1>7 DEF LifeFacts!HandlerPublishes, LifeFacts!StopReported
<1> QED
  BY <1>2, <1>3, <1>4, <1>5, <1>6, <1>7, BesideRefines, LifeFacts!MainSplit

(* A process that has ended leaves app-exposer and docker to themselves.   *)
LEMMA DeadChanges ==
    ASSUME [RunnerNext]_allVars, ~Up
    PROVE  /\ UNCHANGED <<lifeVars, handlerVars, ctxVars, proc, upstream, err, mainVars, proxy,
                          stepVars, configVars, runVars>>
           /\ containers' \subseteq containers
           /\ \A c \in Call : call[c] = "unsent" => call'[c] = "unsent"
<1>1. CASE Job
  <2>1. StepsWork
    BY <1>1 DEF Job, RunGoesOn, ComposeDown, CallSteps, StartStep, Up, Run!Up,
       Run!ClientStarts, Run!ClientSucceeds, Run!ClientFails, Run!PhaseEnds, Run!Skip,
       Run!StepsReturned, Run!Inform
  <2>2. Server \/ Orphan
    BY <2>1 DEF StepsWork, Main, StartStep, SelectExec, SelectConfig, SelectDone, EndWait,
       CleanupSend, CleanupAck, CleanupErr, CleanupReports, Return,
       Proxy, ProxyStart, ProxyFails, ProxyReports, ProxyExits,
       Step, StepStart, StepFails, StepReportsError, StepSendsError, StepExits,
       StepReportsSuccess, Configure, ConfigNoRoute, PollSend, PollNotReady, PollReady,
       CreateSend, CreateAck, CreateErr, RollbackSend, RollbackNext, RollbackDone
  <2>3. UNCHANGED <<lifeVars, handlerVars, runVars>>
    BY <1>1, <2>1 DEF Job, StepsWork
  <2>4. CASE Server
    BY <2>3, <2>4 DEF Server, ServerAccepts
  <2>5. CASE Orphan
    BY <2>3, <2>5 DEF Orphan, OrphanEnds
  <2> QED
    BY <2>2, <2>4, <2>5
<1>2. CASE MainCallsRun
  BY <1>2 DEF MainCallsRun, Run!Begin, Run!NoRunner, Up, Run!Up
<1>3. CASE MainGoesOn \/ SignalHandled
  <2>1. LifeFacts!Up
    BY <1>3, BesideRefines, LifeFacts!MainSplit DEF LifeFacts!Goto,
       LifeFacts!Death, LifeFacts!ShowVersion, LifeFacts!Fatal,
       LifeFacts!ComposePanics, LifeFacts!CallRunUnready, LifeFacts!OsExit, LifeFacts!Killed,
       LifeFacts!HandlerPanics, LifeFacts!StopPanics,
       LifeFacts!Startup, LifeFacts!NotifySignals, LifeFacts!ReadJob,
       LifeFacts!CheckJob, LifeFacts!CreateJobFile, LifeFacts!FillJobFile, LifeFacts!Connect,
       LifeFacts!SetUpPublishing, LifeFacts!Compose, LifeFacts!StartExit,
       LifeFacts!AddConsumer, LifeFacts!Wrapup, LifeFacts!RunReturned,
       LifeFacts!RemoveJobFile, LifeFacts!StopRuns, LifeFacts!StopArrives,
       LifeFacts!ExitReceives, LifeFacts!Handling, LifeFacts!SignalArrives,
       LifeFacts!SignalTaken, LifeFacts!HandlerSkips, LifeFacts!HandlerFails,
       LifeFacts!Cancelling, LifeFacts!CancelAgain, LifeFacts!HandlerCancels,
       LifeFacts!ExitCancels, LifeFacts!CallRun, LifeFacts!HandlerPublishes,
       LifeFacts!StopReported
  <2> QED
    BY <2>1 DEF LifeFacts!Up, Up
<1>4. CASE UNCHANGED allVars
  BY <1>4 DEF allVars, jobVars, vars
<1> QED
  BY <1>1, <1>2, <1>3, <1>4 DEF RunnerNext

LEMMA JobOKNext ==
    ASSUME LifeFacts!TypeOK, LifeFacts!MainInv, Up => JobOK, [RunnerNext]_allVars
    PROVE  Up' => JobOK'
<1> SUFFICES ASSUME Up' PROVE JobOK'
  OBVIOUS
<1>1. CASE ~Up
  BY <1>1, DeadChanges DEF Up
<1>2. CASE Up
  <2>1. CASE Job \/ MainCallsRun
    <3>1. JobNext
      BY <2>1 DEF Job, MainCallsRun, JobNext, RunStep, RunBegins
    <3> QED
      BY <1>2, <3>1, JobKept
  <2>2. CASE MainGoesOn \/ SignalHandled
    <3>1. upstream' \in JobState \/ upstream' = upstream
      BY <2>2, BesideChanges DEF JobState
    <3>2. CASE UNCHANGED <<parentDone, proc>>
      BY <1>2, <2>2, <3>2, BesideChanges, PublishedBeside DEF JobOK, InJob, JobState
    <3>3. CASE parentDone' = TRUE /\ UNCHANGED <<proc, upstream>>
      BY <1>2, <2>2, <3>3, BesideChanges, CancelledBeside
    <3> QED
      BY <2>2, <3>2, <3>3, BesideChanges DEF Up
  <2>3. CASE UNCHANGED allVars
    BY <1>2, <2>3, JobKept DEF allVars
  <2> QED
    BY <2>1, <2>2, <2>3 DEF RunnerNext
<1> QED
  BY <1>1, <1>2

-----------------------------------------------------------------------------
(***************************************************************************)
(* Refinement: the process is the one MainLifecycle describes.             *)
(***************************************************************************)
LEMMA SamePhase ==
    /\ Run!phaseBar = RunFacts!phaseBar /\ Run!phaseBar' = RunFacts!phaseBar'
    /\ Run!exitBar = RunFacts!exitBar /\ Run!exitBar' = RunFacts!exitBar'
BY DEF Run!phaseBar, RunFacts!phaseBar, Run!exitBar, RunFacts!exitBar

(* The job goes on only once main has called Run, and does not cancel the  *)
(* context.                                                                *)
LEMMA JobGoesOn ==
    ASSUME JobOK, Up, Job
    PROVE  rpc # "start" /\ UNCHANGED parentDone
<1>1. CASE RunGoesOn \/ ComposeDown
  <2>1. UNCHANGED parentDone
    BY <1>1 DEF RunGoesOn, ComposeDown, Run!ClientStarts, Run!ClientSucceeds,
       Run!ClientFails, Run!PhaseEnds, Run!Skip, Run!StepsReturned, Run!Inform
  <2>2. client => rpc # "start"
    BY DEF JobOK, RunFacts!JobInv, RunFacts!ClientInv, RunFacts!ClientPhase
  <2>3. rpc # "start"
    BY <1>1, <2>2 DEF RunGoesOn, ComposeDown, Run!ClientStarts, Run!ClientSucceeds,
       Run!ClientFails, Run!PhaseEnds, Run!Skip, Run!StepsReturned, Run!Inform,
       Run!ClientPhase, Run!Skipped, Run!Guarded
  <2> QED
    BY <2>1, <2>3
<1>2. CASE CallSteps
  BY <1>2 DEF CallSteps, StartStep
<1>3. CASE StepsWork
  <2>1. rpc # "start"
    BY <1>3 DEF StepsWork, JobOK, InJob
  <2> QED
    BY <1>3, <2>1, WorkGoesOn
<1> QED
  BY <1>1, <1>2, <1>3 DEF Job

LEMMA JobRefinesMain ==
    ASSUME JobOK, Up, Job
    PROVE  Life!RunStep \/ UNCHANGED Life!vars
<1>1. UNCHANGED <<Life!signalVars, Life!mainVars, hpc, Life!stopVars, early>>
  BY DEF Job, lifeVars, handlerVars, Life!signalVars, Life!mainVars, Life!stopVars
<1>2. [RunFacts!Contract!Next]_(RunFacts!Contract!vars)
  <2>1. [JobNext]_jobVars
    BY DEF Job, JobNext, RunStep
  <2>2. [RunFacts!Next]_(RunFacts!vars)
    BY <2>1, RunNext, SameRunNext DEF JobOK
  <2> QED
    BY <2>2, RunFacts!RunContractNext DEF JobOK
<1>3. CASE RunFacts!Contract!Call
  BY <1>3, JobGoesOn DEF RunFacts!Contract!Call, RunFacts!phaseBar
<1>4. CASE RunFacts!Contract!Report
  BY <1>1, <1>4, SamePhase DEF RunFacts!Contract!Report, Life!Run!Report, Life!RunReports,
     Life!RunStep
<1>5. CASE RunFacts!Contract!Announce
  BY <1>1, <1>5, SamePhase DEF RunFacts!Contract!Announce, Life!Run!Announce, Life!RunEnds,
     Life!RunStep, RunFacts!Contract!FinalState, Life!Run!FinalState
<1>6. CASE RunFacts!Contract!Return
  BY <1>1, <1>6, SamePhase DEF RunFacts!Contract!Return, Life!Run!Return, Life!RunEnds,
     Life!RunStep, RunFacts!Contract!StatusCode, Life!Run!StatusCode
<1>7. CASE RunFacts!Contract!Die
  <2>1. Run!phaseBar # "idle"
    BY JobGoesOn DEF Run!phaseBar
  <2> QED
    BY <1>1, <1>7, <2>1, SamePhase DEF RunFacts!Contract!Die, Life!Run!Die, Life!RunDies,
       Life!RunStep
<1>8. CASE RunFacts!Contract!Cancel
  BY <1>8, JobGoesOn DEF RunFacts!Contract!Cancel
<1>9. CASE UNCHANGED RunFacts!Contract!vars
  BY <1>1, <1>9, SamePhase DEF RunFacts!Contract!vars, Life!vars, Life!runVars
<1> QED
  BY <1>2, <1>3, <1>4, <1>5, <1>6, <1>7, <1>8, <1>9 DEF RunFacts!Contract!Next

LEMMA RunnerStepRefines ==
    ASSUME Up => JobOK, [RunnerNext]_allVars
    PROVE  [Life!Next]_(Life!vars)
<1>1. CASE Job
  <2>1. CASE Up
    BY <1>1, <2>1, JobRefinesMain DEF Life!Next
  <2>2. CASE ~Up
    <3>1. UNCHANGED <<lifeVars, handlerVars, parentDone, proc, upstream, runVars>>
      BY <2>2, DeadChanges
    <3> QED
      BY <3>1 DEF lifeVars, handlerVars, runVars, Life!vars, Life!runVars, Life!signalVars,
         Life!mainVars, Life!stopVars, Run!phaseBar, Run!exitBar
  <2> QED
    BY <2>1, <2>2
<1>2. CASE MainCallsRun
  BY <1>2 DEF MainCallsRun, Life!Next, Life!MainStep, Life!RunStep
<1>3. CASE MainGoesOn
  BY <1>3 DEF MainGoesOn, Life!Next, Life!HandlerStep
<1>4. CASE SignalHandled
  BY <1>4 DEF SignalHandled, Life!Next, Life!HandlerStep
<1>5. CASE UNCHANGED allVars
  BY <1>5 DEF allVars, jobVars, vars, runVars, lifeVars, handlerVars, Life!vars, Life!runVars,
     Life!signalVars, Life!mainVars, Life!stopVars, Run!phaseBar, Run!exitBar
<1> QED
  BY <1>1, <1>2, <1>3, <1>4, <1>5 DEF RunnerNext

(* What main knows, and what the job knows while the process is up.        *)
RunnerInv == LifeFacts!TypeOK /\ LifeFacts!MainInv /\ (Up => JobOK)

LEMMA RunnerInvInit == RunnerInit => RunnerInv
<1> SUFFICES ASSUME RunnerInit PROVE RunnerInv
  OBVIOUS
<1>1. LifeFacts!TypeOK /\ LifeFacts!MainInv
  BY SameMainInit, LifeFacts!MainInit DEF RunnerInit
<1>2. RunFacts!TypeOK /\ RunFacts!JobInv
  BY SameRunInit, RunInit, RunFacts!JobTypeInit, RunFacts!JobInit DEF RunnerInit
<1>3. InJob
  BY InJobInit DEF RunnerInit
<1>4. DownInv /\ NotCalled
  BY DEF RunnerInit, JobInit, Init, Run!Init, DownInv, NotCalled
<1> QED
  BY <1>1, <1>2, <1>3, <1>4 DEF RunnerInv, JobOK

LEMMA RunnerInvNext == RunnerInv /\ [RunnerNext]_allVars => RunnerInv'
<1> SUFFICES ASSUME RunnerInv, [RunnerNext]_allVars PROVE RunnerInv'
  OBVIOUS
<1>1. [LifeFacts!Next]_(LifeFacts!vars)
  BY RunnerStepRefines, SameMainNext DEF RunnerInv
<1>2. LifeFacts!TypeOK'
  BY <1>1, LifeFacts!MainTypeNext DEF RunnerInv
<1>3. LifeFacts!MainInv'
  BY <1>1, LifeFacts!MainNext DEF RunnerInv
<1>4. Up' => JobOK'
  BY JobOKNext DEF RunnerInv
<1> QED
  BY <1>2, <1>3, <1>4 DEF RunnerInv

(* main with the real Run, the real runAllSteps and the real handler keeps *)
(* its invariant, and so does the job until the process ends.              *)
THEOREM RunnerSafe == RunnerSpec => []RunnerInv
BY RunnerInvInit, RunnerInvNext, PTL DEF RunnerSpec

(* The process as a whole takes only the steps that MainLifecycle allows:  *)
(* what is shown of main with the contracts holds of it.                   *)
THEOREM RunnerImplementsMain == RunnerSpec => ImplementsMain
<1>1. RunnerInit => Life!Init
  BY DEF RunnerInit
<1>2. RunnerInv /\ [RunnerNext]_allVars => [Life!Next]_(Life!vars)
  BY RunnerStepRefines DEF RunnerInv
<1> QED
  BY <1>1, <1>2, RunnerSafe, PTL DEF RunnerSpec, ImplementsMain, Life!Spec

(* Its signal handler is the one of SignalHandling.                        *)
THEOREM RunnerImplementsHandler == RunnerSpec => ImplementsHandler
<1>1. RunnerInit => Handler!Init
  BY DEF RunnerInit
<1>2. [RunnerNext]_allVars => [Handler!Next]_(Handler!vars)
  <2>1. CASE SignalHandled
    BY <2>1 DEF SignalHandled, Handler!Next, Handler!vars, handlerVars
  <2>2. CASE Job \/ MainCallsRun \/ MainGoesOn \/ UNCHANGED allVars
    BY <2>2 DEF Job, MainCallsRun, MainGoesOn, allVars, Handler!vars, handlerVars
  <2> QED
    BY <2>1, <2>2 DEF RunnerNext
<1> QED
  BY <1>1, <1>2, PTL DEF RunnerSpec, ImplementsHandler, Handler!Spec

(* What main does with the contracts of Run and of the handler it does     *)
(* with the real ones.                                                     *)
THEOREM RunnerKeepsMainsPromises ==
    RunnerSpec => [](/\ Life!Recoverable /\ Life!EarlyStopFails
                     /\ Life!BlockedStopHarmless /\ Life!UpstreamExplained)
<1>1. RunnerInv => /\ Life!Recoverable /\ Life!EarlyStopFails
                   /\ Life!BlockedStopHarmless /\ Life!UpstreamExplained
  <2> SUFFICES ASSUME RunnerInv
               PROVE  /\ Life!Recoverable /\ Life!EarlyStopFails
                      /\ Life!BlockedStopHarmless /\ Life!UpstreamExplained
    OBVIOUS
  <2>1. LifeFacts!TypeOK /\ LifeFacts!PlaceInv /\ LifeFacts!RunInv /\ LifeFacts!CancelInv
        /\ LifeFacts!UpstreamExplained
    BY DEF RunnerInv, LifeFacts!MainInv
  <2>2. Life!Recoverable /\ Life!EarlyStopFails
    BY <2>1 DEF LifeFacts!TypeOK, LifeFacts!PlaceInv, LifeFacts!AfterCall, LifeFacts!RunInv,
       LifeFacts!CancelInv, Life!Recoverable, Life!EarlyStopFails
  <2>3. Life!BlockedStopHarmless
    BY <2>1 DEF LifeFacts!TypeOK, LifeFacts!PlaceInv, LifeFacts!AfterCall,
       LifeFacts!AfterConsumer, LifeFacts!CancelInv, Life!BlockedStopHarmless
  <2>4. Life!UpstreamExplained
    BY <2>1 DEF LifeFacts!UpstreamExplained, Life!UpstreamExplained
  <2> QED
    BY <2>2, <2>3, <2>4
<1> QED
  BY <1>1, RunnerSafe, PTL

-----------------------------------------------------------------------------
(***************************************************************************)
(* What only the whole process can promise.  A process that ends leaves    *)
(* things as they were, but for the containers that end by themselves and  *)
(* the requests app-exposer has still to take.                             *)
(***************************************************************************)
Frozen ==
    /\ UNCHANGED <<parentDone, upstream, bornDone, mainVars, proxy, stepVars, configVars,
                   runVars, lifeVars>>
    /\ containers' \subseteq containers
    /\ \A c \in Call : call[c] = "unsent" => call'[c] = "unsent"
    /\ (\A c \in Call : call[c] = "unsent") => k8s' = k8s

LEMMA DeadFreezes ==
    ASSUME [RunnerNext]_allVars, ~Up
    PROVE  Frozen
<1>1. ASSUME \A c \in Call : call[c] = "unsent" PROVE k8s' = k8s
  <2>1. CASE Job
    <3>1. ~Server
      BY <1>1 DEF Server, ServerAccepts
    <3> QED
      BY <2>1, <3>1 DEF Job, RunGoesOn, ComposeDown, CallSteps, StartStep, Up, Run!Up,
       Run!ClientStarts, Run!ClientSucceeds, Run!ClientFails, Run!PhaseEnds, Run!Skip,
       Run!StepsReturned, Run!Inform, StepsWork,
       Main, SelectExec, SelectConfig, SelectDone, EndWait,
       CleanupSend, CleanupAck, CleanupErr, CleanupReports, Return,
       Proxy, ProxyStart, ProxyFails, ProxyReports, ProxyExits,
       Step, StepStart, StepFails, StepReportsError, StepSendsError, StepExits,
       StepReportsSuccess, Configure, ConfigNoRoute, PollSend, PollNotReady, PollReady,
       CreateSend, CreateAck, CreateErr, RollbackSend, RollbackNext, RollbackDone,
       Orphan, OrphanEnds
  <2>2. CASE MainCallsRun \/ MainGoesOn \/ SignalHandled
    BY <2>2 DEF MainCallsRun, MainGoesOn, SignalHandled, runOwnVars, ownVars, hiddenVars
  <2>3. CASE UNCHANGED allVars
    BY <2>3 DEF allVars, jobVars, vars
  <2> QED
    BY <2>1, <2>2, <2>3 DEF RunnerNext
<1> QED
  BY <1>1, DeadChanges DEF Frozen

(* A step after which the job is known not to be as it should is one that  *)
(* ends the process or comes after its end.                                *)
LEMMA KeptOrFrozen ==
    ASSUME RunnerInv, [RunnerNext]_allVars
    PROVE  JobOK' \/ Frozen
<1>1. CASE ~Up
  BY <1>1, DeadFreezes
<1>2. CASE Up
  <2>1. CASE Job \/ MainCallsRun
    <3>1. JobNext
      BY <2>1 DEF Job, MainCallsRun, JobNext, RunStep, RunBegins
    <3> QED
      BY <1>2, <3>1, JobKept DEF RunnerInv
  <2>2. CASE Up' \/ UNCHANGED allVars
    <3>1. Up'
      BY <1>2, <2>2 DEF allVars, jobVars, vars, Up
    <3> QED
      BY <3>1, JobOKNext DEF RunnerInv
  <2>3. CASE (MainGoesOn \/ SignalHandled) /\ ~Up'
    <3>1. UNCHANGED <<parentDone, upstream, lifeVars, runOwnVars, stoppedFirst>>
      BY <1>2, <2>3, BesideChanges DEF RunnerInv, Up
    <3> QED
      BY <3>1 DEF Frozen, runOwnVars, ownVars, hiddenVars, runVars
  <2> QED
    BY <2>1, <2>2, <2>3 DEF RunnerNext
<1> QED
  BY <1>1, <1>2

(* Where main is while the job is at work.                                 *)
LEMMA WhereMainIs ==
    ASSUME JobOK, LifeFacts!MainInv
    PROVE  /\ mpc # "idle" => rpc # "start"
           /\ rpc # "start" => main \in {"run", "remove", "cancel", "exit"}
           /\ main \in {"remove", "cancel", "exit"} => rpc = "done"
           /\ main \in {"run", "remove"} => file = "full"
<1>1. /\ Run!phaseBar # "idle" <=> main \in {"run", "remove", "cancel", "exit"}
      /\ main \in {"remove", "cancel", "exit"} => Run!phaseBar = "returned"
      /\ main \in {"run", "remove"} => file = "full"
  BY DEF LifeFacts!MainInv, LifeFacts!PlaceInv, LifeFacts!AfterCall
<1>2. rpc # "start" => Run!phaseBar # "idle"
  BY DEF Run!phaseBar
<1>3. Run!phaseBar = "returned" => rpc = "done"
  BY DEF Run!phaseBar
<1>4. mpc # "idle" => rpc # "start"
  BY DEF JobOK, InJob
<1> QED
  BY <1>1, <1>2, <1>3, <1>4

(* However the process ends, every container it leaves running is found    *)
(* with the job file, unless docker-compose down had failed.               *)
THEOREM LeftoversAreFound == RunnerSpec => []LeftoversFound
<1>1. RunnerInit => LeftoversFound
  BY DEF RunnerInit, JobInit, Init, LeftoversFound
<1>2. JobOK /\ LifeFacts!MainInv => LeftoversFound
  <2> SUFFICES ASSUME JobOK, LifeFacts!MainInv, containers # {}, file # "full"
               PROVE  main \in {"cancel", "exit"} /\ <<"down", 0>> \notin done
    BY DEF LeftoversFound
  <2>1. mpc # "idle" /\ <<"down", 0>> \notin done
    BY DEF JobOK, InJob, Fresh, DownInv
  <2> QED
    BY <2>1, WhereMainIs
<1>3. RunnerInv /\ RunnerInv' /\ LeftoversFound /\ [RunnerNext]_allVars => LeftoversFound'
  <2> SUFFICES ASSUME RunnerInv, RunnerInv', LeftoversFound, [RunnerNext]_allVars
               PROVE  LeftoversFound'
    OBVIOUS
  <2>1. CASE JobOK'
    <3>1. LifeFacts!MainInv'
      BY DEF RunnerInv
    <3> QED
      BY <2>1, <3>1, <1>2, PTL
  <2>2. CASE Frozen
    BY <2>2 DEF Frozen, LeftoversFound, lifeVars, runVars
  <2> QED
    BY <2>1, <2>2, KeptOrFrozen
<1> QED
  BY <1>1, <1>3, RunnerSafe, PTL DEF RunnerSpec

(* A job cancelled before main called Run starts nothing.                  *)
THEOREM EarlyStopsAreQuiet == RunnerSpec => []EarlyStopsStartNothing
<1>1. RunnerInit => EarlyStopsStartNothing
  BY DEF RunnerInit, Life!Init, EarlyStopsStartNothing
<1>2. JobOK /\ LifeFacts!MainInv => EarlyStopsStartNothing
  <2> SUFFICES ASSUME JobOK, LifeFacts!MainInv, early
               PROVE  Fresh /\ mpc = "idle"
    BY DEF EarlyStopsStartNothing, Fresh
  <2>1. Run!phaseBar # "idle" => stoppedFirst
    BY DEF LifeFacts!MainInv, LifeFacts!CancelInv
  <2>2. mpc # "idle" => Run!phaseBar # "idle"
    BY WhereMainIs DEF Run!phaseBar
  <2> QED
    BY <2>1, <2>2 DEF JobOK, NotCalled, InJob
<1>3. RunnerInv /\ RunnerInv' /\ EarlyStopsStartNothing /\ [RunnerNext]_allVars =>
          EarlyStopsStartNothing'
  <2> SUFFICES ASSUME RunnerInv, RunnerInv', EarlyStopsStartNothing, [RunnerNext]_allVars
               PROVE  EarlyStopsStartNothing'
    OBVIOUS
  <2>1. CASE JobOK'
    <3>1. LifeFacts!MainInv'
      BY DEF RunnerInv
    <3> QED
      BY <2>1, <3>1, <1>2, PTL
  <2>2. CASE Frozen
    BY <2>2 DEF Frozen, EarlyStopsStartNothing, lifeVars
  <2> QED
    BY <2>1, <2>2, KeptOrFrozen
<1> QED
  BY <1>1, <1>3, RunnerSafe, PTL DEF RunnerSpec

(* Whoever published it, that the job completed is true.                   *)
THEOREM CompletedIsTrue == RunnerSpec => []CompletedIsExplained
<1>1. RunnerInit => CompletedIsExplained
  BY DEF RunnerInit, JobInit, Init, CompletedIsExplained
<1>2. JobOK /\ LifeFacts!MainInv => CompletedIsExplained
  BY Explained DEF JobOK, LifeFacts!MainInv, LifeFacts!UpstreamExplained, CompletedIsExplained
<1>3. RunnerInv /\ RunnerInv' /\ CompletedIsExplained /\ [RunnerNext]_allVars =>
          CompletedIsExplained'
  <2> SUFFICES ASSUME RunnerInv, RunnerInv', CompletedIsExplained, [RunnerNext]_allVars
               PROVE  CompletedIsExplained'
    OBVIOUS
  <2>1. CASE JobOK'
    <3>1. LifeFacts!MainInv'
      BY DEF RunnerInv
    <3> QED
      BY <2>1, <3>1, <1>2, PTL
  <2>2. CASE Frozen
    BY <2>2 DEF Frozen, CompletedIsExplained, CompletionExplained, runVars, StepSucceeded,
       Run!Pulled, Run!DataCreated, Run!InputsDownloaded, Run!Uploaded, Run!AllDone
  <2> QED
    BY <2>1, <2>2, KeptOrFrozen
<1> QED
  BY <1>1, <1>3, RunnerSafe, PTL DEF RunnerSpec

(* The requests of a job are sent while its whole file is there.           *)
THEOREM RequestsAreFound == RunnerSpec => RequestsFound
<1>1. ASSUME RunnerInv, [RunnerNext]_allVars,
             NEW c \in Call, call[c] = "unsent", call'[c] # "unsent"
      PROVE  file = "full"
  <2>1. Up
    BY <1>1, DeadChanges
  <2>2. JobOK /\ LifeFacts!MainInv
    BY <1>1, <2>1 DEF RunnerInv
  <2>3. Job
    BY <1>1 DEF RunnerNext, MainCallsRun, MainGoesOn, SignalHandled, runOwnVars, ownVars,
       hiddenVars, allVars, jobVars, vars
  <2>4. ~AfterSteps
    BY <1>1, <2>2, <2>3, StartsNothing DEF Job, JobNext, RunStep, JobOK
  <2>5. rpc # "start" /\ rpc # "done"
    BY <2>1, <2>2, <2>3, <2>4, JobGoesOn DEF AfterSteps
  <2> QED
    BY <2>2, <2>5, WhereMainIs
<1>2. RunnerInv /\ [RunnerNext]_allVars =>
          [\A c \in Call : call[c] = "unsent" /\ call'[c] # "unsent" => file = "full"]_allVars
  BY <1>1
<1> QED
  BY <1>2, RunnerSafe, PTL DEF RunnerSpec, RequestsFound

(* A panic of the process is one of four kinds.                            *)
THEOREM PanicsAreExplained == RunnerSpec => []PanicsExplained
<1>1. RunnerInit => PanicsExplained
  BY DEF RunnerInit, JobInit, Init, PanicsExplained
<1>2. RunnerInv /\ PanicsExplained /\ [RunnerNext]_allVars => PanicsExplained'
  <2> SUFFICES ASSUME RunnerInv, PanicsExplained, [RunnerNext]_allVars, proc' = "panic"
               PROVE  PanicsExplained'
    BY DEF PanicsExplained
  <2>1. CASE ~Up
    BY <2>1, DeadChanges DEF PanicsExplained, lifeVars, StepSucceeded
  <2>2. CASE Up /\ Job
    <3>1. JobNext /\ JobOK
      BY <2>2 DEF Job, JobNext, RunStep, RunnerInv
    <3>2. InJob'
      BY <3>1, JobKept DEF JobOK
    <3>3. StepsWork
      BY <2>2 DEF Job, Up, RunGoesOn, ComposeDown, CallSteps, StartStep, Run!ClientStarts,
         Run!ClientSucceeds, Run!ClientFails, Run!PhaseEnds, Run!Skip, Run!StepsReturned,
         Run!Inform
    <3>4. PanicNeedsSuccess'
      BY <3>2, <3>3, WorkGoesOn DEF InJob, StepsInv, SafeInv
    <3> QED
      BY <3>4 DEF PanicNeedsSuccess, PanicsExplained
  <2>3. CASE Up /\ MainCallsRun
    <3>1. main = "call" /\ Life!RunDies
      BY <2>3 DEF MainCallsRun, Run!Begin, Up
    <3>2. main' = "call"
      BY <3>1 DEF Life!RunDies, Life!mainVars
    <3> QED
      BY <3>2 DEF PanicsExplained
  <2>4. CASE Up /\ (MainGoesOn \/ SignalHandled)
    BY <2>4, BesideChanges DEF RunnerInv, PanicsExplained, Up, lifeVars
  <2>5. CASE Up /\ UNCHANGED allVars
    BY <2>5 DEF allVars, jobVars, vars, Up
  <2> QED
    BY <2>1, <2>2, <2>3, <2>4, <2>5 DEF RunnerNext
<1> QED
  BY <1>1, <1>2, RunnerSafe, PTL DEF RunnerSpec

(* Who can publish after the final update of Run, and what.                *)
THEOREM LastWordIsExplained == RunnerSpec => LastWord
<1> DEFINE Said ==
        \/ upstream' = "Failed" /\ hpc = "publish" /\ parentDone
        \/ /\ upstream' = "Running"
           /\ \/ \E r \in StopRequest : stop[r] = "acked"
              \/ /\ mpc = "returned"
                 /\ \/ proxy = "reporting"
                    \/ cpc \in {"create", "creating"}
                    \/ exitBy \in {"config", "context"}
<1>1. ASSUME RunnerInv, [RunnerNext]_allVars, informed # "none", upstream' # upstream
      PROVE  Said
  <2>1. Up
    BY <1>1, DeadChanges
  <2>2. JobOK /\ LifeFacts!MainInv
    BY <1>1, <2>1 DEF RunnerInv
  <2>3. CASE Job
    <3>1. JobNext
      BY <2>3 DEF Job, JobNext, RunStep
    <3> QED
      BY <1>1, <2>2, <3>1, AfterTheLastWord DEF JobOK
  <2>4. CASE MainCallsRun
    <3>1. rpc # "start"
      BY <1>1, <2>2, RunKnows DEF JobOK
    <3> QED
      BY <2>4, <3>1 DEF MainCallsRun, Run!Begin, Run!NoRunner
  <2>5. CASE MainGoesOn \/ SignalHandled
    <3>1. \/ upstream' = "Failed" /\ hpc = "publish"
          \/ upstream' = "Running" /\ \E r \in StopRequest : stop[r] = "acked"
      BY <1>1, <2>5, BesideChanges DEF RunnerInv
    <3>2. hpc = "publish" => parentDone
      BY <2>2 DEF LifeFacts!MainInv, LifeFacts!CancelInv
    <3> QED
      BY <3>1, <3>2
  <2>6. CASE UNCHANGED allVars
    BY <1>1, <2>6 DEF allVars, jobVars, vars
  <2> QED
    BY <1>1, <2>3, <2>4, <2>5, <2>6 DEF RunnerNext
<1>2. RunnerInv /\ [RunnerNext]_allVars =>
          [informed # "none" /\ upstream' # upstream => Said]_allVars
  BY <1>1
<1> QED
  BY <1>2, RunnerSafe, PTL DEF RunnerSpec, LastWord
=============================================================================
