----------------------------- MODULE JobRunInv ------------------------------
(***************************************************************************)
(* The inductive invariant behind the properties of JobRun: what Run knows *)
(* of the phases behind it from the place it is in and from its status.    *)
(***************************************************************************)
EXTENDS JobRun

(* Where Run is once a phase is over.                                      *)
AfterInform == {"down", "rmnet", "done"}
AfterUpload == {"inform"} \cup AfterInform
AfterSteps == {"upload"} \cup AfterUpload
AfterInput == {"steps"} \cup AfterSteps
AfterData == {"input"} \cup AfterInput
AfterPull == {"data"} \cup AfterData

(* A client runs only where one may.  The commands of a phase that         *)
(* succeeded are the ones before the current one, and none in a phase      *)
(* still to come.                                                          *)
NoPull == NoneDone("pull")
NoUpload == NoneDone("upload")
ClientInv == client => rpc \in ClientPhase /\ ~Skipped /\ MoreToRun
DoneInv ==
    /\ rpc \in {"pull", "data", "input", "upload"} =>
           \A c \in done : c[1] = rpc => c[2] < index
    /\ \A i \in 0..(index - 1) : <<rpc, i>> \in done
    /\ Skipped => index = 0
    /\ rpc \in {"start", "login", "network"} => NoPull
    /\ rpc \notin AfterPull => NoData
    /\ rpc \notin AfterData => NoInputs
    /\ rpc \notin AfterSteps => NoUpload

(* The call of runAllSteps.                                                *)
StepsInv ==
    /\ phase = "returned" => result \in {Ok, StepFailed}
    /\ phase # "returned" => result = NoReturn
    /\ doomed => result # Ok
    /\ phase # "idle" => rpc \in AfterInput
    /\ rpc \in AfterSteps => phase # "running"
    /\ rpc = "steps" /\ phase # "idle" => status = "Success"

(* What each status says of what was done.                                 *)
SuccessInv ==
    status = "Success" =>
        /\ rpc \in AfterPull => Pulled
        /\ rpc \in AfterData => DataCreated
        /\ rpc \in AfterInput => InputsDownloaded
        /\ rpc \in AfterSteps => phase = "returned" /\ result = Ok
        /\ rpc \in AfterUpload => Uploaded
FailureInv ==
    /\ status = "DockerPullFailed" =>
           /\ rpc \in AfterPull /\ phase = "idle"
           /\ ~Pulled /\ NoData
    /\ status = "DockerCreateFailed" =>
           /\ rpc \in AfterData /\ phase = "idle"
           /\ Pulled /\ ~DataCreated /\ NoInputs
    /\ status = "InputFailed" =>
           /\ rpc \in AfterInput /\ phase = "idle"
           /\ Pulled /\ DataCreated /\ ~InputsDownloaded
    /\ status = "StepFailed" =>
           /\ rpc \in AfterSteps
           /\ InputsDownloaded /\ result = StepFailed
    /\ status = "OutputFailed" => rpc \in AfterUpload /\ ~Uploaded

(* The final update, and what it agrees with.                              *)
InformInv ==
    /\ informed # "none" <=> rpc \in AfterInform
    /\ informed = "Completed" <=> rpc \in AfterInform /\ status = "Success"

(* A job stopped before Run was called pulls nothing.                      *)
StoppedInv ==
    stoppedFirst =>
        /\ parentDone /\ NoPull
        /\ rpc = "pull" => ~client
        /\ rpc \in AfterPull => status # "Success"

JobInv == /\ ClientInv /\ DoneInv /\ StepsInv /\ SuccessInv /\ FailureInv
          /\ InformInv /\ StoppedInv /\ StepsNeedInputs
=============================================================================
