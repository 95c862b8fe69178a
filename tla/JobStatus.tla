----------------------------- MODULE JobStatus ------------------------------
(***************************************************************************)
(* The values by which the parts of the runner tell each other, and the    *)
(* rest of the system, how a job is doing: the states of the updates that  *)
(* status.go publishes, the status codes of a phase of Run (run.go), and   *)
(* the asyncReturn record that carries a code and an error together.       *)
(***************************************************************************)

(* "none": no update yet, or no code yet.                                  *)
JobState == {"none", "Running", "Failed", "Completed"}
FinalState == {"Failed", "Completed"}

StatusCode == {"none", "Success", "DockerPullFailed", "DockerCreateFailed",
               "InputFailed", "StepFailed", "OutputFailed"}

(* err says whether the error is non-nil.                                  *)
AsyncReturn == [status : {"none", "Success", "StepFailed"}, err : BOOLEAN]
NoReturn == [status |-> "none", err |-> FALSE]
Ok == [status |-> "Success", err |-> FALSE]
StepFailed == [status |-> "StepFailed", err |-> TRUE]

(* The process that runs the job: "up", or ended by a nil dereference      *)
(* ("panic") or by log.Fatal ("fatal").                                    *)
Process == {"up", "panic", "fatal"}
=============================================================================
