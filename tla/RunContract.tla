---------------------------- MODULE RunContract -----------------------------
(***************************************************************************)
(* What Run (run.go) promises to main.go, which calls it: one final update *)
(* and one exit code that agree, in that order; that a job stopped before  *)
(* Run was called never completes; and that a stopped Run returns.  It     *)
(* does not promise that the final update is the last one upstream         *)
(* receives, nor that there is one at all if the process dies.             *)
(***************************************************************************)
EXTENDS JobStatus

VARIABLES
    parentDone,  \* the context given to Run has been cancelled
    proc,        \* the process that runs it
    upstream,    \* the state of the job last published
    phase,       \* "idle", "running", "informed" or "returned"
    stoppedFirst,  \* history: the context was done when Run was called
    announced,   \* the final state Run published
    exitCode     \* what it returned

vars == <<parentDone, proc, upstream, phase, stoppedFirst, announced, exitCode>>

Init ==
    /\ parentDone = FALSE /\ proc = "up" /\ upstream = "none"
    /\ phase = "idle" /\ stoppedFirst = FALSE
    /\ announced = "none" /\ exitCode = "none"

Call ==
    /\ proc = "up" /\ phase = "idle"
    /\ phase' = "running" /\ stoppedFirst' = parentDone
    /\ upstream' = "Running"
    /\ UNCHANGED <<parentDone, proc, announced, exitCode>>

(* From Run itself, or from a goroutine that it started and left behind.   *)
Report ==
    /\ proc = "up" /\ phase # "idle"
    /\ upstream' = "Running"
    /\ UNCHANGED <<parentDone, proc, phase, stoppedFirst, announced, exitCode>>

Announce ==
    /\ proc = "up" /\ phase = "running"
    /\ phase' = "informed"
    /\ announced' \in IF stoppedFirst THEN {"Failed"} ELSE FinalState
    /\ upstream' = announced'
    /\ UNCHANGED <<parentDone, proc, stoppedFirst, exitCode>>

Return ==
    /\ proc = "up" /\ phase = "informed"
    /\ phase' = "returned"
    /\ exitCode' \in StatusCode \ {"none"}
    /\ announced = "Completed" <=> exitCode' = "Success"
    /\ UNCHANGED <<parentDone, proc, upstream, stoppedFirst, announced>>

Die ==
    /\ proc = "up"
    /\ proc' \in {"panic", "fatal"}
    /\ UNCHANGED <<parentDone, upstream, phase, stoppedFirst, announced,
                   exitCode>>

Cancel ==
    /\ proc = "up" /\ ~parentDone
    /\ parentDone' = TRUE
    /\ UNCHANGED <<proc, upstream, phase, stoppedFirst, announced, exitCode>>

Next == Call \/ Report \/ Announce \/ Return \/ Die \/ Cancel

Spec == Init /\ [][Next]_vars

(* A Run that has been stopped goes on to its end.                         *)
StopReturns == parentDone /\ phase # "idle" ~> phase = "returned" \/ proc # "up"
=============================================================================
