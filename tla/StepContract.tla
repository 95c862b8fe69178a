---------------------------- MODULE StepContract ----------------------------
(***************************************************************************)
(* What runAllSteps (run.go) promises to Run, which calls it, whatever its *)
(* goroutines, containers and requests do meanwhile: it returns once, with *)
(* a coherent status and error; it returns when its context is cancelled;  *)
(* it never reports success for a job that was cancelled before it began;  *)
(* it publishes nothing but Running updates.  It does not promise to be    *)
(* quiet afterwards: the goroutines it leaves behind go on publishing, and *)
(* can still end the process.                                              *)
(***************************************************************************)
EXTENDS JobStatus

VARIABLES
    parentDone,  \* the context given to runAllSteps has been cancelled
    proc,        \* the process that runs it
    upstream,    \* the state of the job last published
    phase,       \* "idle", "running" or "returned"
    doomed,      \* history: the context was done when runAllSteps was called
    result       \* what it returned

vars == <<parentDone, proc, upstream, phase, doomed, result>>

TypeOK ==
    /\ parentDone \in BOOLEAN
    /\ proc \in Process
    /\ upstream \in {"none", "Running"}
    /\ phase \in {"idle", "running", "returned"}
    /\ doomed \in BOOLEAN
    /\ result \in {NoReturn, Ok, StepFailed}

Init ==
    /\ parentDone = FALSE /\ proc = "up" /\ upstream = "none"
    /\ phase = "idle" /\ doomed = FALSE /\ result = NoReturn

Call ==
    /\ proc = "up" /\ phase = "idle"
    /\ phase' = "running" /\ doomed' = parentDone /\ upstream' = "Running"
    /\ UNCHANGED <<parentDone, proc, result>>

Report ==
    /\ proc = "up" /\ phase # "idle"
    /\ upstream' = "Running"
    /\ UNCHANGED <<parentDone, proc, phase, doomed, result>>

Return ==
    /\ proc = "up" /\ phase = "running"
    /\ phase' = "returned"
    /\ result' \in (IF doomed THEN {StepFailed} ELSE {Ok, StepFailed})
    /\ UNCHANGED <<parentDone, proc, upstream, doomed>>

Die ==
    /\ proc = "up" /\ phase # "idle"
    /\ proc' \in {"panic", "fatal"}
    /\ UNCHANGED <<parentDone, upstream, phase, doomed, result>>

Cancel ==
    /\ proc = "up" /\ ~parentDone
    /\ parentDone' = TRUE
    /\ UNCHANGED <<proc, upstream, phase, doomed, result>>

Next == Call \/ Report \/ Return \/ Die \/ Cancel

Spec == Init /\ [][Next]_vars
FairSpec == Spec /\ WF_vars(parentDone /\ Return)
=============================================================================
