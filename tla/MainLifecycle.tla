--------------------------- MODULE MainLifecycle ----------------------------
(***************************************************************************)
(* The process from main (main.go) to os.Exit: the startup, the job file   *)
(* that WriteJob (fs.go) leaves for image-janitor and network-pruner, the  *)
(* callback of the signal handler, the consumer of stop requests with Exit *)
(* (exit.go), and the end.  Run and the signal handler are known by their  *)
(* contracts.  The checks of the configuration and of the job, and the     *)
(* preparation of docker-compose.yml, are each one step that may fail.     *)
(***************************************************************************)
EXTENDS JobStatus

CONSTANT StopRequest  \* the stop requests that are sent for the job

VARIABLES
    parentDone, proc, upstream, phase, stoppedFirst, announced, exitCode,
                   \* the contract of Run
    pending, busy, \* the contract of the signal handler
    mpc,           \* where main is
    job,           \* the variable job has been assigned
    client,        \* the variable client: "nil", "connected", or "ready" to publish
    file,          \* the job file: "none", "partial" or "full"
    hpc,           \* where the callback of the signal handler is
    exiter,        \* the goroutine of Exit
    stop,          \* where the consumer is with each stop request
    early          \* history: the context was cancelled before Run was called

runVars == <<parentDone, proc, upstream, phase, stoppedFirst, announced, exitCode>>
signalVars == <<pending, busy>>
mainVars == <<mpc, job, client, file>>
stopVars == <<exiter, stop>>
vars == <<runVars, signalVars, mainVars, hpc, stopVars, early>>

Run == INSTANCE RunContract
Signals == INSTANCE SignalContract

Up == proc = "up"

(* Where log.Fatal may end main.                                           *)
Preparing == {"read", "check", "write", "writing", "connect", "compose"}

TypeOK ==
    /\ parentDone \in BOOLEAN
    /\ proc \in Process \cup {"killed", "exited"}
    /\ upstream \in JobState
    /\ phase \in {"idle", "running", "informed", "returned"}
    /\ stoppedFirst \in BOOLEAN
    /\ announced \in {"none"} \cup FinalState
    /\ exitCode \in StatusCode
    /\ pending \in BOOLEAN /\ busy \in BOOLEAN
    /\ mpc \in Preparing \cup {"boot", "configure", "listen", "consume", "call",
                               "run", "remove", "cancel", "exit"}
    /\ job \in BOOLEAN
    /\ client \in {"nil", "connected", "ready"}
    /\ file \in {"none", "partial", "full"}
    /\ hpc \in {"idle", "cancel", "check", "publish"}
    /\ exiter \in {"none", "receiving", "received", "ended"}
    /\ stop \in [StopRequest -> {"none", "acked", "sending", "sent"}]
    /\ early \in BOOLEAN

Init ==
    /\ Run!Init /\ Signals!Init
    /\ mpc = "boot" /\ job = FALSE /\ client = "nil" /\ file = "none"
    /\ hpc = "idle"
    /\ exiter = "none" /\ stop = [r \in StopRequest |-> "none"]
    /\ early = FALSE

-----------------------------------------------------------------------------
(***************************************************************************)
(* main                                                                    *)
(***************************************************************************)
Goto(from, to) == Up /\ mpc = from /\ mpc' = to

Dies(how) ==
    /\ proc' = how
    /\ UNCHANGED <<parentDone, upstream, phase, stoppedFirst, announced, exitCode,
                   signalVars, mainVars, hpc, stopVars, early>>

(* signal.Notify.                                                          *)
NotifySignals ==
    /\ Goto("boot", "read")
    /\ UNCHANGED <<runVars, signalVars, job, client, file, hpc, stopVars, early>>

(* --version.                                                              *)
ShowVersion == Up /\ mpc = "read" /\ Dies("exited")

Fatal == Up /\ mpc \in Preparing /\ Dies("fatal")

ReadJob ==
    /\ Goto("read", "check")
    /\ job' = TRUE
    /\ UNCHANGED <<runVars, signalVars, client, file, hpc, stopVars, early>>

CheckJob ==
    /\ Goto("check", "write")
    /\ UNCHANGED <<runVars, signalVars, job, client, file, hpc, stopVars, early>>

(* Mutant: an error of WriteJob is not noticed.                            *)
FillJobFile_Unchecked ==
    /\ Goto("writing", "connect")
    /\ file' \in {"partial", "full"}
    /\ UNCHANGED <<runVars, signalVars, job, client, hpc, stopVars, early>>

(* WriteJob creates the file and copies the job into it; it may fail at    *)
(* either.                                                                 *)
CreateJobFile ==
    /\ Goto("write", "writing")
    /\ file' = "partial"
    /\ UNCHANGED <<runVars, signalVars, job, client, hpc, stopVars, early>>
FillJobFile ==
    /\ Goto("writing", "connect")
    /\ file' = "full"
    /\ UNCHANGED <<runVars, signalVars, job, client, hpc, stopVars, early>>

Connect ==
    /\ Goto("connect", "configure")
    /\ client' = "connected"
    /\ UNCHANGED <<runVars, signalVars, job, file, hpc, stopVars, early>>

(* The error of SetupPublishing is ignored.                                *)
SetUpPublishing ==
    /\ Goto("configure", "compose")
    /\ client' \in {"connected", "ready"}
    /\ UNCHANGED <<runVars, signalVars, job, file, hpc, stopVars, early>>

(* AvailableTCPPort, NewComposer, createUploadExclusionsFile, InitFromJob  *)
(* and docker-compose.yml.                                                 *)
Compose ==
    /\ Goto("compose", "listen")
    /\ UNCHANGED <<runVars, signalVars, job, client, file, hpc, stopVars, early>>

(* InitFromJob panics on a step without a port or an environment.          *)
ComposePanics == Up /\ mpc = "compose" /\ Dies("panic")

(* Mutant: Exit is started when Run has returned.                          *)
StartExit_Late ==
    /\ Goto("listen", "consume")
    /\ UNCHANGED <<runVars, signalVars, job, client, file, hpc, stopVars, early>>

StartExit ==
    /\ Goto("listen", "consume")
    /\ exiter' = "receiving"
    /\ UNCHANGED <<runVars, signalVars, job, client, file, hpc, stop, early>>

AddConsumer ==
    /\ Goto("consume", "call")
    /\ UNCHANGED <<runVars, signalVars, job, client, file, hpc, stopVars, early>>

(* Mutant: Run is given a context of its own.                              *)
CallRun_FreshContext ==
    /\ Goto("call", "run")
    /\ client = "ready"
    /\ phase' = "running" /\ upstream' = "Running"
    /\ UNCHANGED <<parentDone, proc, stoppedFirst, announced, exitCode,
                   signalVars, job, client, file, hpc, stopVars, early>>

CallRun ==
    /\ Goto("call", "run")
    /\ client = "ready"
    /\ Run!Call
    /\ UNCHANGED <<signalVars, job, client, file, hpc, stopVars, early>>

(* A client whose publishing is not set up has a nil publisher: its first  *)
(* update panics.                                                          *)
PublishPanics == client # "ready" /\ Dies("panic")
CallRunUnready == Up /\ mpc = "call" /\ PublishPanics

RunReports ==
    /\ Run!Report
    /\ UNCHANGED <<signalVars, mainVars, hpc, stopVars, early>>
RunEnds ==
    /\ Run!Announce \/ Run!Return
    /\ UNCHANGED <<signalVars, mainVars, hpc, stopVars, early>>
(* Run may die before its first update, for want of a runner.              *)
RunDies ==
    /\ mpc = "call" \/ phase # "idle"
    /\ Run!Die
    /\ UNCHANGED <<signalVars, mainVars, hpc, stopVars, early>>

(* Mutant: main waits for a code on the exit channel as well.              *)
RunReturned_WaitsForExit ==
    /\ Goto("run", "remove")
    /\ phase = "returned" /\ exiter = "ended"
    /\ UNCHANGED <<runVars, signalVars, job, client, file, hpc, stopVars, early>>

RunReturned ==
    /\ Goto("run", "remove")
    /\ phase = "returned"
    /\ UNCHANGED <<runVars, signalVars, job, client, file, hpc, stopVars, early>>

(* DeleteJobFile, whatever Run returned and whether or not its clean-up    *)
(* succeeded; that it failed only goes to the log.                         *)
RemoveJobFile ==
    /\ Goto("remove", "cancel")
    /\ file' \in {"none", file}
    /\ UNCHANGED <<runVars, signalVars, job, client, hpc, stopVars, early>>

CancelContext ==
    /\ parentDone' = TRUE
    /\ early' = (early \/ phase = "idle")
    /\ UNCHANGED <<proc, upstream, phase, stoppedFirst, announced, exitCode>>

CancelAgain ==
    /\ Goto("cancel", "exit")
    /\ CancelContext
    /\ UNCHANGED <<signalVars, job, client, file, hpc, stopVars>>

OsExit == Up /\ mpc = "exit" /\ Dies("exited")

-----------------------------------------------------------------------------
(***************************************************************************)
(* Signals.  Before signal.Notify, or with SIGKILL at any time, a signal   *)
(* kills the process.                                                      *)
(***************************************************************************)
Killed == Up /\ Dies("killed")

SignalArrives ==
    /\ Up /\ mpc # "boot"
    /\ Signals!Arrive
    /\ UNCHANGED <<runVars, mainVars, hpc, stopVars, early>>

SignalTaken ==
    /\ Up
    /\ Signals!Take
    /\ hpc' = "cancel"
    /\ UNCHANGED <<runVars, mainVars, stopVars, early>>

(* Mutant: the callback cancels only what can be told to upstream.         *)
HandlerCancels_IfJob ==
    /\ Up /\ hpc = "cancel"
    /\ hpc' = "check"
    /\ IF client # "nil" THEN CancelContext ELSE UNCHANGED <<runVars, early>>
    /\ UNCHANGED <<signalVars, mainVars, stopVars>>

(* Mutant: the callback leaves the subprocesses alone.                     *)
HandlerCancels_Not ==
    /\ Up /\ hpc = "cancel"
    /\ hpc' = "check"
    /\ UNCHANGED <<runVars, early, signalVars, mainVars, stopVars>>

HandlerCancels ==
    /\ Up /\ hpc = "cancel"
    /\ hpc' = "check"
    /\ CancelContext
    /\ UNCHANGED <<signalVars, mainVars, stopVars>>

(* client != nil && job != nil                                             *)
HandlerSkips ==
    /\ Up /\ hpc = "check" /\ ~(client # "nil" /\ job)
    /\ hpc' = "idle" /\ Signals!Finish
    /\ UNCHANGED <<runVars, mainVars, stopVars, early>>
HandlerFails ==
    /\ Up /\ hpc = "check" /\ client # "nil" /\ job
    /\ hpc' = "publish"
    /\ UNCHANGED <<runVars, signalVars, mainVars, stopVars, early>>

HandlerPublishes ==
    /\ Up /\ hpc = "publish" /\ client = "ready"
    /\ upstream' = "Failed"
    /\ hpc' = "idle" /\ Signals!Finish
    /\ UNCHANGED <<parentDone, proc, phase, stoppedFirst, announced, exitCode,
                   mainVars, stopVars, early>>
HandlerPanics == Up /\ hpc = "publish" /\ PublishPanics

-----------------------------------------------------------------------------
(***************************************************************************)
(* Stop requests: each is acknowledged, reported, and passed on to Exit,   *)
(* which receives one of them.                                             *)
(***************************************************************************)
StopArrives(r) ==
    /\ Up /\ mpc \in {"call", "run", "remove", "cancel", "exit"}
    /\ stop[r] = "none"
    /\ stop' = [stop EXCEPT ![r] = "acked"]
    /\ UNCHANGED <<runVars, signalVars, mainVars, hpc, exiter, early>>

StopReported(r) ==
    /\ Up /\ stop[r] = "acked" /\ client = "ready"
    /\ upstream' = "Running"
    /\ stop' = [stop EXCEPT ![r] = "sending"]
    /\ UNCHANGED <<parentDone, proc, phase, stoppedFirst, announced, exitCode,
                   signalVars, mainVars, hpc, exiter, early>>
StopPanics(r) == Up /\ stop[r] = "acked" /\ PublishPanics

(* exit <- messaging.StatusKilled meets exitCode := <-exit.                *)
ExitReceives(r) ==
    /\ Up /\ stop[r] = "sending" /\ exiter = "receiving"
    /\ stop' = [stop EXCEPT ![r] = "sent"]
    /\ exiter' = "received"
    /\ UNCHANGED <<runVars, signalVars, mainVars, hpc, early>>

(* Mutant: Exit only reports the code.                                     *)
ExitCancels_Not ==
    /\ Up /\ exiter = "received"
    /\ exiter' = "ended"
    /\ UNCHANGED <<runVars, early, signalVars, mainVars, hpc, stop>>

ExitCancels ==
    /\ Up /\ exiter = "received"
    /\ exiter' = "ended"
    /\ CancelContext
    /\ UNCHANGED <<signalVars, mainVars, hpc, stop>>

-----------------------------------------------------------------------------
MainStep == \/ NotifySignals \/ ShowVersion \/ Fatal \/ ReadJob \/ CheckJob
            \/ CreateJobFile \/ FillJobFile \/ Connect \/ SetUpPublishing
            \/ Compose \/ ComposePanics \/ StartExit \/ AddConsumer
            \/ CallRun \/ CallRunUnready
            \/ RunReturned \/ RemoveJobFile \/ CancelAgain \/ OsExit
RunStep == RunReports \/ RunEnds \/ RunDies
HandlerStep == \/ Killed \/ SignalArrives \/ SignalTaken
               \/ HandlerCancels \/ HandlerSkips \/ HandlerFails
               \/ HandlerPublishes \/ HandlerPanics
StopStep(r) == StopArrives(r) \/ StopReported(r) \/ StopPanics(r) \/ ExitReceives(r)

Next == \/ MainStep \/ RunStep \/ HandlerStep \/ ExitCancels
        \/ \E r \in StopRequest : StopStep(r)

Spec == Init /\ [][Next]_vars

-----------------------------------------------------------------------------
(***************************************************************************)
(* Safety                                                                  *)
(***************************************************************************)
(* From its call of Run until it removes the file itself, after Run has    *)
(* returned, main leaves image-janitor and network-pruner the whole job,   *)
(* however the process ends.  What Run could not clean up they do not find *)
(* after that, although Run may have failed to: see LeftoversFound.        *)
Recoverable == phase # "idle" => file = "full" \/ mpc \in {"cancel", "exit"}

(* A job whose context was cancelled before Run was called, by a signal    *)
(* during the startup or by a stop request, never completes.               *)
EarlyStopFails == early => announced # "Completed" /\ exitCode # "Success"

(* The handler of a stop request waits for Exit to receive, or for ever:   *)
(* then Exit has received another one, and the job is stopped by that.     *)
BlockedStopHarmless ==
    \A r \in StopRequest :
        stop[r] = "sending" =>
            exiter \in {"receiving", "received"} \/ parentDone

(* What upstream was last told has a reason: Run completed or failed, the  *)
(* process was stopped, or Run or a stop request went on.                  *)
UpstreamExplained ==
    /\ upstream = "Completed" => announced = "Completed"
    /\ upstream = "Failed" => announced = "Failed" \/ parentDone
    /\ upstream = "Running" =>
           phase # "idle" \/ \E r \in StopRequest : stop[r] # "none"
    /\ upstream = "none" => announced = "none"

-----------------------------------------------------------------------------
(***************************************************************************)
(* Liveness                                                                *)
(***************************************************************************)
(* The goroutines of the process are scheduled.  Once Run has returned     *)
(* nothing holds up main; publishing for a stop request ends; and a        *)
(* stopped Run returns.  Nothing is assumed of the startup, which may wait *)
(* for the broker, nor of what the callback publishes.                     *)
FairSpec ==
    /\ Spec
    /\ WF_vars(RunReturned \/ RemoveJobFile \/ CancelAgain \/ OsExit)
    /\ WF_vars(parentDone /\ RunEnds)
    /\ WF_vars(SignalTaken) /\ WF_vars(HandlerCancels)
    /\ WF_vars(ExitCancels)
    /\ \A r \in StopRequest :
           WF_vars(StopReported(r) \/ StopPanics(r)) /\ WF_vars(ExitReceives(r))

(* A signal cancels the context, whatever main is doing, even when the     *)
(* callback is busy with another one.                                      *)
SignalCancels == pending ~> parentDone \/ ~Up

(* So does a stop request, the second one that no one receives included.   *)
StopCancels ==
    \A r \in StopRequest : stop[r] = "acked" ~> parentDone \/ ~Up

(* A process that has been stopped ends, if it had come to call Run.       *)
StoppedProcessEnds == parentDone /\ phase # "idle" ~> ~Up
=============================================================================
