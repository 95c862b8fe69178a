----------------------------- MODULE WholeRunner -----------------------------
(***************************************************************************)
(* The process of interapps-runner as it is: main.go, with the real Run    *)
(* and runAllSteps (JobWithSteps) in the place of Run's contract, and the  *)
(* real SignalHandler in the place of its contract.  main, the callback,   *)
(* the consumer of stop requests and the goroutines of the step share the  *)
(* context, the process, and what upstream was last told.                  *)
(***************************************************************************)
EXTENDS JobWithSteps

CONSTANTS StopRequest,  \* the stop requests that are sent for the job
          Signal        \* the signals the process is notified of

VARIABLES
    main, job, amqp, file, hpc, exiter, stop, early,
                   \* main.go: mpc, job, client, ... of MainLifecycle
    signals, quitter, receiver, unseen  \* the signal handler

lifeVars == <<main, job, amqp, file, hpc, exiter, stop, early>>
handlerVars == <<signals, quitter, receiver, unseen>>
allVars == <<jobVars, lifeVars, handlerVars>>

(* What Run and runAllSteps do not share with main.                        *)
runOwnVars == <<ownVars, rpc, client, index, status, done, informed>>

Life == INSTANCE MainLifecycle
            WITH mpc <- main, client <- amqp,
                 phase <- Run!phaseBar, announced <- informed, exitCode <- Run!exitBar,
                 pending <- signals # <<>>, busy <- receiver = "f"
Handler == INSTANCE SignalHandling

RunnerInit == JobInit /\ Handler!Init /\ Life!Init

(* Run and all that it has started, until the process ends; what it leaves *)
(* in the network, in docker and in app-exposer goes on after that.        *)
Job ==
    /\ RunGoesOn \/ ComposeDown \/ CallSteps \/ StepsWork
    /\ UNCHANGED <<lifeVars, handlerVars>>

(* The call of Run, and what it comes to without a runner.                 *)
MainCallsRun ==
    /\ UNCHANGED <<ownVars, handlerVars>>
    /\ \/ Run!Begin /\ Life!CallRun
       \/ main = "call" /\ Run!NoRunner /\ Life!RunDies

(* main, the consumer of stop requests and Exit, and SIGKILL.              *)
MainGoesOn ==
    /\ UNCHANGED <<runOwnVars, handlerVars>>
    /\ \/ Life!MainStep \/ Life!ExitCancels \/ Life!Killed
       \/ \E r \in StopRequest : Life!StopStep(r)

(* The signal handler and its callback.                                    *)
SignalHandled ==
    /\ UNCHANGED runOwnVars
    /\ \/ \E s \in Signal : Handler!Notify(s) /\ Life!SignalArrives
       \/ Handler!ReceiveSignal /\ Life!SignalTaken
       \/ Handler!Processed /\ (Life!HandlerSkips \/ Life!HandlerPublishes)
       \/ /\ UNCHANGED handlerVars
          /\ Life!HandlerCancels \/ Life!HandlerFails \/ Life!HandlerPanics

RunnerNext == Job \/ MainCallsRun \/ MainGoesOn \/ SignalHandled

RunnerSpec == RunnerInit /\ [][RunnerNext]_allVars

-----------------------------------------------------------------------------
(* However the process ends, image-janitor and network-pruner find the job *)
(* of every container of the step that is still running, unless            *)
(* docker-compose down had failed: main removes the job file all the same. *)
LeftoversFound ==
    containers # {} =>
        \/ file = "full"
        \/ main \in {"cancel", "exit"} /\ <<"down", 0>> \notin done

(* The requests that make the job reachable are only sent while the whole  *)
(* job file is there.                                                      *)
RequestsFound ==
    [][\A c \in Call : call[c] = "unsent" /\ call'[c] # "unsent" => file = "full"]_allVars

(* A job that was cancelled before main called Run starts no container and *)
(* asks nothing of app-exposer, although main goes on to call Run.         *)
EarlyStopsStartNothing ==
    early => mpc = "idle" /\ containers = {} /\ k8s = {}
             /\ \A c \in Call : call[c] = "unsent"

(* Whoever publishes, upstream takes a job for completed only if all was   *)
(* done for it: see CompletionExplained.                                   *)
CompletedIsExplained == upstream = "Completed" => informed = "Completed" /\ CompletionExplained

(* What can make the process panic.                                        *)
PanicsExplained ==
    proc = "panic" =>
        \/ main = "compose"                    \* a step without a port
        \/ amqp # "ready"                      \* the first update
        \/ main = "call"                       \* no runner
        \/ proxy = "exited" \/ StepSucceeded   \* the shared err

(* After the final update of Run upstream hears Running from the consumer  *)
(* of a stop request or from a goroutine that runAllSteps left behind, or  *)
(* Failed from the signal callback, which has then cancelled the context.  *)
LastWord ==
    [][informed # "none" /\ upstream' # upstream =>
        \/ upstream' = "Failed" /\ hpc = "publish" /\ parentDone
        \/ /\ upstream' = "Running"
           /\ \/ \E r \in StopRequest : stop[r] = "acked"
              \/ /\ mpc = "returned"
                 /\ \/ proxy = "reporting"
                    \/ cpc \in {"create", "creating"}
                    \/ exitBy \in {"config", "context"}]_allVars

-----------------------------------------------------------------------------
(* The process is the one MainLifecycle describes, and its handler the one *)
(* SignalHandling describes.                                               *)
ImplementsMain == Life!Spec
ImplementsHandler == Handler!Spec
=============================================================================
