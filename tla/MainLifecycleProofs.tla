------------------------ MODULE MainLifecycleProofs -------------------------
(***************************************************************************)
(* Proofs, for any set of stop requests, about the process of main.go.     *)
(***************************************************************************)
EXTENDS MainLifecycleInv, TLAPS

USE DEF runVars, signalVars, mainVars, stopVars

(* The steps by which the process ends, and those of main up to its call   *)
(* of Run and after it.                                                    *)
Death == ShowVersion \/ Fatal \/ ComposePanics \/ CallRunUnready \/ OsExit \/ Killed
         \/ HandlerPanics \/ \E r \in StopRequest : StopPanics(r)
Startup == NotifySignals \/ ReadJob \/ CheckJob \/ CreateJobFile \/ FillJobFile
           \/ Connect \/ SetUpPublishing \/ Compose \/ StartExit \/ AddConsumer
Wrapup == RunReturned \/ RemoveJobFile
StopRuns == \E r \in StopRequest : StopArrives(r) \/ ExitReceives(r)
Cancelling == CancelAgain \/ HandlerCancels \/ ExitCancels
Handling == SignalArrives \/ SignalTaken \/ HandlerSkips \/ HandlerFails

LEMMA MainSplit ==
    MainStep \/ HandlerStep \/ ExitCancels \/ (\E r \in StopRequest : StopStep(r)) =>
        \/ Death \/ Startup \/ Wrapup \/ StopRuns \/ Cancelling \/ Handling
        \/ CallRun \/ HandlerPublishes
        \/ \E r \in StopRequest : StopReported(r)
BY DEF MainStep, HandlerStep, StopStep, Death, Startup, Wrapup, StopRuns, Cancelling,
       Handling

LEMMA NextSplit ==
    Next => \/ Death \/ Startup \/ Wrapup \/ StopRuns \/ Cancelling \/ Handling
            \/ CallRun \/ RunReports \/ RunEnds \/ RunDies \/ HandlerPublishes
            \/ \E r \in StopRequest : StopReported(r)
BY MainSplit DEF Next, RunStep

(* A process that ends leaves everything else as it is.                    *)
LEMMA DeathChanges ==
    ASSUME Death
    PROVE  /\ proc' \in Process \cup {"killed", "exited"}
           /\ UNCHANGED <<parentDone, upstream, phase, stoppedFirst, announced,
                          exitCode, signalVars, mainVars, hpc, stopVars, early>>
BY DEF Death, ShowVersion, Fatal, ComposePanics, CallRunUnready, OsExit, Killed, HandlerPanics,
       StopPanics, PublishPanics, Dies, Process

(* The steps of a cancellation.                                            *)
LEMMA CancelChanges ==
    ASSUME TypeOK, MainInv, Cancelling
    PROVE  /\ parentDone' = TRUE /\ early' = (early \/ phase = "idle")
           /\ mpc' = mpc \/ (mpc = "cancel" /\ mpc' = "exit")
           /\ hpc' = hpc \/ hpc' = "check"
           /\ exiter' = exiter \/ (exiter = "received" /\ exiter' = "ended")
           /\ UNCHANGED <<proc, upstream, phase, stoppedFirst, announced, exitCode,
                          signalVars, job, client, file, stop>>
<1> USE DEF CancelContext
<1>1. CASE CancelAgain
  BY <1>1 DEF CancelAgain, Goto
<1>2. CASE HandlerCancels
  BY <1>2 DEF HandlerCancels
<1>3. CASE ExitCancels
  BY <1>3 DEF ExitCancels
<1> QED
  BY <1>1, <1>2, <1>3 DEF Cancelling

-----------------------------------------------------------------------------
LEMMA MainTypeNext == TypeOK /\ MainInv /\ [Next]_vars => TypeOK'
<1> SUFFICES ASSUME TypeOK, MainInv, [Next]_vars PROVE TypeOK'
  OBVIOUS
<1> USE DEF TypeOK, Preparing, JobState, FinalState, StatusCode
<1>1. CASE Death
  BY <1>1, DeathChanges
<1>2. CASE Startup
  BY <1>2 DEF Startup, NotifySignals, ReadJob, CheckJob, CreateJobFile, FillJobFile,
              Connect, SetUpPublishing, Compose, StartExit, AddConsumer, Goto
<1>3. CASE Wrapup
  BY <1>3 DEF Wrapup, RunReturned, RemoveJobFile, Goto
<1>4. CASE StopRuns \/ \E r \in StopRequest : StopReported(r)
  BY <1>4 DEF StopRuns, StopArrives, ExitReceives, StopReported
<1>5. CASE Cancelling
  BY <1>5, CancelChanges
<1>6. CASE Handling \/ HandlerPublishes
  BY <1>6 DEF Handling, SignalArrives, SignalTaken, HandlerSkips, HandlerFails,
              HandlerPublishes, Signals!Arrive, Signals!Take, Signals!Finish
<1>7. CASE CallRun
  BY <1>7 DEF CallRun, Goto, Run!Call
<1>8. CASE RunReports \/ RunEnds \/ RunDies
  BY <1>8 DEF RunReports, RunEnds, RunDies, Run!Report, Run!Announce, Run!Return,
              Run!Die, Run!FinalState, Run!StatusCode, Process
<1>9. CASE UNCHANGED vars
  BY <1>9 DEF vars
<1> QED
  BY <1>1, <1>2, <1>3, <1>4, <1>5, <1>6, <1>7, <1>8, <1>9, NextSplit

LEMMA MainInit == Init => TypeOK /\ MainInv
<1> SUFFICES ASSUME Init PROVE TypeOK /\ MainInv
  OBVIOUS
<1> USE DEF Init, Run!Init, Signals!Init
<1>1. TypeOK
  BY DEF TypeOK, Preparing, JobState, FinalState, StatusCode, Process
<1>2. PlaceInv
  BY DEF PlaceInv, AfterCall, AfterConsumer
<1>3. RunInv /\ CancelInv /\ UpstreamExplained
  BY DEF RunInv, CancelInv, UpstreamExplained
<1> QED
  BY <1>1, <1>2, <1>3 DEF MainInv

LEMMA MainNext == TypeOK /\ MainInv /\ [Next]_vars => MainInv'
<1> SUFFICES ASSUME TypeOK, MainInv, [Next]_vars PROVE MainInv'
  OBVIOUS
<1>0. PlaceInv /\ RunInv /\ CancelInv /\ UpstreamExplained
  BY DEF MainInv
<1> USE DEF AfterCall, AfterConsumer
<1>1. CASE Death
  <2>1. PlaceInv' /\ RunInv' /\ CancelInv'
    BY <1>0, <1>1, DeathChanges DEF PlaceInv, RunInv, CancelInv
  <2>2. UpstreamExplained'
    BY <1>0, <1>1, DeathChanges DEF UpstreamExplained
  <2> QED
    BY <2>1, <2>2 DEF MainInv
<1>2. CASE Startup
  <2>1. UNCHANGED <<runVars, signalVars, hpc, stop, early>>
    BY <1>2 DEF Startup, NotifySignals, ReadJob, CheckJob, CreateJobFile, FillJobFile,
                Connect, SetUpPublishing, Compose, StartExit, AddConsumer
  <2>2. exiter' = exiter \/ exiter' = "receiving"
    BY <1>2 DEF Startup, NotifySignals, ReadJob, CheckJob, CreateJobFile, FillJobFile,
                Connect, SetUpPublishing, Compose, StartExit, AddConsumer
  <2>3. mpc \notin AfterConsumer /\ mpc' \notin AfterCall
    BY <1>2 DEF Startup, NotifySignals, ReadJob, CheckJob, CreateJobFile, FillJobFile,
                Connect, SetUpPublishing, Compose, StartExit, AddConsumer, Goto
  <2>4. mpc' \in {"connect", "configure", "compose", "listen", "consume", "call"} =>
            file' = "full"
    <3>1. CASE NotifySignals \/ ReadJob \/ CheckJob \/ CreateJobFile \/ FillJobFile
      BY <3>1 DEF NotifySignals, ReadJob, CheckJob, CreateJobFile, FillJobFile, Goto
    <3>2. CASE Connect \/ SetUpPublishing \/ Compose
      BY <1>0, <3>2 DEF Connect, SetUpPublishing, Compose, Goto, PlaceInv
    <3>3. CASE StartExit \/ AddConsumer
      BY <1>0, <3>3 DEF StartExit, AddConsumer, Goto, PlaceInv
    <3> QED
      BY <1>2, <3>1, <3>2, <3>3 DEF Startup
  <2>5. mpc' \in {"consume", "call"} => exiter' # "none"
    <3>1. CASE NotifySignals \/ ReadJob \/ CheckJob \/ CreateJobFile \/ FillJobFile
      BY <3>1 DEF NotifySignals, ReadJob, CheckJob, CreateJobFile, FillJobFile, Goto
    <3>2. CASE Connect \/ SetUpPublishing \/ Compose
      BY <3>2 DEF Connect, SetUpPublishing, Compose, Goto
    <3>3. CASE StartExit \/ AddConsumer
      BY <1>0, <3>3 DEF StartExit, AddConsumer, Goto, PlaceInv
    <3> QED
      BY <1>2, <3>1, <3>2, <3>3 DEF Startup
  <2>6. PlaceInv'
    BY <1>0, <2>1, <2>3, <2>4, <2>5 DEF PlaceInv
  <2>7. RunInv' /\ CancelInv'
    BY <1>0, <2>1, <2>2 DEF RunInv, CancelInv
  <2>8. UpstreamExplained'
    BY <1>0, <2>1 DEF UpstreamExplained
  <2> QED
    BY <2>6, <2>7, <2>8 DEF MainInv
<1>3. CASE Wrapup
  <2>1. UNCHANGED <<runVars, signalVars, hpc, stopVars, early>>
    BY <1>3 DEF Wrapup, RunReturned, RemoveJobFile
  <2>2. PlaceInv'
    BY <1>0, <1>3, <2>1 DEF PlaceInv, Wrapup, RunReturned, RemoveJobFile, Goto
  <2>3. RunInv' /\ CancelInv'
    BY <1>0, <2>1 DEF RunInv, CancelInv
  <2>4. UpstreamExplained'
    BY <1>0, <2>1 DEF UpstreamExplained
  <2> QED
    BY <2>2, <2>3, <2>4 DEF MainInv
<1>4. CASE StopRuns
  <2>1. UNCHANGED <<runVars, signalVars, mainVars, hpc, early>>
    BY <1>4 DEF StopRuns, StopArrives, ExitReceives
  <2>2. /\ exiter' = exiter \/ (exiter = "receiving" /\ exiter' = "received")
        /\ \A r \in StopRequest : stop'[r] # "none" => mpc \in AfterConsumer
        /\ \A r \in StopRequest : stop[r] # "none" => stop'[r] # "none"
    BY <1>0, <1>4 DEF StopRuns, StopArrives, ExitReceives, PlaceInv, TypeOK
  <2>3. PlaceInv'
    BY <1>0, <2>1, <2>2 DEF PlaceInv
  <2>4. RunInv' /\ CancelInv'
    BY <1>0, <2>1, <2>2 DEF RunInv, CancelInv
  <2>5. UpstreamExplained'
    BY <1>0, <2>1, <2>2 DEF UpstreamExplained
  <2> QED
    BY <2>3, <2>4, <2>5 DEF MainInv
<1>5. CASE Cancelling
  <2>1. PlaceInv'
    BY <1>0, <1>5, CancelChanges DEF PlaceInv
  <2>2. RunInv'
    BY <1>0, <1>5, CancelChanges DEF RunInv
  <2>3. CancelInv'
    <3>1. parentDone' /\ (phase' # "idle" => phase # "idle") /\ stoppedFirst' = stoppedFirst
      BY <1>5, CancelChanges
    <3>2. early' /\ phase' # "idle" => early
      BY <1>5, CancelChanges
    <3> QED
      BY <1>0, <3>1, <3>2 DEF CancelInv
  <2>4. UpstreamExplained'
    BY <1>0, <1>5, CancelChanges DEF UpstreamExplained
  <2> QED
    BY <2>1, <2>2, <2>3, <2>4 DEF MainInv
<1>6. CASE Handling
  <2>1. /\ UNCHANGED <<runVars, mainVars, stopVars, early>>
        /\ hpc' \in {"check", "publish"} => hpc \in {"check", "publish"}
    BY <1>6 DEF Handling, SignalArrives, SignalTaken, HandlerSkips, HandlerFails
  <2>2. PlaceInv' /\ RunInv' /\ CancelInv'
    BY <1>0, <2>1 DEF PlaceInv, RunInv, CancelInv
  <2>3. UpstreamExplained'
    BY <1>0, <2>1 DEF UpstreamExplained
  <2> QED
    BY <2>2, <2>3 DEF MainInv
<1>7. CASE CallRun
  <2>1. PlaceInv'
    BY <1>0, <1>7 DEF PlaceInv, CallRun, Goto, Run!Call
  <2>2. RunInv' /\ CancelInv'
    BY <1>0, <1>7 DEF RunInv, CancelInv, CallRun, Run!Call
  <2>3. UpstreamExplained'
    BY <1>7 DEF UpstreamExplained, CallRun, Run!Call
  <2> QED
    BY <2>1, <2>2, <2>3 DEF MainInv
<1>8. CASE RunReports \/ RunDies
  <2>1. PlaceInv' /\ RunInv' /\ CancelInv'
    BY <1>0, <1>8 DEF PlaceInv, RunInv, CancelInv, RunReports, RunDies, Run!Report,
                      Run!Die
  <2>2. UpstreamExplained'
    BY <1>0, <1>8 DEF UpstreamExplained, RunReports, RunDies, Run!Report, Run!Die
  <2> QED
    BY <2>1, <2>2 DEF MainInv
<1>9. CASE RunEnds
  <2>1. PlaceInv'
    BY <1>0, <1>9 DEF PlaceInv, RunEnds, Run!Announce, Run!Return
  <2>2. RunInv'
    BY <1>0, <1>9 DEF RunInv, RunEnds, Run!Announce, Run!Return, Run!FinalState,
                      Run!StatusCode
  <2>3. CancelInv'
    BY <1>0, <1>9 DEF CancelInv, RunEnds, Run!Announce, Run!Return
  <2>4. UpstreamExplained'
    BY <1>0, <1>9 DEF UpstreamExplained, RunInv, RunEnds, Run!Announce, Run!Return,
                      Run!FinalState
  <2> QED
    BY <2>1, <2>2, <2>3, <2>4 DEF MainInv
<1>10. CASE HandlerPublishes
  <2>1. PlaceInv' /\ RunInv' /\ CancelInv'
    BY <1>0, <1>10 DEF PlaceInv, RunInv, CancelInv, HandlerPublishes
  <2>2. UpstreamExplained'
    BY <1>0, <1>10 DEF UpstreamExplained, CancelInv, HandlerPublishes
  <2> QED
    BY <2>1, <2>2 DEF MainInv
<1>11. ASSUME NEW r \in StopRequest, StopReported(r) PROVE MainInv'
  <2>1. /\ UNCHANGED <<parentDone, proc, phase, stoppedFirst, announced, exitCode,
                       signalVars, mainVars, hpc, exiter, early>>
        /\ upstream' = "Running"
        /\ stop[r] # "none" /\ stop'[r] = "sending"
        /\ \A q \in StopRequest \ {r} : stop'[q] = stop[q]
    BY <1>11 DEF StopReported, TypeOK
  <2>2. PlaceInv'
    BY <1>0, <2>1 DEF PlaceInv
  <2>3. RunInv' /\ CancelInv'
    BY <1>0, <2>1 DEF RunInv, CancelInv
  <2>4. UpstreamExplained'
    BY <2>1 DEF UpstreamExplained
  <2> QED
    BY <2>2, <2>3, <2>4 DEF MainInv
<1>12. CASE UNCHANGED vars
  <2>1. PlaceInv' /\ RunInv' /\ CancelInv'
    BY <1>0, <1>12 DEF PlaceInv, RunInv, CancelInv, vars
  <2>2. UpstreamExplained'
    BY <1>0, <1>12 DEF UpstreamExplained, vars
  <2> QED
    BY <2>1, <2>2 DEF MainInv
<1> QED
  BY <1>1, <1>2, <1>3, <1>4, <1>5, <1>6, <1>7, <1>8, <1>9, <1>10, <1>11, <1>12, NextSplit

(* What main, its signal callback and its consumer know of each other, for *)
(* any number of stop requests.                                            *)
THEOREM MainSafe == Spec => [](TypeOK /\ MainInv)
<1>1. TypeOK /\ MainInv /\ [Next]_vars => (TypeOK /\ MainInv)'
  BY MainTypeNext, MainNext
<1> QED
  BY <1>1, MainInit, PTL DEF Spec

(* Every variable of the process keeps its type.                           *)
THEOREM MainTypeCorrect == Spec => []TypeOK
BY MainSafe, PTL

(* From its call of Run until main removes it, after Run has returned, the *)
(* complete job file is there, however the process ends.                   *)
THEOREM AlwaysRecoverable == Spec => []Recoverable
<1>1. TypeOK /\ MainInv => Recoverable
  BY DEF TypeOK, MainInv, PlaceInv, AfterCall, Recoverable
<1> QED
  BY <1>1, MainSafe, PTL

(* A job stopped before Run was called is never told to have completed.    *)
THEOREM EarlyStopsFail == Spec => []EarlyStopFails
<1>1. TypeOK /\ MainInv => EarlyStopFails
  BY DEF TypeOK, MainInv, RunInv, CancelInv, EarlyStopFails
<1> QED
  BY <1>1, MainSafe, PTL

(* Of any number of stop requests, those that Exit does not receive are    *)
(* for a job that another one has stopped, or is about to.                 *)
THEOREM BlockedStopsHarmless == Spec => []BlockedStopHarmless
<1>1. TypeOK /\ MainInv => BlockedStopHarmless
  BY DEF TypeOK, MainInv, PlaceInv, CancelInv, BlockedStopHarmless
<1> QED
  BY <1>1, MainSafe, PTL

(* What upstream was last told always has a reason.                        *)
THEOREM UpstreamIsExplained == Spec => []UpstreamExplained
<1>1. MainInv => UpstreamExplained
  BY DEF MainInv
<1> QED
  BY <1>1, MainSafe, PTL
=============================================================================
