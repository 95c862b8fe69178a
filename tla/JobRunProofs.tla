---------------------------- MODULE JobRunProofs ----------------------------
(***************************************************************************)
(* Proofs, for every number of data containers and inputs, about Run.      *)
(***************************************************************************)
EXTENDS JobRunInv, TLAPS

USE DEF stepVars, runVars

(* Any phase can begin with its first client.                              *)
LEMMA ClientsNat == Clients \in Nat
BY NumDataAssumption, NumInputsAssumption DEF Clients

LEMMA JobTypeInit == Init => TypeOK
<1> SUFFICES ASSUME Init PROVE TypeOK
  OBVIOUS
<1>1. index \in Nat /\ index <= Clients
  BY ClientsNat DEF Init
<1>2. status \in StatusCode \ {"none"} /\ upstream \in JobState
  BY DEF Init, StatusCode, JobState
<1> QED
  BY <1>1, <1>2 DEF Init, TypeOK, Process

LEMMA FollowingType ==
    rpc \in ClientPhase \cup {"steps", "inform"} =>
        Following[rpc] \in ClientPhase \cup {"steps", "inform", "done"}
BY DEF ClientPhase, Following

LEMMA JobTypeNext == TypeOK /\ JobInv /\ [Next]_vars => TypeOK'
<1> SUFFICES ASSUME TypeOK, JobInv, [Next]_vars PROVE TypeOK'
  OBVIOUS
<1>0. Clients' \in Nat /\ 0 \in Nat
  BY NumDataAssumption, NumInputsAssumption DEF Clients
<1> USE DEF TypeOK, Process, JobState, FinalState, StatusCode
<1>1. CASE Begin
  BY <1>1, <1>0 DEF Begin, Enter, Publish, ClientPhase
<1>2. CASE NoRunner
  BY <1>2 DEF NoRunner, Clients
<1>3. CASE ClientStarts
  BY <1>3 DEF ClientStarts, PhaseReport, Clients
<1>4. CASE ClientSucceeds
  <2>1. rpc \in ClientPhase /\ index < Clients
    BY <1>4 DEF ClientSucceeds, JobInv, ClientInv, MoreToRun
  <2>2. index' \in Nat /\ index' <= Clients'
    BY <1>4, <2>1, ClientsNat DEF ClientSucceeds, Clients
  <2>3. done' \subseteq ClientPhase \X Nat
    BY <1>4, <2>1 DEF ClientSucceeds
  <2>4. upstream' \in JobState
    BY <1>4 DEF ClientSucceeds, PhaseReport
  <2>5. /\ UNCHANGED <<parentDone, proc, phase, doomed, result, rpc, status, informed,
                     stoppedFirst>>
        /\ client' = FALSE
    BY <1>4 DEF ClientSucceeds
  <2>6. /\ parentDone' \in BOOLEAN /\ doomed' \in BOOLEAN /\ client' \in BOOLEAN
        /\ stoppedFirst' \in BOOLEAN
        /\ result' \in {NoReturn, Ok, StepFailed}
    BY <2>5
  <2>7. proc' \in Process /\ phase' \in {"idle", "running", "returned"}
    BY <2>5
  <2>8. rpc' \in ClientPhase \cup {"start", "steps", "inform", "done"}
    BY <2>5
  <2>9. status' \in StatusCode \ {"none"} /\ informed' \in {"none"} \cup FinalState
    BY <2>5
  <2> QED
    BY <2>2, <2>3, <2>4, <2>6, <2>7, <2>8, <2>9
<1>5. CASE ClientFails
  <2>1. status' \in StatusCode \ {"none"} /\ upstream' \in JobState
    BY <1>5 DEF ClientFails, Failure, PhaseReport
  <2>2. rpc' \in ClientPhase \cup {"steps", "inform", "done"}
    BY <1>5, FollowingType DEF ClientFails, Enter
  <2>3. index' \in Nat /\ index' <= Clients'
    BY <1>5, <1>0 DEF ClientFails, Enter
  <2> QED
    BY <1>5, <2>1, <2>2, <2>3 DEF ClientFails
<1>6. CASE PhaseEnds \/ Skip
  BY <1>6, <1>0, FollowingType DEF PhaseEnds, Skip, Skipped, Guarded, Enter,
                                  ClientPhase
<1>7. CASE CallSteps
  BY <1>7 DEF CallSteps, Steps!Call, Clients
<1>8. CASE StepsReturned
  <2>1. result.status \in {"Success", "StepFailed"}
    BY <1>8 DEF StepsReturned, JobInv, StepsInv, Ok, StepFailed
  <2> QED
    BY <1>8, <2>1, <1>0, FollowingType DEF StepsReturned, Enter
<1>9. CASE Inform
  BY <1>9, <1>0, FollowingType DEF Inform, FinalUpdate, Publish, Enter
<1>10. CASE StepsWork
  BY <1>10 DEF StepsWork, Steps!Report, Steps!Return, Steps!Die, Clients,
               Steps!StepFailed, Steps!Ok, StepFailed, Ok
<1>11. CASE Cancelled
  BY <1>11 DEF Cancelled, Steps!Cancel, Clients
<1>12. CASE UNCHANGED vars
  BY <1>12 DEF vars, Clients
<1> QED
  BY <1>1, <1>2, <1>3, <1>4, <1>5, <1>6, <1>7, <1>8, <1>9, <1>10, <1>11, <1>12
     DEF Next

-----------------------------------------------------------------------------
(***************************************************************************)
(* The invariant                                                           *)
(***************************************************************************)
LEMMA JobInit == Init => JobInv
<1> SUFFICES ASSUME Init PROVE JobInv
  OBVIOUS
<1> USE DEF AfterInform, AfterUpload, AfterSteps, AfterInput, AfterData, AfterPull
<1>1. ClientInv /\ StepsInv /\ StepsNeedInputs
  BY DEF Init, ClientInv, StepsInv, StepsNeedInputs
<1>2. DoneInv
  BY DEF Init, DoneInv, NoPull, NoData, NoInputs, NoUpload, NoneDone, Skipped, ClientPhase
<1>3. SuccessInv /\ FailureInv /\ InformInv /\ StoppedInv
  BY DEF Init, SuccessInv, FailureInv, InformInv, StoppedInv
<1> QED
  BY <1>1, <1>2, <1>3 DEF JobInv

(* What a phase has done stays as it is while another one runs its         *)
(* clients.                                                                *)
LEMMA OtherPhase ==
    ASSUME ClientSucceeds
    PROVE  /\ rpc # "pull" => (NoPull => NoPull')
           /\ rpc # "data" => (NoData => NoData')
           /\ rpc # "input" => (NoInputs => NoInputs')
           /\ rpc # "upload" => (NoUpload => NoUpload')
           /\ rpc # "pull" => (Pulled' => Pulled)
           /\ rpc # "data" => (DataCreated' => DataCreated)
           /\ rpc # "input" => (InputsDownloaded' => InputsDownloaded)
           /\ rpc # "upload" => (Uploaded' => Uploaded)
<1>1. /\ rpc # "pull" => (NoPull => NoPull')
      /\ rpc # "data" => (NoData => NoData')
      /\ rpc # "input" => (NoInputs => NoInputs')
      /\ rpc # "upload" => (NoUpload => NoUpload')
  BY DEF ClientSucceeds, NoPull, NoData, NoInputs, NoUpload, NoneDone
<1>2. rpc # "pull" => (Pulled' => Pulled)
  BY DEF ClientSucceeds, Pulled, AllDone
<1>3. rpc # "data" => (DataCreated' => DataCreated)
  BY DEF ClientSucceeds, DataCreated, AllDone
<1>4. rpc # "input" => (InputsDownloaded' => InputsDownloaded)
  BY DEF ClientSucceeds, InputsDownloaded, AllDone
<1>5. rpc # "upload" => (Uploaded' => Uploaded)
  BY DEF ClientSucceeds, Uploaded, AllDone
<1> QED
  BY <1>1, <1>2, <1>3, <1>4, <1>5

(* What has been done stays done.                                          *)
LEMMA DoneGrows ==
    ASSUME ClientSucceeds
    PROVE  /\ Pulled => Pulled'
           /\ DataCreated => DataCreated'
           /\ InputsDownloaded => InputsDownloaded'
           /\ Uploaded => Uploaded'
BY DEF ClientSucceeds, Pulled, DataCreated, InputsDownloaded, Uploaded, AllDone

(* A phase whose clients have all succeeded has done its work, and one     *)
(* that is not through has not.                                            *)
LEMMA PhaseDone ==
    ASSUME TypeOK, DoneInv, ~MoreToRun
    PROVE  /\ rpc = "pull" => Pulled
           /\ rpc = "data" => DataCreated
           /\ rpc = "input" => InputsDownloaded
           /\ rpc = "upload" => Uploaded
<1>1. index = Clients
  BY ClientsNat DEF TypeOK, MoreToRun
<1> QED
  BY <1>1 DEF DoneInv, Clients, Pulled, DataCreated, InputsDownloaded, Uploaded, AllDone

LEMMA PhaseNotDone ==
    ASSUME TypeOK, DoneInv, MoreToRun
    PROVE  /\ rpc = "pull" => ~Pulled
           /\ rpc = "data" => ~DataCreated
           /\ rpc = "input" => ~InputsDownloaded
           /\ rpc = "upload" => ~Uploaded
<1>1. index \in 0..(Clients - 1) /\ Clients \in Nat
  BY ClientsNat DEF TypeOK, MoreToRun
<1>2. ASSUME rpc \in {"pull", "data", "input", "upload"}
      PROVE  <<rpc, index>> \notin done
  <2>1. \A c \in done : c[1] = rpc => c[2] < index
    BY <1>2 DEF DoneInv
  <2>2. <<rpc, index>>[1] = rpc /\ <<rpc, index>>[2] = index /\ ~(index < index)
    BY <1>1
  <2> QED
    BY <2>1, <2>2
<1> QED
  BY <1>1, <1>2 DEF Clients, Pulled, DataCreated, InputsDownloaded, Uploaded, AllDone

(* Without a success, what has been done stays as it is.                   *)
LEMMA SameDone ==
    ASSUME UNCHANGED done
    PROVE  /\ NoPull => NoPull'
           /\ NoData => NoData'
           /\ NoInputs => NoInputs'
           /\ NoUpload => NoUpload'
           /\ Pulled' <=> Pulled
           /\ DataCreated' <=> DataCreated
           /\ InputsDownloaded' <=> InputsDownloaded
           /\ Uploaded' <=> Uploaded
<1>1. /\ NoPull => NoPull'
      /\ NoData => NoData'
      /\ NoInputs => NoInputs'
      /\ NoUpload => NoUpload'
  BY DEF NoPull, NoData, NoInputs, NoUpload, NoneDone
<1>2. Pulled' <=> Pulled
  BY DEF Pulled, AllDone
<1>3. DataCreated' <=> DataCreated
  BY DEF DataCreated, AllDone
<1>4. InputsDownloaded' <=> InputsDownloaded
  BY DEF InputsDownloaded, AllDone
<1>5. Uploaded' <=> Uploaded
  BY DEF Uploaded, AllDone
<1> QED
  BY <1>1, <1>2, <1>3, <1>4, <1>5

(* Nothing has been done yet in the phase that comes next.                 *)
LEMMA MoveOn ==
    ASSUME DoneInv, rpc \in ClientPhase \cup {"steps", "inform"},
           rpc' = Following[rpc], index' = 0, UNCHANGED done
    PROVE  DoneInv'
<1> USE DEF ClientPhase, Following, AfterInform, AfterUpload, AfterSteps,
            AfterInput, AfterData, AfterPull
<1>1. /\ rpc' \in {"start", "login", "network"} => NoPull'
      /\ rpc' \notin AfterPull => NoData'
      /\ rpc' \notin AfterData => NoInputs'
      /\ rpc' \notin AfterSteps => NoUpload'
  BY SameDone DEF DoneInv
<1>2. /\ rpc' = "pull" => NoPull
      /\ rpc' = "data" => NoData
      /\ rpc' = "input" => NoInputs
      /\ rpc' = "upload" => NoUpload
  BY DEF DoneInv
<1>3. rpc' \in {"pull", "data", "input", "upload"} =>
          \A c \in done' : c[1] # rpc'
  BY <1>2 DEF NoPull, NoData, NoInputs, NoUpload, NoneDone
<1> QED
  BY <1>1, <1>3 DEF DoneInv

(* A context that was done when Run was called stays done, so that no pull *)
(* starts and the phase can only fail.                                     *)
LEMMA StoppedNext == TypeOK /\ JobInv /\ [Next]_vars => StoppedInv'
<1> SUFFICES ASSUME TypeOK, JobInv, [Next]_vars PROVE StoppedInv'
  OBVIOUS
<1> USE DEF AfterInform, AfterUpload, AfterSteps, AfterInput, AfterData, AfterPull
<1>0. ClientInv /\ DoneInv /\ StepsInv /\ StoppedInv
  BY DEF JobInv
<1>1. CASE Begin
  <2>1. NoPull
    BY <1>1, <1>0 DEF Begin, DoneInv
  <2>2. NoPull'
    BY <1>1, <2>1, SameDone DEF Begin
  <2> QED
    BY <1>1, <2>2 DEF Begin, Enter, StoppedInv
<1>2. CASE ClientStarts
  BY <1>2, <1>0, SameDone DEF ClientStarts, Cancelable, StoppedInv
<1>3. CASE ClientSucceeds
  BY <1>3, <1>0, OtherPhase DEF ClientSucceeds, StoppedInv
<1>4. CASE ClientFails
  <2>1. rpc = "pull" => status' # "Success"
    BY <1>4 DEF ClientFails, Failure
  <2>2. status # "Success" => status' # "Success"
    BY <1>4 DEF ClientFails, Failure
  <2>3. rpc' \in AfterPull => rpc = "pull" \/ rpc \in AfterPull
    BY <1>4, <1>0 DEF ClientFails, ClientInv, Enter, Following, ClientPhase
  <2> QED
    BY <1>4, <1>0, <2>1, <2>2, <2>3, SameDone DEF ClientFails, Enter, StoppedInv
<1>5. CASE PhaseEnds
  <2>1. rpc = "pull" => Pulled
    BY <1>5, <1>0, PhaseDone DEF PhaseEnds
  <2>2. Pulled => ~NoPull
    <3>1. Pulled => <<"pull", 0>> \in done /\ <<"pull", 0>>[1] = "pull"
      BY DEF Pulled, AllDone
    <3> QED
      BY <3>1 DEF NoPull, NoneDone
  <2>3. rpc' \in AfterPull => rpc = "pull" \/ rpc \in AfterPull
    BY <1>5 DEF PhaseEnds, Enter, Following, ClientPhase
  <2> QED
    BY <1>5, <1>0, <2>1, <2>2, <2>3, SameDone DEF PhaseEnds, Enter, StoppedInv
<1>6. CASE Skip
  BY <1>6, <1>0, SameDone DEF Skip, Skipped, Guarded, Enter, Following, StoppedInv
<1>7. CASE StepsReturned
  <2>1. status = "Success" /\ rpc \in AfterPull
    BY <1>7, <1>0 DEF StepsReturned, StepsInv
  <2> QED
    BY <1>7, <1>0, <2>1, SameDone DEF StepsReturned, Enter, StoppedInv
<1>8. CASE Inform
  BY <1>8, <1>0, SameDone DEF Inform, Enter, Following, StoppedInv
<1>9. CASE NoRunner \/ CallSteps \/ StepsWork \/ Cancelled \/ UNCHANGED vars
  <2>1. /\ UNCHANGED <<rpc, client, done, status, stoppedFirst>>
        /\ parentDone => parentDone'
    BY <1>9 DEF NoRunner, CallSteps, StepsWork, Cancelled, Steps!Call, Steps!Report,
                Steps!Return, Steps!Die, Steps!Cancel, vars
  <2> QED
    BY <2>1, <1>0, SameDone DEF StoppedInv
<1> QED
  BY <1>1, <1>2, <1>3, <1>4, <1>5, <1>6, <1>7, <1>8, <1>9 DEF Next

LEMMA JobNext == TypeOK /\ JobInv /\ [Next]_vars => JobInv'
<1> SUFFICES ASSUME TypeOK, JobInv, [Next]_vars PROVE JobInv'
  OBVIOUS
<1>s. StoppedInv'
  BY StoppedNext
<1> USE DEF AfterInform, AfterUpload, AfterSteps, AfterInput, AfterData, AfterPull
<1>0. /\ ClientInv /\ DoneInv /\ StepsInv /\ SuccessInv /\ FailureInv
      /\ InformInv /\ StepsNeedInputs
  BY DEF JobInv
<1>4. CASE ClientSucceeds
  <2>0. rpc \in ClientPhase /\ ~Skipped /\ MoreToRun /\ UNCHANGED rpc
    BY <1>4, <1>0 DEF ClientSucceeds, ClientInv
  <2>1. ClientInv'
    BY <1>4 DEF ClientSucceeds, ClientInv
  <2>2. DoneInv'
    <3>1. rpc' \in {"pull", "data", "input", "upload"} =>
              \A c \in done' : c[1] = rpc' => c[2] < index'
      BY <1>4, <1>0 DEF ClientSucceeds, DoneInv, TypeOK
    <3>2. \A i \in 0..(index' - 1) : <<rpc', i>> \in done'
      BY <1>4, <1>0 DEF ClientSucceeds, DoneInv, TypeOK
    <3>3. ~Skipped'
      BY <1>4, <2>0 DEF ClientSucceeds, Skipped
    <3> QED
      BY <1>0, <2>0, <3>1, <3>2, <3>3, <1>4, OtherPhase DEF DoneInv
  <2>3. StepsInv'
    BY <1>4, <1>0 DEF ClientSucceeds, StepsInv
  <2>4. SuccessInv' /\ StepsNeedInputs'
    BY <1>4, <1>0, DoneGrows DEF ClientSucceeds, SuccessInv, StepsNeedInputs
  <2>5. FailureInv'
    <3>1. status # "Success" => rpc \notin {"data", "input"}
      BY <2>0 DEF Skipped, Guarded
    <3>2. UNCHANGED <<status, rpc, phase, result>>
      BY <1>4 DEF ClientSucceeds
    <3> QED
      BY <1>0, <1>4, <3>1, <3>2, DoneGrows, OtherPhase DEF FailureInv
  <2>6. InformInv'
    BY <1>4, <1>0 DEF ClientSucceeds, InformInv
  <2> QED
    BY <1>s, <2>1, <2>2, <2>3, <2>4, <2>5, <2>6 DEF JobInv
<1>5. CASE ClientFails
  <2>0. rpc \in ClientPhase /\ ~Skipped /\ MoreToRun
    BY <1>5, <1>0 DEF ClientFails, ClientInv
  <2>1. ClientInv'
    BY <1>5 DEF ClientFails, ClientInv
  <2>2. DoneInv'
    BY <1>5, <1>0, <2>0, MoveOn DEF ClientFails, Enter
  <2>3. StepsInv'
    BY <1>5, <1>0, <2>0 DEF ClientFails, Enter, StepsInv, ClientPhase, Following
  <2>4. SuccessInv'
    <3>1. status' = "Success" =>
              status = "Success" /\ rpc \in {"login", "network", "down", "rmnet"}
      BY <1>5, <2>0 DEF ClientFails, Failure, ClientPhase
    <3> QED
      BY <1>5, <1>0, <3>1, SameDone DEF ClientFails, Enter, Following, SuccessInv
  <2>5. FailureInv'
    <3>1. status # "Success" => rpc \notin {"data", "input"}
      BY <2>0 DEF Skipped, Guarded
    <3>2. CASE rpc \in {"login", "network", "down", "rmnet"}
      BY <1>5, <1>0, <3>2, SameDone DEF ClientFails, Enter, Following, Failure, FailureInv
    <3>3. CASE rpc = "pull"
      BY <1>5, <1>0, <2>0, <3>3, SameDone, PhaseNotDone
         DEF ClientFails, Enter, Following, Failure, FailureInv, DoneInv, StepsInv
    <3>4. CASE rpc = "data"
      BY <1>5, <1>0, <2>0, <3>1, <3>4, SameDone, PhaseNotDone
         DEF ClientFails, Enter, Following, Failure, FailureInv, SuccessInv, DoneInv, StepsInv
    <3>5. CASE rpc = "input"
      BY <1>5, <1>0, <2>0, <3>1, <3>5, SameDone, PhaseNotDone
         DEF ClientFails, Enter, Following, Failure, FailureInv, SuccessInv, DoneInv, StepsInv
    <3>6. CASE rpc = "upload"
      BY <1>5, <1>0, <2>0, <3>6, SameDone, PhaseNotDone
         DEF ClientFails, Enter, Following, Failure, FailureInv
    <3> QED
      BY <2>0, <3>2, <3>3, <3>4, <3>5, <3>6 DEF ClientPhase
  <2>6. InformInv'
    BY <1>5, <1>0, <2>0 DEF ClientFails, Enter, Following, Failure, InformInv, ClientPhase
  <2>7. StepsNeedInputs'
    BY <1>5, <1>0, SameDone DEF ClientFails, StepsNeedInputs
  <2> QED
    BY <1>s, <2>1, <2>2, <2>3, <2>4, <2>5, <2>6, <2>7 DEF JobInv
<1>6. CASE PhaseEnds
  <2>0. rpc \in ClientPhase /\ ~Skipped /\ ~MoreToRun /\ UNCHANGED <<done, status, phase, result>>
    BY <1>6 DEF PhaseEnds
  <2>1. ClientInv' /\ StepsNeedInputs'
    BY <1>6, <1>0, SameDone DEF PhaseEnds, ClientInv, StepsNeedInputs
  <2>2. DoneInv'
    BY <1>6, <1>0, MoveOn DEF PhaseEnds, Enter
  <2>3. StepsInv'
    BY <1>6, <1>0, <2>0 DEF PhaseEnds, Enter, StepsInv, ClientPhase, Following
  <2>4. SuccessInv'
    BY <1>6, <1>0, <2>0, SameDone, PhaseDone
       DEF PhaseEnds, Enter, Following, SuccessInv, ClientPhase
  <2>5. FailureInv'
    BY <1>6, <1>0, <2>0, SameDone DEF PhaseEnds, Enter, Following, FailureInv, ClientPhase
  <2>6. InformInv'
    BY <1>6, <1>0, <2>0 DEF PhaseEnds, Enter, Following, InformInv, ClientPhase
  <2> QED
    BY <1>s, <2>1, <2>2, <2>3, <2>4, <2>5, <2>6 DEF JobInv
<1>7. CASE Skip
  <2>0. rpc \in Guarded /\ status # "Success" /\ UNCHANGED <<done, status, phase, result>>
    BY <1>7 DEF Skip, Skipped
  <2>1. ClientInv' /\ StepsNeedInputs' /\ SuccessInv'
    <3>1. ~client
      BY <1>7, <1>0 DEF Skip, ClientInv
    <3> QED
      BY <1>7, <1>0, <2>0, <3>1, SameDone DEF Skip, ClientInv, StepsNeedInputs, SuccessInv
  <2>2. DoneInv'
    BY <1>7, <1>0, <2>0, MoveOn DEF Skip, Enter, Guarded, ClientPhase
  <2>3. StepsInv'
    BY <1>7, <1>0, <2>0 DEF Skip, Enter, StepsInv, Guarded, Following
  <2>4. FailureInv'
    BY <1>7, <1>0, <2>0, SameDone DEF Skip, Enter, Following, FailureInv, Guarded
  <2>5. InformInv'
    BY <1>7, <1>0, <2>0 DEF Skip, Enter, Following, InformInv, Guarded
  <2> QED
    BY <1>s, <2>1, <2>2, <2>3, <2>4, <2>5 DEF JobInv
<1>8. CASE CallSteps
  <2>0. /\ rpc = "steps" /\ status = "Success" /\ phase = "idle" /\ phase' = "running"
        /\ UNCHANGED <<rpc, client, index, status, done, informed, result>>
    BY <1>8 DEF CallSteps, Steps!Call, Skipped, Guarded
  <2>1. ClientInv'
    BY <2>0, <1>0 DEF ClientInv, ClientPhase
  <2>2. DoneInv'
    BY <2>0, <1>0, SameDone DEF DoneInv, Skipped
  <2>3. StepsInv'
    BY <2>0, <1>0 DEF StepsInv, NoReturn, Ok
  <2>4. SuccessInv' /\ FailureInv' /\ StepsNeedInputs'
    BY <2>0, <1>0, SameDone DEF SuccessInv, FailureInv, StepsNeedInputs
  <2>5. InformInv'
    BY <2>0, <1>0 DEF InformInv
  <2> QED
    BY <1>s, <2>1, <2>2, <2>3, <2>4, <2>5 DEF JobInv
<1>9. CASE StepsReturned
  <2>0. /\ rpc = "steps" /\ rpc' = "upload" /\ phase = "returned" /\ status = "Success"
        /\ status' = result.status /\ result \in {Ok, StepFailed}
        /\ UNCHANGED <<client, done, informed, phase, doomed, result>>
    BY <1>9, <1>0 DEF StepsReturned, Enter, Following, StepsInv
  <2>1. ClientInv'
    BY <2>0, <1>0 DEF ClientInv, ClientPhase
  <2>2. DoneInv'
    BY <1>9, <1>0, MoveOn DEF StepsReturned, Enter
  <2>3. StepsInv'
    BY <2>0, <1>0 DEF StepsInv
  <2>4. CASE result = Ok
    <3>1. status' = "Success"
      BY <2>0, <2>4 DEF Ok
    <3> QED
      BY <1>s, <2>0, <2>1, <2>2, <2>3, <2>4, <3>1, <1>0, SameDone
         DEF SuccessInv, FailureInv, InformInv, StepsNeedInputs, JobInv
  <2>5. CASE result = StepFailed
    <3>1. status' = "StepFailed"
      BY <2>0, <2>5 DEF StepFailed
    <3> QED
      BY <1>s, <2>0, <2>1, <2>2, <2>3, <2>5, <3>1, <1>0, SameDone
         DEF SuccessInv, FailureInv, InformInv, StepsNeedInputs, JobInv
  <2> QED
    BY <2>0, <2>4, <2>5
<1>10. CASE Inform
  <2>0. /\ rpc = "inform" /\ rpc' = "down" /\ informed' = FinalUpdate
        /\ UNCHANGED <<client, done, status, phase, doomed, result>>
    BY <1>10 DEF Inform, Enter, Following
  <2>1. ClientInv'
    BY <2>0, <1>0 DEF ClientInv, ClientPhase
  <2>2. DoneInv'
    BY <1>10, <1>0, MoveOn DEF Inform, Enter
  <2>3. StepsInv'
    BY <2>0, <1>0 DEF StepsInv
  <2>4. SuccessInv' /\ FailureInv' /\ StepsNeedInputs'
    BY <2>0, <1>0, SameDone DEF SuccessInv, FailureInv, StepsNeedInputs
  <2>5. InformInv'
    BY <2>0, <1>0 DEF InformInv, FinalUpdate
  <2> QED
    BY <1>s, <2>1, <2>2, <2>3, <2>4, <2>5 DEF JobInv
<1>11. CASE Begin
  <2>0. /\ rpc = "start" /\ rpc' = "login" /\ index' = 0
        /\ UNCHANGED <<client, done, status, phase, doomed, result, informed>>
    BY <1>11 DEF Begin, Enter
  <2>1. ClientInv'
    BY <2>0, <1>0 DEF ClientInv, ClientPhase
  <2>2. DoneInv'
    BY <2>0, <1>0, SameDone DEF DoneInv
  <2>3. StepsInv'
    BY <2>0, <1>0 DEF StepsInv
  <2>4. SuccessInv' /\ FailureInv' /\ StepsNeedInputs'
    BY <2>0, <1>0, SameDone DEF SuccessInv, FailureInv, StepsNeedInputs
  <2>5. InformInv'
    BY <2>0, <1>0 DEF InformInv
  <2> QED
    BY <1>s, <2>1, <2>2, <2>3, <2>4, <2>5 DEF JobInv
<1>12. CASE ClientStarts
  <2>0. /\ rpc \in ClientPhase /\ ~Skipped /\ MoreToRun
        /\ UNCHANGED <<rpc, index, done, status, phase, doomed, result, informed>>
    BY <1>12 DEF ClientStarts
  <2>1. ClientInv'
    BY <2>0 DEF ClientInv, Skipped, MoreToRun, Clients
  <2>2. DoneInv'
    BY <2>0, <1>0, SameDone DEF DoneInv, Skipped
  <2>3. StepsInv' /\ InformInv'
    BY <2>0, <1>0 DEF StepsInv, InformInv
  <2>4. SuccessInv' /\ FailureInv' /\ StepsNeedInputs'
    BY <2>0, <1>0, SameDone DEF SuccessInv, FailureInv, StepsNeedInputs
  <2> QED
    BY <1>s, <2>1, <2>2, <2>3, <2>4 DEF JobInv
<1>13. CASE StepsWork
  <2>0. /\ UNCHANGED <<rpc, client, index, status, done, informed, doomed>>
        /\ \/ UNCHANGED <<phase, result>>
           \/ /\ phase = "running" /\ phase' = "returned"
              /\ result' \in {Ok, StepFailed} /\ (doomed => result' = StepFailed)
    BY <1>13 DEF StepsWork, Steps!Report, Steps!Return, Steps!Die,
                 Steps!Ok, Steps!StepFailed, Ok, StepFailed
  <2>1. ClientInv'
    BY <2>0, <1>0 DEF ClientInv, Skipped, MoreToRun, Clients
  <2>2. DoneInv'
    BY <2>0, <1>0, SameDone DEF DoneInv, Skipped
  <2>3. StepsInv'
    BY <2>0, <1>0 DEF StepsInv, Ok, StepFailed
  <2>4. rpc \in AfterSteps => UNCHANGED <<phase, result>>
    BY <2>0, <1>0 DEF StepsInv
  <2>5. phase = "idle" => phase' = "idle"
    BY <2>0
  <2>6. SuccessInv' /\ StepsNeedInputs' /\ InformInv'
    BY <2>0, <2>4, <2>5, <1>0, SameDone DEF SuccessInv, StepsNeedInputs, InformInv
  <2>7. FailureInv'
    BY <2>0, <2>4, <2>5, <1>0, SameDone DEF FailureInv
  <2> QED
    BY <1>s, <2>1, <2>2, <2>3, <2>6, <2>7 DEF JobInv
<1>14. CASE NoRunner \/ Cancelled \/ UNCHANGED vars
  <2>0. UNCHANGED <<rpc, client, index, status, done, informed, phase, doomed, result>>
    BY <1>14 DEF NoRunner, Cancelled, Steps!Cancel, vars
  <2>1. ClientInv'
    BY <2>0, <1>0 DEF ClientInv, Skipped, MoreToRun, Clients
  <2>2. DoneInv'
    BY <2>0, <1>0, SameDone DEF DoneInv, Skipped
  <2>3. StepsInv' /\ InformInv'
    BY <2>0, <1>0 DEF StepsInv, InformInv
  <2>4. SuccessInv' /\ FailureInv' /\ StepsNeedInputs'
    BY <2>0, <1>0, SameDone DEF SuccessInv, FailureInv, StepsNeedInputs
  <2> QED
    BY <1>s, <2>1, <2>2, <2>3, <2>4 DEF JobInv
<1> QED
  BY <1>4, <1>5, <1>6, <1>7, <1>8, <1>9, <1>10, <1>11, <1>12, <1>13, <1>14 DEF Next

(* What others publish beside Run does not touch what Run knows.           *)
LEMMA JobFrame ==
    ASSUME TypeOK, JobInv, UNCHANGED <<parentDone, proc, stepVars, runVars>>,
           upstream' \in JobState
    PROVE  TypeOK' /\ JobInv'
<1> USE DEF stepVars, runVars, AfterInform, AfterUpload, AfterSteps, AfterInput,
            AfterData, AfterPull
<1>0. /\ ClientInv /\ DoneInv /\ StepsInv /\ SuccessInv /\ FailureInv
      /\ InformInv /\ StoppedInv /\ StepsNeedInputs
  BY DEF JobInv
<1>1. TypeOK'
  BY DEF TypeOK, Clients
<1>2. ClientInv' /\ StepsInv' /\ InformInv'
  BY <1>0 DEF ClientInv, Skipped, MoreToRun, Clients, StepsInv, InformInv
<1>3. DoneInv'
  BY <1>0, SameDone DEF DoneInv, Skipped
<1>4. SuccessInv' /\ FailureInv' /\ StepsNeedInputs'
  BY <1>0, SameDone DEF SuccessInv, FailureInv, StepsNeedInputs
<1>5. StoppedInv'
  BY <1>0, SameDone DEF StoppedInv
<1> QED
  BY <1>1, <1>2, <1>3, <1>4, <1>5 DEF JobInv

(* What Run knows of the phases behind it, for any number of data          *)
(* containers and inputs.                                                  *)
THEOREM JobSafe == Spec => [](TypeOK /\ JobInv)
<1>1. Init => TypeOK /\ JobInv
  BY JobTypeInit, JobInit
<1>2. TypeOK /\ JobInv /\ [Next]_vars => (TypeOK /\ JobInv)'
  BY JobTypeNext, JobNext
<1> QED
  BY <1>1, <1>2, PTL DEF Spec

(* Every variable of Run keeps its type.                                   *)
THEOREM JobTypeCorrect == Spec => []TypeOK
BY JobSafe, PTL

(* The steps run only on pulled images, data containers and inputs that    *)
(* are all there, however many there are.                                  *)
THEOREM StepsHaveInputs == Spec => []StepsNeedInputs
<1>1. JobInv => StepsNeedInputs
  BY DEF JobInv
<1> QED
  BY <1>1, JobSafe, PTL

LEMMA Honest == JobInv => HonestCompletion
BY DEF JobInv, InformInv, SuccessInv, StepsInv, StoppedInv, HonestCompletion,
       AfterInform, AfterUpload, AfterSteps, AfterInput, AfterData, AfterPull

(* Run tells upstream that the job completed only if every phase did its   *)
(* work, the upload included, and the job was not stopped before its step. *)
THEOREM CompletionIsHonest == Spec => []HonestCompletion
BY Honest, JobSafe, PTL

(* The exit code names the first phase that went wrong, or the upload.     *)
THEOREM StatusIsExplained == Spec => []StatusExplained
<1>1. TypeOK /\ JobInv => StatusExplained
  BY DEF TypeOK, StatusCode, JobInv, InformInv, SuccessInv, FailureInv, StatusExplained
<1> QED
  BY <1>1, JobSafe, PTL

(* Once upstream has been told how the job ended, only a goroutine that    *)
(* runAllSteps left behind can publish another update.                     *)
THEOREM RunIsSilent == Spec => SilentAfterFinal
<1>1. ASSUME TypeOK, JobInv, [Next]_vars, informed # "none", phase = "idle"
      PROVE  upstream' = upstream
  <2>1. rpc \in {"down", "rmnet", "done"}
    BY <1>1 DEF JobInv, InformInv, AfterInform
  <2>2. CASE ClientStarts \/ ClientSucceeds \/ ClientFails
    BY <2>1, <2>2 DEF ClientStarts, ClientSucceeds, ClientFails, PhaseReport, Reporting
  <2>3. CASE Begin \/ CallSteps \/ Inform
    BY <2>1, <2>3 DEF Begin, CallSteps, Inform
  <2>4. CASE StepsWork \/ Cancelled
    BY <1>1, <2>4 DEF StepsWork, Cancelled, Steps!Report, Steps!Return, Steps!Die,
                      Steps!Cancel
  <2>5. CASE NoRunner \/ PhaseEnds \/ Skip \/ StepsReturned \/ UNCHANGED vars
    BY <2>5 DEF NoRunner, PhaseEnds, Skip, StepsReturned, vars
  <2> QED
    BY <1>1, <2>2, <2>3, <2>4, <2>5 DEF Next
<1>2. TypeOK /\ JobInv /\ [Next]_vars =>
          [informed # "none" /\ phase = "idle" => upstream' = upstream]_vars
  BY <1>1
<1> QED
  BY <1>2, JobSafe, PTL DEF Spec, SilentAfterFinal

-----------------------------------------------------------------------------
(***************************************************************************)
(* Run implements the contract of its caller.                              *)
(***************************************************************************)
LEMMA RunContractInit == Init => Contract!Init
BY DEF Init, Contract!Init, phaseBar, exitBar

(* A step of Run between its call and its final update, or between that    *)
(* and its return.                                                         *)
LEMMA RunInternal ==
    ASSUME TypeOK, UNCHANGED <<parentDone, proc, informed, stoppedFirst>>, proc = "up",
           rpc \notin {"start", "done"}, rpc' \notin {"start", "done"},
           upstream' \in {upstream, "Running"}
    PROVE  [Contract!Next]_(Contract!vars)
<1>1. UNCHANGED <<phaseBar, exitBar>> /\ phaseBar # "idle"
  BY DEF phaseBar, exitBar
<1> QED
  BY <1>1 DEF Contract!Next, Contract!Report, Contract!vars

(* Run goes to its next phase, and returns after the last one.             *)
LEMMA RunMovesOn ==
    ASSUME TypeOK, JobInv, UNCHANGED <<parentDone, informed, stoppedFirst>>,
           proc = "up", UNCHANGED proc, rpc \in ClientPhase \cup {"steps"},
           rpc' = Following[rpc], upstream' \in {upstream, "Running"},
           rpc = "rmnet" => UNCHANGED <<upstream, status>>
    PROVE  [Contract!Next]_(Contract!vars)
<1>1. CASE rpc = "rmnet"
  <2>1. rpc' = "done" /\ informed # "none"
    BY <1>1 DEF Following, JobInv, InformInv, AfterInform
  <2>2. phaseBar = "informed" /\ phaseBar' = "returned" /\ exitBar' = status
    BY <1>1, <2>1 DEF phaseBar, exitBar
  <2>3. informed = "Completed" <=> status = "Success"
    BY <1>1 DEF JobInv, InformInv, AfterInform
  <2>4. Contract!Return
    BY <1>1, <2>2, <2>3 DEF Contract!Return, TypeOK, StatusCode, Contract!StatusCode
  <2> QED
    BY <2>4 DEF Contract!Next
<1>2. CASE rpc # "rmnet"
  <2>1. rpc # "start" /\ rpc # "done" /\ rpc' \notin {"start", "done"}
    BY <1>2 DEF Following, ClientPhase
  <2> QED
    BY <2>1, RunInternal
<1> QED
  BY <1>1, <1>2

LEMMA RunContractNext ==
    ASSUME TypeOK, JobInv, [Next]_vars
    PROVE  [Contract!Next]_(Contract!vars)
<1> USE DEF Up
<1>0. /\ phase # "idle" => rpc # "start"
      /\ client => rpc \in ClientPhase
      /\ informed = "none" \/ rpc \in AfterInform
  BY DEF JobInv, StepsInv, ClientInv, InformInv, AfterInform, AfterUpload,
         AfterSteps, AfterInput
<1>1. CASE Begin
  <2>1. /\ phaseBar = "idle" /\ phaseBar' = "running" /\ UNCHANGED <<exitBar, informed>>
    BY <1>1, <1>0 DEF Begin, Enter, phaseBar, exitBar, AfterInform
  <2>2. Contract!Call
    BY <1>1, <2>1 DEF Begin, Publish, Contract!Call
  <2> QED
    BY <2>2 DEF Contract!Next
<1>2. CASE NoRunner
  <2>1. Contract!Die
    BY <1>2 DEF NoRunner, Contract!Die, phaseBar, exitBar
  <2> QED
    BY <2>1 DEF Contract!Next
<1>3. CASE ClientStarts \/ ClientSucceeds
  <2>1. rpc \in ClientPhase
    BY <1>3, <1>0 DEF ClientStarts, ClientSucceeds
  <2> QED
    BY <1>3, <2>1, RunInternal DEF ClientStarts, ClientSucceeds, PhaseReport, ClientPhase
<1>4. CASE ClientFails
  <2>1. rpc = "rmnet" => UNCHANGED <<upstream, status>>
    BY <1>4 DEF ClientFails, PhaseReport, Reporting, Failure
  <2> QED
    BY <1>4, <2>1, RunMovesOn DEF ClientFails, PhaseReport, Enter
<1>5. CASE PhaseEnds
  BY <1>5, RunMovesOn DEF PhaseEnds, Enter
<1>6. CASE Skip
  <2>1. rpc \in ClientPhase \cup {"steps"}
    BY <1>6 DEF Skip, Skipped, Guarded, ClientPhase
  <2> QED
    BY <1>6, <2>1, RunMovesOn DEF Skip, Enter
<1>7. CASE CallSteps
  BY <1>7, RunInternal DEF CallSteps, Steps!Call
<1>8. CASE StepsReturned
  BY <1>8, RunMovesOn DEF StepsReturned, Enter
<1>9. CASE Inform
  <2>1. /\ rpc = "inform" /\ rpc' = "down" /\ informed = "none" /\ informed' \in FinalState
    BY <1>9, <1>0 DEF Inform, Enter, Following, AfterInform, FinalUpdate, FinalState
  <2>2. phaseBar = "running" /\ phaseBar' = "informed" /\ UNCHANGED exitBar
    BY <2>1 DEF phaseBar, exitBar, FinalState
  <2>s. stoppedFirst => informed' = "Failed"
    BY <1>9, <2>1 DEF Inform, FinalUpdate, JobInv, StoppedInv, AfterPull, AfterData,
                      AfterInput, AfterSteps, AfterUpload
  <2>3. Contract!Announce
    BY <1>9, <2>1, <2>2, <2>s DEF Inform, Publish, Contract!Announce, FinalState,
                            Contract!FinalState
  <2> QED
    BY <2>3 DEF Contract!Next
<1>10. CASE StepsWork
  <2>1. UNCHANGED <<rpc, informed, status, stoppedFirst>>
    BY <1>10 DEF StepsWork
  <2>2. UNCHANGED <<phaseBar, exitBar>>
    BY <2>1 DEF phaseBar, exitBar
  <2>3. CASE Steps!Report
    <3>1. phaseBar # "idle"
      BY <1>0, <2>3 DEF Steps!Report, phaseBar
    <3>2. Contract!Report
      BY <2>1, <2>2, <2>3, <3>1 DEF Steps!Report, Contract!Report
    <3> QED
      BY <3>2 DEF Contract!Next
  <2>4. CASE Steps!Return
    BY <2>1, <2>2, <2>4 DEF Steps!Return, Contract!vars
  <2>5. CASE Steps!Die
    <3>1. Contract!Die
      BY <2>1, <2>2, <2>5 DEF Steps!Die, Contract!Die
    <3> QED
      BY <3>1 DEF Contract!Next
  <2> QED
    BY <1>10, <2>3, <2>4, <2>5 DEF StepsWork
<1>11. CASE Cancelled
  <2>1. Contract!Cancel
    BY <1>11 DEF Cancelled, Steps!Cancel, Contract!Cancel, phaseBar, exitBar
  <2> QED
    BY <2>1 DEF Contract!Next
<1>12. CASE UNCHANGED vars
  BY <1>12 DEF vars, Contract!vars, phaseBar, exitBar
<1> QED
  BY <1>1, <1>2, <1>3, <1>4, <1>5, <1>6, <1>7, <1>8, <1>9, <1>10, <1>11, <1>12
     DEF Next

(* Run keeps the contract main.go relies on.                               *)
THEOREM RunRefinement == Spec => KeepsContract
<1>1. Init => Contract!Init
  BY RunContractInit
<1>2. TypeOK /\ JobInv /\ [Next]_vars => [Contract!Next]_(Contract!vars)
  BY RunContractNext
<1> QED
  BY <1>1, <1>2, JobSafe, PTL DEF Spec, KeepsContract, Contract!Spec
=============================================================================
