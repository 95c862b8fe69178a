---------------------------- MODULE Composition -----------------------------
(***************************************************************************)
(* The docker-compose services of a job: InitFromJob and ConvertStep       *)
(* (dcompose.go), and main (main.go), which writes them out whether or not *)
(* InitFromJob failed.  Run and runAllSteps (run.go) start services by     *)
(* these names.  main refuses a job that has not exactly one step, so the  *)
(* loop over the steps is unrolled to one.  What a service carries beyond  *)
(* its container name and volumes_from is left out; the name is the one a  *)
(* step has by default.                                                    *)
(***************************************************************************)
EXTENDS Naturals, Sequences

CONSTANTS Prefix,      \* the name prefixes of data containers
          MaxVolumes,  \* bound: how many volumes_from a step has
          MaxInputs    \* bound: how many inputs a job has

ASSUME MaxVolumesAssumption == MaxVolumes \in Nat
ASSUME MaxInputsAssumption == MaxInputs \in Nat

(* The steps' JSON decides whether the environment map is nil, whether     *)
(* there are ports, and what url.Parse makes of the URLs.                  *)
Job == [volumesFrom : UNION {[1..n -> Prefix] : n \in 0..MaxVolumes},
        inputs      : 0..MaxInputs,
        environment : BOOLEAN,  \* the environment map is not nil
        ports       : BOOLEAN,  \* the container has a port
        frontend    : BOOLEAN,  \* the frontend URL parses
        backend     : BOOLEAN]  \* the backend URL parses

VARIABLES
    job,
    pc,        \* the loop or call InitFromJob is at
    index,     \* the iteration of the loop
    services,  \* c.composition.Services
    result     \* of InitFromJob: "none", "nil", "error" or "panic"

vars == <<job, pc, index, services, result>>

Data(i) == <<"data", i>>
Input(i) == <<"input", i>>
Step == <<"step", 0>>
Proxy == <<"proxy", 0>>
Upload == <<"upload_outputs", 0>>
Unresolved == <<"", 0>>  \* the empty string

DataServices == {Data(i) : i \in 0..(MaxVolumes - 1)}
InputServices == {Input(i) : i \in 0..(MaxInputs - 1)}
ServiceName == DataServices \cup InputServices \cup {Step, Proxy, Upload}

Unnamed == <<"unnamed", 0>>  \* docker-compose makes up a name
DataContainer(p) == <<"prefix", p>>

TypeOK ==
    /\ job \in Job
    /\ pc \in {"data", "input", "convert", "volumes", "upload", "done",
               "written"}
    /\ index \in Nat /\ index <= Len(job.volumesFrom) + job.inputs
    /\ DOMAIN services \subseteq ServiceName
    /\ result \in {"none", "nil", "error", "panic"}

Init ==
    /\ job \in Job
    /\ pc = "data" /\ index = 0 /\ services = <<>> /\ result = "none"

Add(n, container) ==
    services' = [m \in DOMAIN services \cup {n} |->
                    IF m = n THEN [container |-> container, volumesFrom |-> <<>>]
                             ELSE services[m]]

Goto(p) == pc' = p /\ index' = 0

Returns(how) ==
    /\ pc' = "done" /\ result' = how
    /\ UNCHANGED <<job, index, services>>

-----------------------------------------------------------------------------
(***************************************************************************)
(* InitFromJob.  job.DataContainers lists the volumes_from of the step.    *)
(***************************************************************************)
AddData ==
    /\ pc = "data" /\ index < Len(job.volumesFrom)
    /\ Add(Data(index), DataContainer(job.volumesFrom[index + 1]))
    /\ index' = index + 1
    /\ UNCHANGED <<job, pc, result>>

DataAdded ==
    /\ pc = "data" /\ index = Len(job.volumesFrom)
    /\ Goto("input")
    /\ UNCHANGED <<job, services, result>>

(* Mutant: the last input is forgotten.                                    *)
InputsAdded_Early ==
    /\ pc = "input" /\ index + 1 >= job.inputs
    /\ Goto("convert")
    /\ UNCHANGED <<job, services, result>>

(* Mutant: the upload is added before the step.                            *)
InputsAdded_UploadFirst ==
    /\ pc = "input" /\ index = job.inputs
    /\ Add(Upload, Unnamed)
    /\ Goto("convert")
    /\ UNCHANGED <<job, result>>

AddInput ==
    /\ pc = "input" /\ index < job.inputs
    /\ Add(Input(index), Unnamed)
    /\ index' = index + 1
    /\ UNCHANGED <<job, pc, result>>

InputsAdded ==
    /\ pc = "input" /\ index = job.inputs
    /\ Goto("convert")
    /\ UNCHANGED <<job, services, result>>

AddUpload ==
    /\ pc = "upload"
    /\ Add(Upload, Unnamed)
    /\ pc' = "done" /\ result' = "nil"
    /\ UNCHANGED <<job, index>>

-----------------------------------------------------------------------------
(***************************************************************************)
(* ConvertStep                                                             *)
(***************************************************************************)
(* FrontendURL fails before anything is added.                             *)
FrontendFails == pc = "convert" /\ ~job.frontend /\ Returns("error")

(* IPLANT_USER is assigned in a nil map.                                   *)
EnvironmentPanics ==
    pc = "convert" /\ job.frontend /\ ~job.environment /\ Returns("panic")

AddStep ==
    /\ pc = "convert" /\ job.frontend /\ job.environment
    /\ Add(Step, Step)
    /\ Goto("volumes")
    /\ UNCHANGED <<job, result>>

(* Mutant: the first data container is taken for all of them.              *)
Found_First(p) == {Data(0)}

(* The services that have the container name of the volume.                *)
Found(p) == {n \in DOMAIN services : services[n].container = DataContainer(p)}

(* The scan of the map keeps the last one it meets, in no given order, or  *)
(* the empty string.                                                       *)
ResolveVolume ==
    /\ pc = "volumes" /\ index < Len(job.volumesFrom)
    /\ LET found == Found(job.volumesFrom[index + 1])
       IN \E n \in IF found = {} THEN {Unresolved} ELSE found :
              services' = [services EXCEPT ![Step].volumesFrom = Append(@, n)]
    /\ index' = index + 1
    /\ UNCHANGED <<job, pc, result>>

VolumesResolved == pc = "volumes" /\ index = Len(job.volumesFrom)

(* Container.Ports[0] of a container without a port.                       *)
PortsPanic == VolumesResolved /\ ~job.ports /\ Returns("panic")

(* websocketURL fails when the step is in and its proxy is not.            *)
WebsocketFails == VolumesResolved /\ job.ports /\ ~job.backend /\ Returns("error")

AddProxy ==
    /\ VolumesResolved /\ job.ports /\ job.backend
    /\ Add(Proxy, Proxy)
    /\ Goto("upload")
    /\ UNCHANGED <<job, result>>

-----------------------------------------------------------------------------
(* main ignores the error of InitFromJob and writes docker-compose.yml.    *)
Write ==
    /\ pc = "done" /\ result # "panic"
    /\ pc' = "written"
    /\ UNCHANGED <<job, index, services, result>>

Next == \/ AddData \/ DataAdded \/ AddInput \/ InputsAdded \/ AddUpload
        \/ FrontendFails \/ EnvironmentPanics \/ AddStep \/ ResolveVolume
        \/ PortsPanic \/ WebsocketFails \/ AddProxy
        \/ Write

Spec == Init /\ [][Next]_vars

-----------------------------------------------------------------------------
(***************************************************************************)
(* Safety                                                                  *)
(***************************************************************************)
Volumes == Len(job.volumesFrom)
DataBefore(k) == {Data(i) : i \in 0..(k - 1)}
InputBefore(k) == {Input(i) : i \in 0..(k - 1)}
Downloads == DataBefore(Volumes) \cup InputBefore(job.inputs)

(* The services that Run starts for the job, by the names it makes up.     *)
Started == Downloads \cup {Step, Proxy, Upload}

(* InitFromJob succeeds only with the services that Run will start, and no *)
(* other: the names made up in dcompose.go are those made up in run.go.    *)
CompleteOrError == result = "nil" => DOMAIN services = Started

(* The entry stands for the i-th volume of the step if it is a data        *)
(* container made for the very prefix the volume names.                    *)
StandsFor(entry, i) ==
    \E d \in 0..(Volumes - 1) :
        entry = Data(d) /\ job.volumesFrom[d + 1] = job.volumesFrom[i]

(* Every volume of the step is resolved to such a data container, though   *)
(* the services are scanned in any order.                                  *)
VolumesFromData ==
    pc \in {"upload", "written"} /\ Step \in DOMAIN services =>
        LET entries == services[Step].volumesFrom
        IN Len(entries) = Volumes /\ \A i \in 1..Volumes : StandsFor(entries[i], i)

(* The error that main ignores cannot go unnoticed: without the upload,    *)
(* which Run always starts, the job ends as failed.                        *)
ErrorStopsUpload == result = "error" => Upload \notin DOMAIN services

-----------------------------------------------------------------------------
(* The inductive invariant: the services added so far, the data containers *)
(* among them, and the volumes resolved so far.                            *)
NamesInv ==
    /\ pc = "data" => index <= Volumes /\ DOMAIN services = DataBefore(index)
    /\ pc = "input" =>
           /\ index <= job.inputs
           /\ DOMAIN services = DataBefore(Volumes) \cup InputBefore(index)
    /\ pc = "convert" => DOMAIN services = Downloads
    /\ pc = "volumes" => index <= Volumes /\ DOMAIN services = Downloads \cup {Step}
    /\ pc = "upload" => DOMAIN services = Downloads \cup {Step, Proxy}
    /\ pc \in {"done", "written"} <=> result # "none"
    /\ CompleteOrError /\ ErrorStopsUpload

ContainersInv ==
    /\ \A n \in DOMAIN services : \A i \in 1..Volumes :
           services[n].container = DataContainer(job.volumesFrom[i]) => StandsFor(n, i)
    /\ \A d \in 0..(Volumes - 1) :
           Data(d) \in DOMAIN services =>
               services[Data(d)].container = DataContainer(job.volumesFrom[d + 1])

ResolvedInv ==
    Step \in DOMAIN services =>
        LET entries == services[Step].volumesFrom
        IN /\ entries \in Seq({Data(d) : d \in 0..(Volumes - 1)})
           /\ Len(entries) = IF pc = "volumes" THEN index ELSE Volumes
           /\ \A i \in 1..Len(entries) : StandsFor(entries[i], i)

CompositionInv == NamesInv /\ ContainersInv /\ ResolvedInv
=============================================================================
