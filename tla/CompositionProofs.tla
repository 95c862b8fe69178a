------------------------- MODULE CompositionProofs --------------------------
(***************************************************************************)
(* Proofs about the services of a job, for any prefixes and any number of  *)
(* data containers and inputs.                                             *)
(***************************************************************************)
EXTENDS Composition, TLAPS

LEMMA JobShape ==
    ASSUME job \in Job
    PROVE  /\ Volumes \in Nat /\ Volumes <= MaxVolumes
           /\ job.inputs \in Nat /\ job.inputs <= MaxInputs
<1>1. PICK n \in 0..MaxVolumes : job.volumesFrom \in [1..n -> Prefix]
  BY DEF Job
<1>2. Len(job.volumesFrom) = n
  BY <1>1, MaxVolumesAssumption
<1> QED
  BY <1>1, <1>2, MaxVolumesAssumption, MaxInputsAssumption DEF Job, Volumes

(* The names of the services and containers are all different.             *)
LEMMA Names ==
    /\ \A i, k \in Nat : Data(i) = Data(k) => i = k
    /\ \A i, k \in Nat : Input(i) = Input(k) => i = k
    /\ \A i, k \in Nat : Data(i) # Input(k)
    /\ \A i \in Nat : /\ Data(i) \notin {Step, Proxy, Upload}
                      /\ Input(i) \notin {Step, Proxy, Upload}
    /\ Step # Proxy /\ Step # Upload /\ Proxy # Upload
    /\ \A p : DataContainer(p) \notin {Unnamed, Step, Proxy}
    /\ \A p, q : DataContainer(p) = DataContainer(q) => p = q
BY DEF Data, Input, Step, Proxy, Upload, DataContainer, Unnamed

LEMMA Known ==
    ASSUME job \in Job
    PROVE  Started \subseteq ServiceName
BY JobShape, MaxVolumesAssumption, MaxInputsAssumption
   DEF Started, Downloads, DataBefore, InputBefore, ServiceName, DataServices, InputServices

-----------------------------------------------------------------------------
LEMMA CompositionInit == Init => TypeOK /\ CompositionInv
<1> SUFFICES ASSUME Init PROVE TypeOK /\ CompositionInv
  OBVIOUS
<1>1. DOMAIN services = {}
  BY DEF Init
<1>2. Volumes \in Nat /\ job.inputs \in Nat
  BY JobShape DEF Init
<1>3. TypeOK
  BY <1>1, <1>2 DEF Init, TypeOK, Volumes
<1>4. NamesInv
  BY <1>1, <1>2 DEF Init, NamesInv, DataBefore, CompleteOrError, ErrorStopsUpload
<1>5. ContainersInv /\ ResolvedInv
  BY <1>1 DEF ContainersInv, ResolvedInv
<1> QED
  BY <1>3, <1>4, <1>5 DEF CompositionInv

(* An early return leaves the services as they are.                        *)
LEMMA ReturnKeeps ==
    ASSUME TypeOK, CompositionInv, NEW how \in {"error", "panic"}, Returns(how),
           pc \in {"convert", "volumes"}, pc = "volumes" => index = Volumes
    PROVE  TypeOK' /\ CompositionInv'
<1>1. UNCHANGED <<job, index, services, Volumes>> /\ pc' = "done" /\ result' = how
  BY DEF Returns, Volumes
<1>2. TypeOK'
  BY <1>1 DEF TypeOK
<1>3. Upload \notin DOMAIN services
  <2>1. DOMAIN services \subseteq Downloads \cup {Step}
    BY DEF CompositionInv, NamesInv
  <2>2. Volumes \in Nat /\ job.inputs \in Nat
    BY JobShape DEF TypeOK
  <2> QED
    BY <2>1, <2>2, Names DEF Downloads, DataBefore, InputBefore
<1>4. NamesInv'
  BY <1>1, <1>3 DEF NamesInv, CompleteOrError, ErrorStopsUpload
<1>5. ContainersInv'
  BY <1>1 DEF CompositionInv, ContainersInv, StandsFor
<1>6. ResolvedInv'
  <2>1. Step \in DOMAIN services => pc = "volumes"
    <3>1. pc = "convert" => DOMAIN services = Downloads
      BY DEF CompositionInv, NamesInv
    <3>2. Volumes \in Nat /\ job.inputs \in Nat
      BY JobShape DEF TypeOK
    <3> QED
      BY <3>1, <3>2, Names DEF Downloads, DataBefore, InputBefore
  <2> QED
    BY <1>1, <2>1 DEF CompositionInv, ResolvedInv, StandsFor
<1> QED
  BY <1>2, <1>4, <1>5, <1>6 DEF CompositionInv

(* A service that is neither a data container nor the step disturbs no     *)
(* container name and no volume.                                           *)
LEMMA OtherService ==
    ASSUME TypeOK, CompositionInv, NEW n, NEW c, Add(n, c), UNCHANGED job,
           n # Step, n \notin DataBefore(Volumes),
           \A p : c # DataContainer(p),
           pc' = "volumes" <=> pc = "volumes", pc # "volumes"
    PROVE  ContainersInv' /\ ResolvedInv'
<1>0. UNCHANGED Volumes
  BY DEF Volumes
<1>a. /\ DOMAIN services' = DOMAIN services \cup {n}
     /\ services'[n].container = c
     /\ services'[n].volumesFrom = <<>>
     /\ \A m \in DOMAIN services \ {n} : services'[m] = services[m]
  BY DEF Add
<1>1. ContainersInv'
  <2>1. ASSUME NEW m \in DOMAIN services', NEW i \in 1..Volumes,
               services'[m].container = DataContainer(job.volumesFrom[i])
        PROVE  StandsFor(m, i)
    <3>1. m # n /\ m \in DOMAIN services /\ services'[m] = services[m]
      BY <2>1, <1>a
    <3> QED
      BY <2>1, <3>1 DEF CompositionInv, ContainersInv
  <2>2. ASSUME NEW d \in 0..(Volumes - 1), Data(d) \in DOMAIN services'
        PROVE  services'[Data(d)].container = DataContainer(job.volumesFrom[d + 1])
    <3>1. Data(d) # n
      BY DEF DataBefore
    <3>2. Data(d) \in DOMAIN services /\ services'[Data(d)] = services[Data(d)]
      BY <2>2, <3>1, <1>a
    <3> QED
      BY <3>2 DEF CompositionInv, ContainersInv
  <2> QED
    BY <1>0, <2>1, <2>2 DEF ContainersInv, StandsFor
<1>2. ResolvedInv'
  <2>1. Step \in DOMAIN services' => Step \in DOMAIN services /\ services'[Step] = services[Step]
    BY <1>a
  <2> QED
    BY <1>0, <2>1 DEF CompositionInv, ResolvedInv, StandsFor
<1> QED
  BY <1>1, <1>2

LEMMA CompositionNext ==
    ASSUME TypeOK, CompositionInv, [Next]_vars
    PROVE  TypeOK' /\ CompositionInv'
<1>0. /\ Volumes \in Nat /\ Volumes <= MaxVolumes
      /\ job.inputs \in Nat /\ job.inputs <= MaxInputs
      /\ index \in Nat
      /\ NamesInv /\ ContainersInv /\ ResolvedInv
      /\ Started \subseteq ServiceName
  BY JobShape, Known DEF TypeOK, CompositionInv
<1>1. CASE AddData
  <2>1. /\ pc = "data" /\ pc' = "data" /\ index < Volumes /\ index' = index + 1
        /\ UNCHANGED <<job, result, Volumes>>
        /\ Add(Data(index), DataContainer(job.volumesFrom[index + 1]))
    BY <1>1 DEF AddData, Volumes
  <2>a. /\ DOMAIN services' = DOMAIN services \cup {Data(index)}
       /\ services'[Data(index)].container = DataContainer(job.volumesFrom[index + 1])
       /\ services'[Data(index)].volumesFrom = <<>>
       /\ \A m \in DOMAIN services \ {Data(index)} : services'[m] = services[m]
    BY <2>1 DEF Add
  <2>2. DOMAIN services' = DataBefore(index + 1)
    BY <1>0, <2>1, <2>a DEF NamesInv, DataBefore
  <2>3. DOMAIN services' \subseteq ServiceName
    BY <1>0, <2>1, <2>2 DEF DataBefore, Started, Downloads
  <2>4. NamesInv'
    BY <1>0, <2>1, <2>2 DEF NamesInv, DataBefore, CompleteOrError, ErrorStopsUpload
  <2>5. ContainersInv'
    <3>1. ASSUME NEW m \in DOMAIN services', NEW i \in 1..Volumes,
                 services'[m].container = DataContainer(job.volumesFrom[i])
          PROVE  StandsFor(m, i)
      <4>1. CASE m = Data(index)
        <5>1. job.volumesFrom[index + 1] = job.volumesFrom[i]
          BY <2>1, <3>1, <4>1, <2>a, Names
        <5> QED
          BY <1>0, <2>1, <4>1, <5>1 DEF StandsFor
      <4>2. CASE m # Data(index)
        <5>1. m \in DOMAIN services /\ services'[m] = services[m]
          BY <2>1, <4>2, <2>a
        <5> QED
          BY <1>0, <3>1, <5>1 DEF ContainersInv
      <4> QED
        BY <4>1, <4>2
    <3>2. ASSUME NEW d \in 0..(Volumes - 1), Data(d) \in DOMAIN services'
          PROVE  services'[Data(d)].container = DataContainer(job.volumesFrom[d + 1])
      <4>1. CASE d = index
        BY <2>1, <4>1, <2>a
      <4>2. CASE d # index
        <5>1. Data(d) # Data(index)
          BY <1>0, <4>2, Names
        <5>2. Data(d) \in DOMAIN services /\ services'[Data(d)] = services[Data(d)]
          BY <2>1, <3>2, <5>1, <2>a
        <5> QED
          BY <1>0, <5>2 DEF ContainersInv
      <4> QED
        BY <4>1, <4>2
    <3> QED
      BY <2>1, <3>1, <3>2 DEF ContainersInv, StandsFor
  <2>6. ResolvedInv'
    <3>1. Step \notin DOMAIN services'
      BY <1>0, <2>2, Names DEF DataBefore
    <3> QED
      BY <3>1 DEF ResolvedInv
  <2>7. TypeOK'
    BY <1>0, <2>1, <2>3 DEF TypeOK, Volumes
  <2> QED
    BY <2>4, <2>5, <2>6, <2>7 DEF CompositionInv
<1>2. CASE AddInput
  <2>1. /\ pc = "input" /\ pc' = "input" /\ index < job.inputs /\ index' = index + 1
        /\ UNCHANGED <<job, result, Volumes>>
        /\ Add(Input(index), Unnamed)
    BY <1>2 DEF AddInput, Volumes
  <2>a. /\ DOMAIN services' = DOMAIN services \cup {Input(index)}
       /\ services'[Input(index)].container = Unnamed
       /\ services'[Input(index)].volumesFrom = <<>>
       /\ \A m \in DOMAIN services \ {Input(index)} : services'[m] = services[m]
    BY <2>1 DEF Add
  <2>2. DOMAIN services' = DataBefore(Volumes) \cup InputBefore(index + 1)
    BY <1>0, <2>1, <2>a DEF NamesInv, InputBefore
  <2>3. DOMAIN services' \subseteq ServiceName
    BY <1>0, <2>1, <2>2 DEF InputBefore, Started, Downloads
  <2>4. NamesInv'
    BY <1>0, <2>1, <2>2 DEF NamesInv, CompleteOrError, ErrorStopsUpload
  <2>5. Input(index) # Step /\ Input(index) \notin DataBefore(Volumes)
    BY <1>0, Names DEF DataBefore
  <2>6. ContainersInv' /\ ResolvedInv'
    BY <2>1, <2>5, Names, OtherService
  <2>7. TypeOK'
    BY <1>0, <2>1, <2>3 DEF TypeOK, Volumes
  <2> QED
    BY <2>4, <2>6, <2>7 DEF CompositionInv
<1>3. CASE DataAdded \/ InputsAdded
  <2>1. /\ UNCHANGED <<job, result, services, Volumes>> /\ index' = 0
        /\ \/ pc = "data" /\ index = Volumes /\ pc' = "input"
           \/ pc = "input" /\ index = job.inputs /\ pc' = "convert"
    BY <1>3 DEF DataAdded, InputsAdded, Goto, Volumes
  <2>2. NamesInv'
    BY <1>0, <2>1 DEF NamesInv, InputBefore, Downloads, CompleteOrError, ErrorStopsUpload
  <2>3. ContainersInv'
    BY <1>0, <2>1 DEF ContainersInv, StandsFor
  <2>4. ResolvedInv'
    <3>1. Step \notin DOMAIN services
      BY <1>0, <2>1, Names DEF NamesInv, DataBefore, InputBefore
    <3> QED
      BY <2>1, <3>1 DEF ResolvedInv
  <2>5. TypeOK'
    BY <1>0, <2>1 DEF TypeOK, Volumes
  <2> QED
    BY <2>2, <2>3, <2>4, <2>5 DEF CompositionInv
<1>4. CASE FrontendFails \/ EnvironmentPanics \/ PortsPanic \/ WebsocketFails
  BY <1>4, ReturnKeeps DEF FrontendFails, EnvironmentPanics, PortsPanic, WebsocketFails,
                           VolumesResolved, Volumes
<1>5. CASE AddStep
  <2>1. /\ pc = "convert" /\ pc' = "volumes" /\ index' = 0
        /\ UNCHANGED <<job, result, Volumes>> /\ Add(Step, Step)
    BY <1>5 DEF AddStep, Goto, Volumes
  <2>a. /\ DOMAIN services' = DOMAIN services \cup {Step}
       /\ services'[Step].container = Step
       /\ services'[Step].volumesFrom = <<>>
       /\ \A m \in DOMAIN services \ {Step} : services'[m] = services[m]
    BY <2>1 DEF Add
  <2>2. DOMAIN services = Downloads /\ DOMAIN services' = Downloads \cup {Step}
    BY <1>0, <2>1, <2>a DEF NamesInv
  <2>3. NamesInv'
    BY <1>0, <2>1, <2>2 DEF NamesInv, Downloads, CompleteOrError, ErrorStopsUpload
  <2>4. ContainersInv'
    <3>1. ASSUME NEW m \in DOMAIN services', NEW i \in 1..Volumes,
                 services'[m].container = DataContainer(job.volumesFrom[i])
          PROVE  StandsFor(m, i)
      <4>1. m # Step
        BY <2>1, <3>1, <2>a, Names
      <4>2. m \in DOMAIN services /\ services'[m] = services[m]
        BY <2>1, <4>1, <2>a
      <4> QED
        BY <1>0, <3>1, <4>2 DEF ContainersInv
    <3>2. ASSUME NEW d \in 0..(Volumes - 1), Data(d) \in DOMAIN services'
          PROVE  services'[Data(d)].container = DataContainer(job.volumesFrom[d + 1])
      <4>1. Data(d) # Step
        BY <1>0, Names
      <4>2. Data(d) \in DOMAIN services /\ services'[Data(d)] = services[Data(d)]
        BY <2>1, <3>2, <4>1, <2>a
      <4> QED
        BY <1>0, <4>2 DEF ContainersInv
    <3> QED
      BY <2>1, <3>1, <3>2 DEF ContainersInv, StandsFor
  <2>5. ResolvedInv'
    <3>1. services'[Step].volumesFrom = <<>>
      BY <2>1, <2>a
    <3> QED
      BY <2>1, <3>1 DEF ResolvedInv
  <2>6. TypeOK'
    BY <1>0, <2>1, <2>2 DEF TypeOK, Volumes, Started
  <2> QED
    BY <2>3, <2>4, <2>5, <2>6 DEF CompositionInv
<1>6. CASE ResolveVolume
  <2> DEFINE found == Found(job.volumesFrom[index + 1])
  <2>1. /\ pc = "volumes" /\ pc' = "volumes" /\ index < Volumes /\ index' = index + 1
        /\ UNCHANGED <<job, result, Volumes>>
    BY <1>6 DEF ResolveVolume, Volumes
  <2>2. DOMAIN services = Downloads \cup {Step}
    BY <1>0, <2>1 DEF NamesInv
  <2>3. Data(index) \in found
    <3>1. Data(index) \in DOMAIN services
      BY <1>0, <2>1, <2>2 DEF Downloads, DataBefore
    <3> QED
      BY <1>0, <2>1, <3>1 DEF ContainersInv, Found
  <2>4. PICK n \in found :
            services' = [services EXCEPT ![Step].volumesFrom = Append(@, n)]
    BY <1>6, <2>3 DEF ResolveVolume
  <2>5. /\ n \in DOMAIN services
        /\ services[n].container = DataContainer(job.volumesFrom[index + 1])
    BY DEF Found
  <2>6. StandsFor(n, index + 1)
    <3>1. index + 1 \in 1..Volumes
      BY <1>0, <2>1
    <3> QED
      BY <1>0, <2>5, <3>1 DEF ContainersInv
  <2>7. /\ DOMAIN services' = DOMAIN services
        /\ \A m \in DOMAIN services : services'[m].container = services[m].container
        /\ services'[Step].volumesFrom = Append(services[Step].volumesFrom, n)
    BY <2>2, <2>4
  <2>8. NamesInv'
    BY <1>0, <2>1, <2>2, <2>7 DEF NamesInv, Downloads, CompleteOrError, ErrorStopsUpload
  <2>9. ContainersInv'
    BY <1>0, <2>1, <2>7 DEF ContainersInv, StandsFor
  <2>10. ResolvedInv'
    <3> DEFINE entries == services[Step].volumesFrom
               datas == {Data(d) : d \in 0..(Volumes - 1)}
    <3>1. entries \in Seq(datas) /\ Len(entries) = index
      BY <1>0, <2>1, <2>2 DEF ResolvedInv
    <3>2. \A i \in 1..index : StandsFor(entries[i], i)
      BY <1>0, <2>2, <3>1 DEF ResolvedInv
    <3>3. n \in datas
      BY <2>6 DEF StandsFor
    <3>4. Append(entries, n) \in Seq(datas) /\ Len(Append(entries, n)) = index + 1
      BY <3>1, <3>3
    <3>5. ASSUME NEW i \in 1..(index + 1) PROVE StandsFor(Append(entries, n)[i], i)
      <4>1. CASE i = index + 1
        BY <2>6, <3>1, <4>1
      <4>2. CASE i # index + 1
        <5>1. i \in 1..index /\ Append(entries, n)[i] = entries[i]
          BY <1>0, <3>1, <4>2
        <5> QED
          BY <3>2, <5>1
      <4> QED
        BY <4>1, <4>2
    <3> QED
      BY <2>1, <2>7, <3>4, <3>5 DEF ResolvedInv, StandsFor
  <2>11. TypeOK'
    BY <1>0, <2>1, <2>7 DEF TypeOK, Volumes
  <2> QED
    BY <2>8, <2>9, <2>10, <2>11 DEF CompositionInv
<1>7. CASE AddProxy
  <2>1. /\ pc = "volumes" /\ pc' = "upload" /\ index = Volumes /\ index' = 0
        /\ UNCHANGED <<job, result, Volumes>> /\ Add(Proxy, Proxy)
    BY <1>7 DEF AddProxy, VolumesResolved, Goto, Volumes
  <2>a. /\ DOMAIN services' = DOMAIN services \cup {Proxy}
       /\ services'[Proxy].container = Proxy
       /\ services'[Proxy].volumesFrom = <<>>
       /\ \A m \in DOMAIN services \ {Proxy} : services'[m] = services[m]
    BY <2>1 DEF Add
  <2>2. DOMAIN services' = Downloads \cup {Step, Proxy}
    BY <1>0, <2>1, <2>a DEF NamesInv
  <2>3. NamesInv'
    BY <1>0, <2>1, <2>2 DEF NamesInv, Downloads, CompleteOrError, ErrorStopsUpload
  <2>4. ContainersInv'
    <3>1. ASSUME NEW m \in DOMAIN services', NEW i \in 1..Volumes,
                 services'[m].container = DataContainer(job.volumesFrom[i])
          PROVE  StandsFor(m, i)
      <4>1. m # Proxy
        BY <2>1, <3>1, <2>a, Names
      <4>2. m \in DOMAIN services /\ services'[m] = services[m]
        BY <2>1, <4>1, <2>a
      <4> QED
        BY <1>0, <3>1, <4>2 DEF ContainersInv
    <3>2. ASSUME NEW d \in 0..(Volumes - 1), Data(d) \in DOMAIN services'
          PROVE  services'[Data(d)].container = DataContainer(job.volumesFrom[d + 1])
      <4>1. Data(d) # Proxy
        BY <1>0, Names
      <4>2. Data(d) \in DOMAIN services /\ services'[Data(d)] = services[Data(d)]
        BY <2>1, <3>2, <4>1, <2>a
      <4> QED
        BY <1>0, <4>2 DEF ContainersInv
    <3> QED
      BY <2>1, <3>1, <3>2 DEF ContainersInv, StandsFor
  <2>5. ResolvedInv'
    <3>1. Step \in DOMAIN services /\ services'[Step] = services[Step]
      BY <1>0, <2>1, <2>a, Names DEF NamesInv
    <3> QED
      BY <1>0, <2>1, <3>1 DEF ResolvedInv, StandsFor
  <2>6. TypeOK'
    BY <1>0, <2>1, <2>2 DEF TypeOK, Volumes, Started
  <2> QED
    BY <2>3, <2>4, <2>5, <2>6 DEF CompositionInv
<1>8. CASE AddUpload
  <2>1. /\ pc = "upload" /\ pc' = "done" /\ result' = "nil"
        /\ UNCHANGED <<job, index, Volumes>> /\ Add(Upload, Unnamed)
    BY <1>8 DEF AddUpload, Volumes
  <2>a. /\ DOMAIN services' = DOMAIN services \cup {Upload}
       /\ services'[Upload].container = Unnamed
       /\ services'[Upload].volumesFrom = <<>>
       /\ \A m \in DOMAIN services \ {Upload} : services'[m] = services[m]
    BY <2>1 DEF Add
  <2>2. DOMAIN services' = Started
    BY <1>0, <2>1, <2>a DEF NamesInv, Started
  <2>3. Started' = Started
    BY <2>1 DEF Started, Downloads, DataBefore, InputBefore
  <2>4. NamesInv'
    BY <1>0, <2>1, <2>2, <2>3 DEF NamesInv, CompleteOrError, ErrorStopsUpload
  <2>5. Upload # Step /\ Upload \notin DataBefore(Volumes)
    BY <1>0, Names DEF DataBefore
  <2>6. ContainersInv' /\ ResolvedInv'
    BY <2>1, <2>5, Names, OtherService
  <2>7. TypeOK'
    BY <1>0, <2>1, <2>2 DEF TypeOK, Volumes
  <2> QED
    BY <2>4, <2>6, <2>7 DEF CompositionInv
<1>9. CASE Write \/ UNCHANGED vars
  <2>1. /\ UNCHANGED <<job, index, services, result, Volumes>>
        /\ pc' = pc \/ (pc = "done" /\ pc' = "written")
    BY <1>9 DEF Write, vars, Volumes
  <2>2. NamesInv'
    BY <1>0, <2>1 DEF NamesInv, CompleteOrError, ErrorStopsUpload, Started, Downloads
  <2>3. ContainersInv'
    BY <1>0, <2>1 DEF ContainersInv, StandsFor
  <2>4. ResolvedInv'
    BY <1>0, <2>1 DEF ResolvedInv, StandsFor
  <2>5. TypeOK'
    BY <2>1 DEF TypeOK
  <2> QED
    BY <2>2, <2>3, <2>4, <2>5 DEF CompositionInv
<1> QED
  BY <1>1, <1>2, <1>3, <1>4, <1>5, <1>6, <1>7, <1>8, <1>9 DEF Next

THEOREM CompositionSafe == Spec => [](TypeOK /\ CompositionInv)
<1>1. TypeOK /\ CompositionInv /\ [Next]_vars => (TypeOK /\ CompositionInv)'
  BY CompositionNext
<1> QED
  BY <1>1, CompositionInit, PTL DEF Spec

(* The values stay in their types: no index runs past its loop, and every  *)
(* service is one that the job can have.                                   *)
THEOREM CompositionTypeCorrect == Spec => []TypeOK
BY CompositionSafe, PTL

(* InitFromJob returns nil only with exactly the services that Run starts. *)
THEOREM CompositionComplete == Spec => []CompleteOrError
<1>1. CompositionInv => CompleteOrError
  BY DEF CompositionInv, NamesInv
<1> QED
  BY <1>1, CompositionSafe, PTL

(* An error of InitFromJob leaves the upload out, which Run always starts. *)
THEOREM ErrorLeavesNoUpload == Spec => []ErrorStopsUpload
<1>1. CompositionInv => ErrorStopsUpload
  BY DEF CompositionInv, NamesInv
<1> QED
  BY <1>1, CompositionSafe, PTL

(* Each volume of the step comes from a data container for its own prefix, *)
(* for any number of volumes and any order of the scan.                    *)
THEOREM VolumesAreResolved == Spec => []VolumesFromData
<1>1. TypeOK /\ CompositionInv => VolumesFromData
  BY JobShape DEF TypeOK, CompositionInv, ResolvedInv, VolumesFromData
<1> QED
  BY <1>1, CompositionSafe, PTL
=============================================================================
