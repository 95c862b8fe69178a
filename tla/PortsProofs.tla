---------------------------- MODULE PortsProofs -----------------------------
(***************************************************************************)
(* Proofs about the search for a port, for any range and any number of     *)
(* runners.                                                                *)
(***************************************************************************)
EXTENDS Ports, FiniteSetTheorems, TLAPS

(* A port that was not tried counts for one more attempt.                  *)
LEMMA OneMore ==
    ASSUME NEW T \in SUBSET Port, NEW p \in Port \ T
    PROVE  Cardinality(T \cup {p}) = Cardinality(T) + 1
<1>1. IsFiniteSet(Port)
  BY FS_Interval, BoundsAssumption DEF Port
<1>2. IsFiniteSet(T)
  BY <1>1, FS_Subset
<1> QED
  BY <1>2, FS_AddElement

(* AttemptsMax attempts on different ports are the whole range.            *)
LEMMA Exhausted ==
    ASSUME NEW T \in SUBSET Port, Cardinality(T) >= AttemptsMax
    PROVE  T = Port
<1>1. IsFiniteSet(Port)
  BY FS_Interval, BoundsAssumption DEF Port
<1>2. Cardinality(Port) <= AttemptsMax \/ Port = {}
  BY FS_Interval, BoundsAssumption DEF Port, AttemptsMax
<1>3. Cardinality(T) <= Cardinality(Port) /\ (Cardinality(T) = Cardinality(Port) => T = Port)
  BY <1>1, FS_Subset
<1>4. Cardinality(T) \in Nat /\ Cardinality(Port) \in Nat
  BY <1>1, FS_Subset, FS_CardinalityType
<1>5. AttemptsMax \in Int
  BY BoundsAssumption DEF AttemptsMax
<1> QED
  BY <1>2, <1>3, <1>4, <1>5

-----------------------------------------------------------------------------
LEMMA PortsInit == Init => TypeOK /\ PortsInv
<1> SUFFICES ASSUME Init PROVE TypeOK /\ PortsInv
  OBVIOUS
<1>1. TypeOK
  BY DEF Init, TypeOK
<1>2. AttemptsInv
  BY FS_EmptySet DEF Init, AttemptsInv
<1>3. ListenersAccounted
  BY RunnerAssumption DEF Init, ListenersAccounted
<1> QED
  BY <1>1, <1>2, <1>3 DEF PortsInv

LEMMA TypeNext ==
    ASSUME TypeOK, PortsInv, [Next]_vars
    PROVE  TypeOK'
<1> USE DEF TypeOK, Goto
<1>1. ASSUME NEW r \in Runner, Draw(r) PROVE TypeOK'
  BY <1>1 DEF Draw
<1>2. ASSUME NEW r \in Runner, GiveUp(r) PROVE TypeOK'
  BY <1>2 DEF GiveUp
<1>3. ASSUME NEW r \in Runner, Listens(r) PROVE TypeOK'
  BY <1>3 DEF Listens
<1>4. ASSUME NEW r \in Runner, ListenFails(r) PROVE TypeOK'
  BY <1>4 DEF ListenFails, PortsInv, AttemptsInv
<1>5. ASSUME NEW r \in Runner, Close(r) PROVE TypeOK'
  BY <1>5 DEF Close
<1>6. ASSUME NEW r \in Runner, ProxyBinds(r) PROVE TypeOK'
  BY <1>6 DEF ProxyBinds, PortsInv, AttemptsInv
<1>7. ASSUME NEW r \in Runner, ProxyRefused(r) \/ ProxyEnds(r) PROVE TypeOK'
  BY <1>7 DEF ProxyRefused, ProxyEnds
<1>8. ASSUME NEW p \in Port, HostStep(p) PROVE TypeOK'
  BY <1>8 DEF HostStep, OtherBinds, OtherCloses
<1>9. CASE UNCHANGED vars
  BY <1>9 DEF vars
<1> QED
  BY <1>1, <1>2, <1>3, <1>4, <1>5, <1>6, <1>7, <1>8, <1>9
     DEF Next, RunnerStep, DockerStep

LEMMA AttemptsNext ==
    ASSUME TypeOK, PortsInv, [Next]_vars
    PROVE  AttemptsInv'
<1> SUFFICES ASSUME NEW s \in Runner
             PROVE  /\ attempts'[s] = Cardinality(tried'[s])
                    /\ pc'[s] = "listen" => rando'[s] \notin tried'[s]
                    /\ pc'[s] \in {"listen", "close", "returned", "serving"} =>
                           rando'[s] \in Port
                    /\ pc'[s] = "failed" => attempts'[s] >= AttemptsMax
  BY DEF AttemptsInv
<1> USE DEF TypeOK, PortsInv, AttemptsInv, Goto
<1>2. CASE \E r \in Runner : Draw(r)
  BY <1>2 DEF Draw
<1>3. CASE \E r \in Runner : GiveUp(r)
  BY <1>3 DEF GiveUp
<1>4. CASE \E r \in Runner : Listens(r) \/ Close(r)
  BY <1>4 DEF Listens, Close
<1>5. ASSUME NEW r \in Runner, ListenFails(r)
      PROVE  attempts'[r] = Cardinality(tried'[r])
  <2>1. /\ rando[r] \in Port \ tried[r] /\ tried[r] \in SUBSET Port
        /\ tried'[r] = tried[r] \cup {rando[r]} /\ attempts'[r] = attempts[r] + 1
    BY <1>5 DEF ListenFails
  <2> QED
    BY <2>1, OneMore
<1>6. CASE \E r \in Runner : ListenFails(r)
  <2> PICK r \in Runner : ListenFails(r)
    BY <1>6
  <2>1. CASE s = r
    BY <1>5, <2>1 DEF ListenFails
  <2>2. CASE s # r
    BY <2>2 DEF ListenFails
  <2> QED
    BY <2>1, <2>2
<1>7. CASE \E r \in Runner : DockerStep(r)
  BY <1>7 DEF DockerStep, ProxyBinds, ProxyRefused, ProxyEnds
<1>8. CASE \E p \in Port : HostStep(p)
  BY <1>8 DEF HostStep, OtherBinds, OtherCloses
<1>9. CASE UNCHANGED vars
  BY <1>9 DEF vars
<1> QED
  BY <1>2, <1>3, <1>4, <1>6, <1>7, <1>8, <1>9 DEF Next, RunnerStep

LEMMA ListenersNext ==
    ASSUME TypeOK, PortsInv, [Next]_vars
    PROVE  ListenersAccounted'
<1> SUFFICES ASSUME NEW p \in Port, NEW s \in Runner
             PROVE  holder'[p] = s <=> pc'[s] \in {"close", "serving"} /\ rando'[s] = p
  BY DEF ListenersAccounted
<1> USE RunnerAssumption DEF TypeOK, PortsInv, AttemptsInv, ListenersAccounted, Goto
<1>1. CASE \E r \in Runner : Draw(r) \/ GiveUp(r) \/ ListenFails(r) \/ ProxyRefused(r)
  BY <1>1 DEF Draw, GiveUp, ListenFails, ProxyRefused
<1>2. CASE \E r \in Runner : Listens(r)
  BY <1>2 DEF Listens
<1>3. CASE \E r \in Runner : Close(r)
  BY <1>3 DEF Close
<1>4. CASE \E r \in Runner : ProxyBinds(r)
  BY <1>4 DEF ProxyBinds
<1>5. CASE \E r \in Runner : ProxyEnds(r)
  BY <1>5 DEF ProxyEnds
<1>6. CASE \E q \in Port : HostStep(q)
  BY <1>6 DEF HostStep, OtherBinds, OtherCloses
<1>7. CASE UNCHANGED vars
  BY <1>7 DEF vars
<1> QED
  BY <1>1, <1>2, <1>3, <1>4, <1>5, <1>6, <1>7 DEF Next, RunnerStep, DockerStep

THEOREM PortsSafe == Spec => [](TypeOK /\ PortsInv)
<1>1. TypeOK /\ PortsInv /\ [Next]_vars => (TypeOK /\ PortsInv)'
  BY TypeNext, AttemptsNext, ListenersNext DEF PortsInv
<1> QED
  BY <1>1, PortsInit, PTL DEF Spec

(* No runner ever draws or listens on a port outside the range.            *)
THEOREM PortsTypeCorrect == Spec => []TypeOK
BY PortsSafe, PTL

(* AvailableTCPPort returns its error only after its probe of every port   *)
(* of the range has failed.                                                *)
THEOREM SearchIsExhaustive == Spec => []GaveUpTriedAll
<1>1. TypeOK /\ PortsInv => GaveUpTriedAll
  BY Exhausted DEF TypeOK, PortsInv, AttemptsInv, GaveUpTriedAll
<1> QED
  BY <1>1, PortsSafe, PTL

(* Each listener of a runner is its probe's or its proxy's: portOkay       *)
(* leaves none behind.                                                     *)
THEOREM ListenersAreAccounted == Spec => []ListenersAccounted
<1>1. PortsInv => ListenersAccounted
  BY DEF PortsInv
<1> QED
  BY <1>1, PortsSafe, PTL
=============================================================================
