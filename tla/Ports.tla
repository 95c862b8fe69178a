------------------------------- MODULE Ports --------------------------------
(***************************************************************************)
(* Runners on one host that look for a port for their proxy                *)
(* (AvailableTCPPort and portOkay, ports.go), and docker, which binds the  *)
(* port for the proxy much later (the proxy service of ConvertStep,        *)
(* dcompose.go).  A probe listens on the port and closes it again.  A draw *)
(* of a port that was tried changes nothing and is left out.               *)
(***************************************************************************)
EXTENDS Integers, FiniteSets

CONSTANTS Lower, Upper,  \* the bounds given on the command line
          Runner         \* the runners of the host

ASSUME BoundsAssumption == Lower \in Nat /\ Upper \in Nat
ASSUME RunnerAssumption == "none" \notin Runner /\ "other" \notin Runner

VARIABLES
    pc,        \* of each runner
    rando,     \* the port it drew last, NoPort before the first draw
    attempts,  \* attemptsMade
    tried,     \* portsTried
    holder     \* who has a listener on each port: "none", "other" or a runner

vars == <<pc, rando, attempts, tried, holder>>

Port == Lower..Upper
NoPort == -1

(* Mutant: one port is forgotten.                                          *)
AttemptsMax_OffByOne == Upper - Lower
AttemptsMax == (Upper - Lower) + 1

TypeOK ==
    /\ pc \in [Runner -> {"draw", "listen", "close", "returned", "serving",
                          "refused", "ended", "failed"}]
    /\ rando \in [Runner -> Port \cup {NoPort}]
    /\ attempts \in [Runner -> Nat]
    /\ tried \in [Runner -> SUBSET Port]
    /\ holder \in [Port -> Runner \cup {"none", "other"}]

Init ==
    /\ pc = [r \in Runner |-> "draw"]
    /\ rando = [r \in Runner |-> NoPort]
    /\ attempts = [r \in Runner |-> 0]
    /\ tried = [r \in Runner |-> {}]
    /\ holder \in [Port -> {"none", "other"}]

Goto(r, from, to) == pc[r] = from /\ pc' = [pc EXCEPT ![r] = to]

-----------------------------------------------------------------------------
(***************************************************************************)
(* AvailableTCPPort                                                        *)
(***************************************************************************)
Draw(r) ==
    /\ Goto(r, "draw", "listen")
    /\ attempts[r] < AttemptsMax
    /\ \E p \in Port \ tried[r] : rando' = [rando EXCEPT ![r] = p]
    /\ UNCHANGED <<attempts, tried, holder>>

GiveUp(r) ==
    /\ Goto(r, "draw", "failed")
    /\ attempts[r] >= AttemptsMax
    /\ UNCHANGED <<rando, attempts, tried, holder>>

Listens(r) ==
    /\ Goto(r, "listen", "close")
    /\ holder[rando[r]] = "none"
    /\ holder' = [holder EXCEPT ![rando[r]] = r]
    /\ UNCHANGED <<rando, attempts, tried>>

(* Mutant: the attempt is not counted.                                     *)
ListenFails_Uncounted(r) ==
    /\ Goto(r, "listen", "draw")
    /\ tried' = [tried EXCEPT ![r] = @ \cup {rando[r]}]
    /\ UNCHANGED <<rando, attempts, holder>>

(* Another listener has the port, or net.Listen fails for want of a        *)
(* permission or of descriptors: any error of it is a port not to be had.  *)
ListenFails(r) ==
    /\ Goto(r, "listen", "draw")
    /\ attempts' = [attempts EXCEPT ![r] = @ + 1]
    /\ tried' = [tried EXCEPT ![r] = @ \cup {rando[r]}]
    /\ UNCHANGED <<rando, holder>>

(* Mutant: the listener of the probe is never closed.                      *)
Close_Not(r) ==
    /\ Goto(r, "close", "returned")
    /\ UNCHANGED <<rando, attempts, tried, holder>>

(* The deferred Close of portOkay.                                         *)
Close(r) ==
    /\ Goto(r, "close", "returned")
    /\ holder' = [holder EXCEPT ![rando[r]] = "none"]
    /\ UNCHANGED <<rando, attempts, tried>>

-----------------------------------------------------------------------------
(***************************************************************************)
(* docker, and whatever else runs on the host                              *)
(***************************************************************************)
ProxyBinds(r) ==
    /\ Goto(r, "returned", "serving")
    /\ holder[rando[r]] = "none"
    /\ holder' = [holder EXCEPT ![rando[r]] = r]
    /\ UNCHANGED <<rando, attempts, tried>>

ProxyRefused(r) ==
    /\ Goto(r, "returned", "refused")
    /\ holder[rando[r]] # "none"
    /\ UNCHANGED <<rando, attempts, tried, holder>>

ProxyEnds(r) ==
    /\ Goto(r, "serving", "ended")
    /\ holder' = [holder EXCEPT ![rando[r]] = "none"]
    /\ UNCHANGED <<rando, attempts, tried>>

OtherBinds(p) ==
    /\ holder[p] = "none"
    /\ holder' = [holder EXCEPT ![p] = "other"]
    /\ UNCHANGED <<pc, rando, attempts, tried>>

OtherCloses(p) ==
    /\ holder[p] = "other"
    /\ holder' = [holder EXCEPT ![p] = "none"]
    /\ UNCHANGED <<pc, rando, attempts, tried>>

RunnerStep(r) == Draw(r) \/ GiveUp(r) \/ Listens(r) \/ ListenFails(r) \/ Close(r)
DockerStep(r) == ProxyBinds(r) \/ ProxyRefused(r) \/ ProxyEnds(r)
HostStep(p) == OtherBinds(p) \/ OtherCloses(p)

Next == \/ \E r \in Runner : RunnerStep(r) \/ DockerStep(r)
        \/ \E p \in Port : HostStep(p)

Spec == Init /\ [][Next]_vars

(* A runner is scheduled, and its generator draws every port in the end.   *)
FairSpec == Spec /\ \A r \in Runner : WF_vars(RunnerStep(r))

-----------------------------------------------------------------------------
(* A runner gives up only after its probe of every port of the range has   *)
(* failed: counting the attempts amounts to exhausting the range.          *)
GaveUpTriedAll == \A r \in Runner : pc[r] = "failed" => tried[r] = Port

(* No listener is lost or left behind: the ports that runners hold are     *)
(* those they are probing and those of their proxies.                      *)
ListenersAccounted ==
    \A p \in Port : \A r \in Runner :
        holder[p] = r <=> pc[r] \in {"close", "serving"} /\ rando[r] = p

(* The search ends, with a port or without.                                *)
SearchEnds == \A r \in Runner : <>(pc[r] \notin {"draw", "listen", "close"})

(* The inductive invariant: attempts counts the tried ports, and a port    *)
(* that is probed was not tried before.                                    *)
AttemptsInv ==
    \A r \in Runner :
        /\ attempts[r] = Cardinality(tried[r])
        /\ pc[r] = "listen" => rando[r] \notin tried[r]
        /\ pc[r] \in {"listen", "close", "returned", "serving"} => rando[r] \in Port
        /\ pc[r] = "failed" => attempts[r] >= AttemptsMax
PortsInv == AttemptsInv /\ ListenersAccounted
=============================================================================
