---------------------------- MODULE CallContract ----------------------------
(***************************************************************************)
(* What a call of app-exposer (postToAPI and deleteToAPI, k8s.go) promises *)
(* to runAllSteps and ConfigureK8s, which make several with one context:   *)
(* nil means that app-exposer did what was asked; an error does not mean   *)
(* that it did not, or will not; and nothing is sent once the context is   *)
(* done or the call has returned.  StepRunner's requests go this way.      *)
(***************************************************************************)
CONSTANT Request

VARIABLES ctxDone, caller, server

vars == <<ctxDone, caller, server>>

Init ==
    /\ ctxDone \in BOOLEAN
    /\ caller = [q \in Request |-> "idle"]
    /\ server = [q \in Request |-> "unsent"]

Cancel == ctxDone' = TRUE /\ UNCHANGED <<caller, server>>

Begin(q) ==
    /\ caller[q] = "idle"
    /\ caller' = [caller EXCEPT ![q] = "calling"]
    /\ UNCHANGED <<ctxDone, server>>

Send(q) ==
    /\ caller[q] = "calling" /\ ~ctxDone /\ server[q] = "unsent"
    /\ server' = [server EXCEPT ![q] = "sent"]
    /\ UNCHANGED <<ctxDone, caller>>

Accept(q) ==
    /\ server[q] = "sent"
    /\ server' = [server EXCEPT ![q] = "accepted"]
    /\ UNCHANGED <<ctxDone, caller>>

Return(q, answer) ==
    /\ caller[q] = "calling"
    /\ answer = "error" \/ (answer = "nil" /\ server[q] = "accepted")
    /\ caller' = [caller EXCEPT ![q] = answer]
    /\ UNCHANGED <<ctxDone, server>>

Step(q) == \/ Begin(q) \/ Send(q) \/ Accept(q)
           \/ \E answer \in {"nil", "error"} : Return(q, answer)

Next == Cancel \/ \E q \in Request : Step(q)

Spec == Init /\ [][Next]_vars
=============================================================================
