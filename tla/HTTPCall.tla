------------------------------ MODULE HTTPCall ------------------------------
(***************************************************************************)
(* Calls of app-exposer that share a context: HTTPDo with its goroutine    *)
(* and its channel, and what postToAPI and deleteToAPI make of the         *)
(* response (k8s.go).  net/http fails a request that has a context that is *)
(* done, and gives up one that is on its way when the context becomes so.  *)
(***************************************************************************)
CONSTANT Request

VARIABLES
    ctxDone,    \* the context of the calls is done
    caller,     \* of each call: "idle", at its "select", at "drain" when it
                \* receives from c, or what HTTPDo returned, "nil" or "error"
    goroutine,  \* the goroutine of the call: "none", in "do", "waiting" for
                \* the response, or "done"
    c,          \* the channel of the call: "empty" or the error sent on it
    server      \* what app-exposer knows of the request

vars == <<ctxDone, caller, goroutine, c, server>>

TypeOK ==
    /\ ctxDone \in BOOLEAN
    /\ caller \in [Request -> {"idle", "select", "drain", "nil", "error"}]
    /\ goroutine \in [Request -> {"none", "do", "waiting", "done"}]
    /\ c \in [Request -> {"empty", "nil", "error"}]
    /\ server \in [Request -> {"unsent", "sent", "accepted", "refused"}]

Init ==
    /\ ctxDone \in BOOLEAN
    /\ caller = [q \in Request |-> "idle"]
    /\ goroutine = [q \in Request |-> "none"]
    /\ c = [q \in Request |-> "empty"]
    /\ server = [q \in Request |-> "unsent"]

Cancel ==
    /\ ~ctxDone
    /\ ctxDone' = TRUE
    /\ UNCHANGED <<caller, goroutine, c, server>>

-----------------------------------------------------------------------------
(***************************************************************************)
(* HTTPDo                                                                  *)
(***************************************************************************)
HTTPDo(q) ==
    /\ caller[q] = "idle"
    /\ caller' = [caller EXCEPT ![q] = "select"]
    /\ goroutine' = [goroutine EXCEPT ![q] = "do"]
    /\ UNCHANGED <<ctxDone, c, server>>

SelectAnswer(q) ==
    /\ caller[q] = "select" /\ c[q] # "empty"
    /\ caller' = [caller EXCEPT ![q] = c[q]]
    /\ c' = [c EXCEPT ![q] = "empty"]
    /\ UNCHANGED <<ctxDone, goroutine, server>>

(* Mutant: the call returns without waiting for its goroutine.             *)
SelectDone_Returns(q) ==
    /\ caller[q] = "select" /\ ctxDone
    /\ caller' = [caller EXCEPT ![q] = "error"]
    /\ UNCHANGED <<ctxDone, goroutine, c, server>>

SelectDone(q) ==
    /\ caller[q] = "select" /\ ctxDone
    /\ caller' = [caller EXCEPT ![q] = "drain"]
    /\ UNCHANGED <<ctxDone, goroutine, c, server>>

(* What the goroutine sent is dropped, a nil as well.                      *)
Drain(q) ==
    /\ caller[q] = "drain" /\ c[q] # "empty"
    /\ caller' = [caller EXCEPT ![q] = "error"]
    /\ c' = [c EXCEPT ![q] = "empty"]
    /\ UNCHANGED <<ctxDone, goroutine, server>>

-----------------------------------------------------------------------------
(***************************************************************************)
(* The goroutine: http.DefaultClient.Do, and the function it is given      *)
(***************************************************************************)
(* Mutant: a response that comes when the context is done is lost, and     *)
(* nothing is sent on c.                                                   *)
Answers_NotWhenDone(q, answer) ==
    /\ goroutine' = [goroutine EXCEPT ![q] = "done"]
    /\ c' = [c EXCEPT ![q] = IF ctxDone THEN "empty" ELSE answer]
    /\ UNCHANGED <<ctxDone, caller, server>>

Answers(q, answer) ==
    /\ goroutine' = [goroutine EXCEPT ![q] = "done"]
    /\ c' = [c EXCEPT ![q] = answer]
    /\ UNCHANGED <<ctxDone, caller, server>>

(* Mutant: the request does not have the context.                          *)
Sends_NoContext(q) ==
    /\ goroutine[q] = "do"
    /\ goroutine' = [goroutine EXCEPT ![q] = "waiting"]
    /\ server' = [server EXCEPT ![q] = "sent"]
    /\ UNCHANGED <<ctxDone, caller, c>>

Sends(q) ==
    /\ goroutine[q] = "do" /\ ~ctxDone
    /\ goroutine' = [goroutine EXCEPT ![q] = "waiting"]
    /\ server' = [server EXCEPT ![q] = "sent"]
    /\ UNCHANGED <<ctxDone, caller, c>>

(* A dial that failed, a connection that broke, or a context that is done. *)
Fails(q) == goroutine[q] \in {"do", "waiting"} /\ Answers(q, "error")

(* The status code is between 200 and 299, or not.                         *)
Responds(q) ==
    /\ goroutine[q] = "waiting"
    /\ \/ server[q] = "accepted" /\ Answers(q, "nil")
       \/ server[q] = "refused" /\ Answers(q, "error")

-----------------------------------------------------------------------------
(* app-exposer, which may come to a request when its caller is gone.       *)
Serve(q) ==
    /\ server[q] = "sent"
    /\ \E answer \in {"accepted", "refused"} :
           server' = [server EXCEPT ![q] = answer]
    /\ UNCHANGED <<ctxDone, caller, goroutine, c>>

Caller(q) == HTTPDo(q) \/ SelectAnswer(q) \/ SelectDone(q) \/ Drain(q)
Goroutine(q) == Sends(q) \/ Fails(q) \/ Responds(q)

Next == Cancel \/ \E q \in Request : Caller(q) \/ Goroutine(q) \/ Serve(q)

Spec == Init /\ [][Next]_vars

-----------------------------------------------------------------------------
(* A call that has returned has left no goroutine behind, and nothing that *)
(* could still send its request.                                           *)
NoGoroutineLeft ==
    \A q \in Request : caller[q] \in {"nil", "error"} => goroutine[q] = "done"

(* The calls keep the contract that runAllSteps and ConfigureK8s rely on.  *)
Contract == INSTANCE CallContract
    WITH caller <- [q \in Request |-> IF caller[q] \in {"select", "drain"}
                                      THEN "calling" ELSE caller[q]],
         server <- [q \in Request |-> IF server[q] = "refused" THEN "sent"
                                      ELSE server[q]]
KeepsContract == Contract!Spec

-----------------------------------------------------------------------------
(* The inductive invariant.                                                *)
GoroutineInv ==
    \A q \in Request :
        /\ caller[q] = "idle" <=> goroutine[q] = "none"
        /\ c[q] # "empty" => goroutine[q] = "done"
        /\ goroutine[q] \in {"none", "do"} => server[q] = "unsent"
        /\ c[q] = "nil" => server[q] = "accepted"
CallInv == GoroutineInv /\ NoGoroutineLeft
=============================================================================
