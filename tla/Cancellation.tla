---------------------------- MODULE Cancellation ----------------------------
(***************************************************************************)
(* A signal on its way to a call of app-exposer: the signal handler        *)
(* (signal_handling.go), the callback that main.go gives it, whose first   *)
(* act is to cancel the context, and the calls that runAllSteps and        *)
(* ConfigureK8s make with that context (k8s.go).  Exit (exit.go) cancels   *)
(* the same context.  main.go never sends on the quit channel of the       *)
(* handler.  What the callback does afterwards, it publishes a status and  *)
(* may block there for ever, is left to MainLifecycle.                     *)
(***************************************************************************)
EXTENDS HTTPCall, Sequences

CONSTANT Signal

VARIABLES signals, quitter, receiver, unseen

handlerVars == <<signals, quitter, receiver, unseen>>
allVars == <<vars, handlerVars>>

Handler == INSTANCE SignalHandling

RunnerInit == Init /\ Handler!Init

CallbackCancels ==
    /\ receiver = "f"
    /\ Cancel
    /\ UNCHANGED handlerVars

CallbackReturns ==
    /\ ctxDone
    /\ Handler!Processed
    /\ UNCHANGED vars

SignalArrives(s) == Handler!Notify(s) /\ UNCHANGED vars
TakeSignal == Handler!ReceiveSignal /\ UNCHANGED vars

Calling(q) == caller[q] \in {"select", "drain"}

(* The calls, and the cancellation by Exit.                                *)
CallStep == Next /\ UNCHANGED handlerVars

RunnerNext == \/ \E s \in Signal : SignalArrives(s)
              \/ TakeSignal \/ CallbackCancels \/ CallbackReturns
              \/ CallStep

(* The goroutines of the handler and of HTTPCall go on when they can, and  *)
(* net/http heeds the context: http itself sets no timeout, and            *)
(* app-exposer may never answer.  Nothing makes the callback return.       *)
RunnerSpec ==
    /\ RunnerInit /\ [][RunnerNext]_allVars
    /\ WF_allVars(TakeSignal) /\ WF_allVars(CallbackCancels)
    /\ \A q \in Request :
           /\ WF_allVars((SelectAnswer(q) \/ SelectDone(q) \/ Drain(q)) /\ UNCHANGED handlerVars)
           /\ WF_allVars(ctxDone /\ Goroutine(q) /\ UNCHANGED handlerVars)

-----------------------------------------------------------------------------
(* A signal that is dropped because the channel is full is not ignored:    *)
(* the callback has still to run for one that arrived no earlier than its  *)
(* last call.                                                              *)
NoSignalDropped == Handler!NoSignalIgnored

(* A signal, or Exit, ends every call of app-exposer that is being made,   *)
(* though the server never answers and the callback never returns.         *)
StopEndsCalls ==
    \A q \in Request : (signals # <<>> \/ ctxDone) /\ Calling(q) ~> ~Calling(q)
=============================================================================
