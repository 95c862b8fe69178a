------------------------ MODULE CancellationProofs --------------------------
(***************************************************************************)
(* Proofs about the calls of app-exposer, for any number of them, about    *)
(* SignalHandler, for any set of signals, and about the two together.      *)
(***************************************************************************)
EXTENDS Cancellation, Naturals, Sequences, TLAPS

LEMMA CallInit == Init => TypeOK /\ CallInv
BY DEF Init, TypeOK, CallInv, GoroutineInv, NoGoroutineLeft

LEMMA CallTypeNext == TypeOK /\ CallInv /\ [Next]_vars => TypeOK'
<1> SUFFICES ASSUME TypeOK, CallInv, [Next]_vars PROVE TypeOK'
  OBVIOUS
<1> USE DEF TypeOK
<1>1. CASE Cancel \/ UNCHANGED vars
  BY <1>1 DEF Cancel, vars
<1>2. ASSUME NEW q \in Request, Caller(q) PROVE TypeOK'
  BY <1>2 DEF Caller, HTTPDo, SelectAnswer, SelectDone, Drain
<1>3. ASSUME NEW q \in Request, Goroutine(q) PROVE TypeOK'
  BY <1>3 DEF Goroutine, Sends, Fails, Responds, Answers
<1>4. ASSUME NEW q \in Request, Serve(q) PROVE TypeOK'
  BY <1>4 DEF Serve
<1> QED
  BY <1>1, <1>2, <1>3, <1>4 DEF Next

LEMMA CallNext == TypeOK /\ CallInv /\ [Next]_vars => CallInv'
<1> SUFFICES ASSUME TypeOK, CallInv, [Next]_vars PROVE CallInv'
  OBVIOUS
<1> USE DEF TypeOK, CallInv, GoroutineInv, NoGoroutineLeft
<1>1. CASE Cancel \/ UNCHANGED vars
  BY <1>1 DEF Cancel, vars
<1>2. ASSUME NEW q \in Request, HTTPDo(q) PROVE CallInv'
  BY <1>2 DEF HTTPDo
<1>3. ASSUME NEW q \in Request, SelectAnswer(q) PROVE CallInv'
  BY <1>3 DEF SelectAnswer
<1>4. ASSUME NEW q \in Request, SelectDone(q) PROVE CallInv'
  BY <1>4 DEF SelectDone
<1>5. ASSUME NEW q \in Request, Drain(q) PROVE CallInv'
  BY <1>5 DEF Drain
<1>6. ASSUME NEW q \in Request, Sends(q) PROVE CallInv'
  BY <1>6 DEF Sends
<1>7. ASSUME NEW q \in Request, Fails(q) PROVE CallInv'
  BY <1>7 DEF Fails, Answers
<1>8. ASSUME NEW q \in Request, Responds(q) PROVE CallInv'
  BY <1>8 DEF Responds, Answers
<1>9. ASSUME NEW q \in Request, Serve(q) PROVE CallInv'
  BY <1>9 DEF Serve
<1> QED
  BY <1>1, <1>2, <1>3, <1>4, <1>5, <1>6, <1>7, <1>8, <1>9
     DEF Next, Caller, Goroutine

THEOREM CallSafe == Spec => [](TypeOK /\ CallInv)
BY CallInit, CallTypeNext, CallNext, PTL DEF Spec

(* Every variable of the calls keeps its type.                             *)
THEOREM CallTypeCorrect == Spec => []TypeOK
BY CallSafe, PTL

(* When HTTPDo has returned its goroutine has ended: its request will not  *)
(* be sent any more, and its response body has been closed.                *)
THEOREM NoGoroutineIsLeft == Spec => []NoGoroutineLeft
<1>1. CallInv => NoGoroutineLeft
  BY DEF CallInv
<1> QED
  BY <1>1, CallSafe, PTL

-----------------------------------------------------------------------------
(* A call takes the steps of the contract, or none.                        *)
LEMMA CallRefines ==
    ASSUME TypeOK, CallInv, [Next]_vars
    PROVE  [Contract!Next]_(Contract!vars)
<1> USE DEF TypeOK, CallInv, GoroutineInv
<1>1. CASE Cancel
  <2>1. Contract!Cancel
    BY <1>1 DEF Cancel, Contract!Cancel
  <2> QED
    BY <2>1 DEF Contract!Next
<1>2. ASSUME NEW q \in Request, HTTPDo(q) PROVE Contract!Begin(q)
  BY <1>2 DEF HTTPDo, Contract!Begin
<1>3. ASSUME NEW q \in Request, SelectAnswer(q)
      PROVE  \E answer \in {"nil", "error"} : Contract!Return(q, answer)
  <2>1. c[q] \in {"nil", "error"} /\ Contract!Return(q, c[q])
    BY <1>3 DEF SelectAnswer, Contract!Return
  <2> QED
    BY <2>1 DEF Contract!Return
<1>4. ASSUME NEW q \in Request, SelectDone(q) PROVE  UNCHANGED Contract!vars
  BY <1>4 DEF SelectDone, Contract!vars
<1>5. ASSUME NEW q \in Request, Drain(q) PROVE Contract!Return(q, "error")
  BY <1>5 DEF Drain, Contract!Return
<1>6. ASSUME NEW q \in Request, Sends(q) PROVE Contract!Send(q)
  BY <1>6 DEF Sends, Contract!Send, NoGoroutineLeft
<1>7. ASSUME NEW q \in Request, Fails(q) \/ Responds(q) PROVE  UNCHANGED Contract!vars
  BY <1>7 DEF Fails, Responds, Answers, Contract!vars
<1>8. ASSUME NEW q \in Request, Serve(q)
      PROVE  Contract!Accept(q) \/ UNCHANGED Contract!vars
  <2>1. CASE server'[q] = "accepted"
    <3>1. /\ server[q] = "sent" /\ server' = [server EXCEPT ![q] = "accepted"]
          /\ UNCHANGED <<ctxDone, caller>>
      BY <1>8, <2>1 DEF Serve
    <3> QED
      BY <3>1 DEF Contract!Accept
  <2>2. CASE server'[q] = "refused"
    BY <1>8, <2>2 DEF Serve, Contract!vars
  <2> QED
    BY <1>8, <2>1, <2>2 DEF Serve
<1>9. CASE UNCHANGED vars
  BY <1>9 DEF vars, Contract!vars
<1>10. ASSUME NEW q \in Request, Caller(q)
       PROVE  Contract!Next \/ UNCHANGED Contract!vars
  <2>1. CASE HTTPDo(q)
    BY <1>2, <2>1 DEF Contract!Next, Contract!Step
  <2>2. CASE SelectAnswer(q)
    BY <1>3, <2>2 DEF Contract!Next, Contract!Step
  <2>3. CASE SelectDone(q)
    BY <1>4, <2>3
  <2>4. CASE Drain(q)
    BY <1>5, <2>4 DEF Contract!Next, Contract!Step
  <2> QED
    BY <1>10, <2>1, <2>2, <2>3, <2>4 DEF Caller
<1>11. ASSUME NEW q \in Request, Goroutine(q) \/ Serve(q)
       PROVE  Contract!Next \/ UNCHANGED Contract!vars
  <2>1. CASE Sends(q)
    BY <1>6, <2>1 DEF Contract!Next, Contract!Step
  <2>2. CASE Fails(q) \/ Responds(q)
    BY <1>7, <2>2
  <2>3. CASE Serve(q)
    BY <1>8, <2>3 DEF Contract!Next, Contract!Step
  <2> QED
    BY <1>11, <2>1, <2>2, <2>3 DEF Goroutine
<1> QED
  BY <1>1, <1>9, <1>10, <1>11 DEF Next

(* HTTPDo implements the contract of a call: nil only for what app-exposer *)
(* accepted, and nothing sent after a cancellation or a return.            *)
THEOREM CallRefinement == Spec => KeepsContract
<1>1. Init => Contract!Init
  BY DEF Init, Contract!Init
<1>2. TypeOK /\ CallInv /\ [Next]_vars => [Contract!Next]_(Contract!vars)
  BY CallRefines
<1> QED
  BY <1>1, <1>2, CallSafe, PTL DEF Spec, KeepsContract, Contract!Spec

-----------------------------------------------------------------------------
(***************************************************************************)
(* SignalHandler, for any set of signals                                   *)
(***************************************************************************)
(* A signal is sent into a channel that is empty, or dropped.              *)
LEMMA NotifyChannel ==
    ASSUME Handler!TypeOK, NEW s \in Signal, Handler!Notify(s)
    PROVE  /\ signals' \in Seq(Signal) /\ Len(signals') = 1
           /\ signals' # <<>>
<1>1. CASE Len(signals) < Handler!Capacity
  <2>1. signals = <<>> /\ signals' = Append(signals, s)
    BY <1>1 DEF Handler!TypeOK, Handler!Notify, Handler!Capacity
  <2> QED
    BY <2>1
<1>2. CASE ~(Len(signals) < Handler!Capacity)
  <2>0. signals \in Seq(Signal) /\ Len(signals) \in Nat /\ Len(signals) <= 1
    BY DEF Handler!TypeOK, Handler!Capacity
  <2>1. signals' = signals
    BY <1>2 DEF Handler!Notify
  <2>2. Len(signals) = 1
    <3>1. \A n \in Nat : n <= 1 /\ ~(n < 1) => n = 1
      OBVIOUS
    <3>2. ~(Len(signals) < 1)
      BY <1>2 DEF Handler!Capacity
    <3> QED
      BY <2>0, <3>1, <3>2, Zenon
  <2> QED
    BY <2>0, <2>1, <2>2
<1> QED
  BY <1>1, <1>2

(* The receiver empties the channel: it holds no more than one signal.     *)
LEMMA ReceiveChannel ==
    ASSUME Handler!TypeOK, Handler!ReceiveSignal
    PROVE  signals' = <<>>
BY DEF Handler!TypeOK, Handler!ReceiveSignal, Handler!Capacity

HandlerInv == Handler!TypeOK /\ Handler!NoSignalIgnored

LEMMA HandlerInit == Handler!Init => HandlerInv
<1>1. <<>> \in Seq(Signal) /\ Len(<<>>) = 0
  OBVIOUS
<1>2. Handler!Init => signals \in Seq(Signal) /\ Len(signals) \leq Handler!Capacity
  BY <1>1 DEF Handler!Init, Handler!Capacity
<1>3. Handler!Init => Handler!NoSignalIgnored
  BY DEF Handler!Init, Handler!NoSignalIgnored
<1> QED
  BY <1>2, <1>3 DEF HandlerInv, Handler!Init, Handler!TypeOK

LEMMA HandlerNext ==
    ASSUME HandlerInv, [Handler!Next]_(Handler!vars)
    PROVE  HandlerInv'
<1> USE DEF HandlerInv, Handler!TypeOK, Handler!NoSignalIgnored
<1>1. ASSUME NEW s \in Signal, Handler!Notify(s) PROVE HandlerInv'
  <2>1. signals' \in Seq(Signal) /\ Len(signals') = 1 /\ signals' # <<>>
    BY <1>1, NotifyChannel
  <2> QED
    BY <1>1, <2>1 DEF Handler!Notify, Handler!Capacity
<1>2. CASE Handler!ReceiveSignal
  <2>1. signals' = <<>> /\ unseen' = {}
    BY <1>2, ReceiveChannel DEF Handler!ReceiveSignal
  <2> QED
    BY <1>2, <2>1 DEF Handler!ReceiveSignal, Handler!Capacity
<1>3. CASE Handler!SendQuit \/ Handler!ReceiveQuit
  BY <1>3 DEF Handler!SendQuit, Handler!ReceiveQuit
<1>4. CASE Handler!Processed \/ Handler!QuitProcessed
  BY <1>4 DEF Handler!Processed, Handler!QuitProcessed
<1>5. CASE UNCHANGED Handler!vars
  BY <1>5 DEF Handler!vars
<1> QED
  BY <1>1, <1>2, <1>3, <1>4, <1>5 DEF Handler!Next

LEMMA HandlerSafe == Handler!Spec => []HandlerInv
<1>1. HandlerInv /\ [Handler!Next]_(Handler!vars) => HandlerInv'
  BY HandlerNext
<1> QED
  BY <1>1, HandlerInit, PTL DEF Handler!Spec

(* The variables of the handler keep their types, and the channel its      *)
(* bound.                                                                  *)
THEOREM SignalTypeCorrect == Handler!Spec => []Handler!TypeOK
BY HandlerSafe, PTL DEF HandlerInv

(* Whatever is dropped, a signal not yet seen leaves one in the channel    *)
(* for which the callback has still to run.                                *)
THEOREM NoSignalIsIgnored == Handler!Spec => []Handler!NoSignalIgnored
BY HandlerSafe, PTL DEF HandlerInv

LEMMA SignalContractNext ==
    ASSUME Handler!TypeOK, [Handler!Next]_(Handler!vars)
    PROVE  [Handler!Contract!Next]_(Handler!Contract!vars)
<1> USE DEF Handler!Contract!Next, Handler!Contract!vars
<1>1. ASSUME NEW s \in Signal, Handler!Notify(s) PROVE Handler!Contract!Next
  <2>1. signals' # <<>> /\ receiver' = receiver
    BY <1>1, NotifyChannel DEF Handler!Notify
  <2> QED
    BY <2>1 DEF Handler!Contract!Arrive
<1>2. CASE Handler!ReceiveSignal
  BY <1>2, ReceiveChannel DEF Handler!ReceiveSignal, Handler!Contract!Take
<1>3. CASE Handler!Processed
  BY <1>3 DEF Handler!Processed, Handler!Contract!Finish
<1>4. CASE Handler!SendQuit \/ Handler!ReceiveQuit \/ Handler!QuitProcessed
  BY <1>4 DEF Handler!SendQuit, Handler!ReceiveQuit, Handler!QuitProcessed
<1>5. CASE UNCHANGED Handler!vars
  BY <1>5 DEF Handler!vars
<1> QED
  BY <1>1, <1>2, <1>3, <1>4, <1>5 DEF Handler!Next

(* The channel and its goroutine keep the contract of main.go's callback.  *)
THEOREM SignalRefinement == Handler!Spec => Handler!KeepsContract
<1>1. Handler!Init => Handler!Contract!Init
  BY DEF Handler!Init, Handler!Contract!Init
<1>2. Handler!TypeOK /\ [Handler!Next]_(Handler!vars)
        => [Handler!Contract!Next]_(Handler!Contract!vars)
  BY SignalContractNext
<1> QED
  BY <1>1, <1>2, SignalTypeCorrect, PTL
     DEF Handler!Spec, Handler!KeepsContract, Handler!Contract!Spec

-----------------------------------------------------------------------------
(***************************************************************************)
(* With the signal handler                                                 *)
(***************************************************************************)
LEMMA RunnerIsCall == RunnerNext => [Next]_vars
<1> SUFFICES ASSUME RunnerNext PROVE [Next]_vars
  OBVIOUS
<1>1. CASE (\E s \in Signal : SignalArrives(s)) \/ TakeSignal \/ CallbackReturns
  BY <1>1 DEF SignalArrives, TakeSignal, CallbackReturns
<1>2. CASE CallbackCancels \/ CallStep
  BY <1>2 DEF CallbackCancels, CallStep, Next
<1> QED
  BY <1>1, <1>2 DEF RunnerNext

LEMMA RunnerIsHandler == RunnerNext => [Handler!Next]_(Handler!vars)
<1> SUFFICES ASSUME RunnerNext PROVE [Handler!Next]_(Handler!vars)
  OBVIOUS
<1>1. CASE (\E s \in Signal : SignalArrives(s)) \/ TakeSignal \/ CallbackReturns
  BY <1>1 DEF SignalArrives, TakeSignal, CallbackReturns, Handler!Next
<1>2. CASE CallbackCancels \/ CallStep
  BY <1>2 DEF CallbackCancels, CallStep, handlerVars, Handler!vars
<1> QED
  BY <1>1, <1>2 DEF RunnerNext

(* The runner is the calls and the handler side by side: what holds of     *)
(* either alone holds of it.                                               *)
LEMMA RunnerCalls == RunnerSpec => Spec
<1>1. RunnerInit => Init
  BY DEF RunnerInit
<1>2. [RunnerNext]_allVars => [Next]_vars
  BY RunnerIsCall DEF allVars, vars
<1> QED
  BY <1>1, <1>2, PTL DEF RunnerSpec, Spec

LEMMA RunnerHandles == RunnerSpec => Handler!Spec
<1>1. RunnerInit => Handler!Init
  BY DEF RunnerInit
<1>2. [RunnerNext]_allVars => [Handler!Next]_(Handler!vars)
  BY RunnerIsHandler DEF allVars, handlerVars, Handler!vars
<1> QED
  BY <1>1, <1>2, PTL DEF RunnerSpec, Handler!Spec

(* Whatever the handler does, HTTPDo leaves no goroutine behind and keeps  *)
(* its contract.                                                           *)
THEOREM RunnerCallsSafe == RunnerSpec => []NoGoroutineLeft /\ KeepsContract
BY RunnerCalls, NoGoroutineIsLeft, CallRefinement

(* Whatever the calls do, the handler has still to run its callback for a  *)
(* signal that arrived since the last time.                                *)
THEOREM RunnerHandlesSafe == RunnerSpec => []NoSignalDropped
<1>1. NoSignalDropped <=> Handler!NoSignalIgnored
  BY DEF NoSignalDropped
<1> QED
  BY <1>1, RunnerHandles, NoSignalIsIgnored, PTL

(* Nor do the calls keep the handler from its contract: one callback at a  *)
(* time, and one more for a signal that came in between.                   *)
THEOREM RunnerHandlerKeepsContract == RunnerSpec => Handler!KeepsContract
BY RunnerHandles, SignalRefinement
=============================================================================
