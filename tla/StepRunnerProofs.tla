-------------------------- MODULE StepRunnerProofs --------------------------
(***************************************************************************)
(* Proofs, for every number of resources, about runAllSteps.               *)
(***************************************************************************)
EXTENDS StepRunnerInv, TLAPS

USE DEF ctxVars, mainVars, stepVars, configVars, serverVars

LEMMA TypeInit == Init => TypeInv
<1> SUFFICES ASSUME Init PROVE TypeInv
  OBVIOUS
<1>1. call \in [Call -> CallState]
  BY DEF Init, CallState
<1>2. cpos \in 1..(NumResources + 1) /\ kpos \in 0..NumResources
  BY NumResourcesAssumption DEF Init
<1>3. InRange
  BY DEF Init, InRange
<1> QED
  BY <1>1, <1>2, <1>3 DEF Init, TypeInv, TypeOK, NoReturn, AsyncReturn, Process, JobState

(* Sending a request, and accepting one, keep the table of requests.       *)
LEMMA CallUpdate ==
    ASSUME call \in [Call -> CallState], NEW c, NEW v \in CallState
    PROVE  [call EXCEPT ![c] = v] \in [Call -> CallState]
OBVIOUS

LEMMA TypeNext == TypeInv /\ [Next]_vars => TypeInv'
<1> SUFFICES ASSUME TypeInv, [Next]_vars PROVE TypeInv'
  OBVIOUS
<1> USE NumResourcesAssumption DEF TypeInv, TypeOK, InRange, Process, JobState
<1>1. CASE StartStep
  BY <1>1 DEF StartStep, Publish, Ok, AsyncReturn, CtxDone
<1>2. CASE SelectExec
  BY <1>2 DEF SelectExec, EndWait
<1>3. CASE SelectConfig
  <2>1. CASE err # "nil"
    BY <1>3, <2>1 DEF SelectConfig, EndWait
  <2>2. CASE err = "nil"
    BY <1>3, <2>2 DEF SelectConfig
  <2> QED
    BY <2>1, <2>2
<1>4. CASE SelectDone
  BY <1>4 DEF SelectDone, EndWait, StepFailed, AsyncReturn
<1>5. CASE CleanupSend
  <2>1. call' \in [Call -> CallState]
    BY <1>5, CallUpdate, "sent" \in CallState DEF CleanupSend, Send, CallState
  <2> QED
    BY <1>5, <2>1 DEF CleanupSend, CleanupDone
<1>6. CASE CleanupAck
  BY <1>6 DEF CleanupAck
<1>7. CASE CleanupErr
  BY <1>7 DEF CleanupErr, CleanupDone, Resource
<1>8. CASE CleanupReports
  BY <1>8 DEF CleanupReports, Publish, NilError
<1>9. CASE Return
  BY <1>9 DEF Return, ReturnValue, Ok, AsyncReturn
<1>10. CASE ProxyStart
  BY <1>10 DEF ProxyStart
<1>11. CASE ProxyFails
  <2>1. containers' \subseteq {"proxy", "step"}
    BY <1>11 DEF ProxyFails
  <2> QED
    BY <1>11, <2>1 DEF ProxyFails
<1>12. CASE ProxyReports
  BY <1>12 DEF ProxyReports, Publish, NilError
<1>13. CASE ProxyExits
  BY <1>13 DEF ProxyExits
<1>14. CASE StepStart
  BY <1>14 DEF StepStart
<1>15. CASE StepFails
  BY <1>15 DEF StepFails, AsyncReturn
<1>16. CASE StepReportsError
  BY <1>16 DEF StepReportsError, Publish, NilError
<1>17. CASE StepSendsError
  <2>1. execRet' \in AsyncReturn
    BY <1>17 DEF StepSendsError, AsyncReturn
  <2> QED
    BY <1>17, <2>1 DEF StepSendsError
<1>18. CASE StepExits
  BY <1>18 DEF StepExits, Ok, AsyncReturn
<1>19. CASE StepReportsSuccess
  BY <1>19 DEF StepReportsSuccess, Publish
<1>20. CASE ConfigNoRoute
  BY <1>20 DEF ConfigNoRoute
<1>21. CASE PollSend
  BY <1>21 DEF PollSend
<1>22. CASE PollNotReady
  BY <1>22 DEF PollNotReady
<1>23. CASE PollReady
  BY <1>23 DEF PollReady
<1>24. CASE CreateSend
  <2>1. call' \in [Call -> CallState]
    BY <1>24, CallUpdate, "sent" \in CallState DEF CreateSend, Send, CallState
  <2> QED
    BY <1>24, <2>1 DEF CreateSend
<1>25. CASE CreateAck
  <2>1. CASE kpos = NumResources
    <3>1. configRet' = Ok
      BY <1>25, <2>1 DEF CreateAck
    <3>2. configRet' \in AsyncReturn
      BY <3>1 DEF Ok, AsyncReturn
    <3> QED
      BY <1>25, <2>1, <3>2 DEF CreateAck
  <2>2. CASE kpos # NumResources
    BY <1>25, <2>2 DEF CreateAck
  <2> QED
    BY <2>1, <2>2
<1>26. CASE CreateErr
  BY <1>26 DEF CreateErr, Publish
<1>27. CASE RollbackSend
  <2>1. call' \in [Call -> CallState]
    BY <1>27, CallUpdate, "sent" \in CallState DEF RollbackSend, Send, CallState
  <2> QED
    BY <1>27, <2>1 DEF RollbackSend
<1>28. CASE RollbackNext
  BY <1>28 DEF RollbackNext
<1>29. CASE RollbackDone
  BY <1>29 DEF RollbackDone, StepFailed, AsyncReturn
<1>30. CASE CancelParent
  BY <1>30 DEF CancelParent
<1>31. CASE Server
  <2>1. PICK c \in Call : ServerAccepts(c)
    BY <1>31 DEF Server
  <2>2. call' \in [Call -> CallState]
    BY <2>1, CallUpdate, "accepted" \in CallState DEF ServerAccepts, CallState
  <2>3. k8s' \subseteq Resource
    BY <2>1 DEF ServerAccepts, Call
  <2> QED
    BY <2>1, <2>2, <2>3 DEF ServerAccepts
<1>32. CASE Orphan
  BY <1>32 DEF Orphan, OrphanEnds
<1>33. CASE UNCHANGED vars
  BY <1>33 DEF vars
<1> QED
  BY <1>1, <1>2, <1>3, <1>4, <1>5, <1>6, <1>7, <1>8, <1>9, <1>10, <1>11, <1>12, <1>13, <1>14, <1>15, <1>16, <1>17, <1>18, <1>19, <1>20, <1>21, <1>22, <1>23, <1>24, <1>25, <1>26, <1>27, <1>28, <1>29, <1>30, <1>31, <1>32, <1>33
     DEF Next, Main, Proxy, Step, Configure

(* Every variable keeps its type, for any number of resources.             *)
THEOREM TypeCorrect == Spec => []TypeOK
<1>1. Init => TypeInv
  BY TypeInit
<1>2. TypeInv /\ [Next]_vars => TypeInv'
  BY TypeNext
<1>3. TypeInv => TypeOK
  BY DEF TypeInv
<1> QED
  BY <1>1, <1>2, <1>3, PTL DEF Spec

-----------------------------------------------------------------------------
LEMMA SafeInit == Init => SafeInv
BY DEF Init, SafeInv, Waiting, Call, NilExplained, StepSucceeded, NoReturn,
       NothingBeforeStart, WhyEnded, ExecResult, ConfigResult, NilErr,
       ResultInv, BornDone, PanicNeedsSuccess, SuccessExplained,
       StoppedBeforeStep

LEMMA SafeNext == TypeInv /\ SafeInv /\ [Next]_vars => SafeInv'
<1> SUFFICES ASSUME TypeInv, SafeInv, [Next]_vars PROVE SafeInv'
  OBVIOUS
<1> USE NumResourcesAssumption
    DEF TypeInv, TypeOK, InRange, SafeInv, Up, CtxDone, Waiting, NilSuccess,
        NilExplained, StepSucceeded, Ok, StepFailed, NoReturn,
        NothingBeforeStart, WhyEnded, ExecResult, ConfigResult, NilErr,
        ResultInv, BornDone, PanicNeedsSuccess, SuccessExplained,
        StoppedBeforeStep
<1>1. CASE StartStep
  BY <1>1 DEF StartStep, Publish
<1>2. CASE SelectExec
  BY <1>2 DEF SelectExec, EndWait
<1>3. CASE SelectConfig
  BY <1>3 DEF SelectConfig, EndWait
<1>4. CASE SelectDone
  BY <1>4 DEF SelectDone, EndWait
<1>5. CASE CleanupSend
  BY <1>5 DEF CleanupSend, Send, CleanupDone
<1>6. CASE CleanupAck
  <2>1. NothingBeforeStart'
    BY <1>6 DEF CleanupAck
  <2>2. WhyEnded'
    BY <1>6 DEF CleanupAck
  <2>3. ExecResult'
    BY <1>6 DEF CleanupAck
  <2>4. ConfigResult'
    BY <1>6 DEF CleanupAck
  <2>5. NilErr'
    BY <1>6 DEF CleanupAck
  <2>6. ResultInv'
    BY <1>6 DEF CleanupAck
  <2>7. BornDone'
    BY <1>6 DEF CleanupAck
  <2>8. PanicNeedsSuccess'
    BY <1>6 DEF CleanupAck
  <2>9. SuccessExplained'
    BY <1>6 DEF CleanupAck
  <2>10. StoppedBeforeStep'
    BY <1>6 DEF CleanupAck
  <2> QED
    BY <2>1, <2>2, <2>3, <2>4, <2>5, <2>6, <2>7, <2>8, <2>9, <2>10
<1>7. CASE CleanupErr
  BY <1>7 DEF CleanupErr, CleanupDone
<1>8. CASE CleanupReports
  BY <1>8 DEF CleanupReports, Publish, NilError
<1>9. CASE Return
  <2>1. NothingBeforeStart'
    BY <1>9 DEF Return, ReturnValue
  <2>2. WhyEnded'
    BY <1>9 DEF Return, ReturnValue
  <2>3. ExecResult'
    BY <1>9 DEF Return, ReturnValue
  <2>4. ConfigResult'
    BY <1>9 DEF Return, ReturnValue
  <2>5. NilErr'
    BY <1>9 DEF Return, ReturnValue
  <2>6. ResultInv'
    <3>1. exitBy = "context" => result = StepFailed
      BY <1>9 DEF Return
    <3>2. result \in {Ok, StepFailed, NilSuccess}
      <4>1. mpc = "cleanup" /\ exitBy \in {"exec", "config", "context"}
        BY <1>9 DEF Return
      <4>2. exitBy = "exec" => execRet \in {Ok, StepFailed, NilSuccess}
        BY <4>1
      <4>3. exitBy = "config" => configRet \in {Ok, StepFailed}
        BY <4>1
      <4> QED
        BY <4>1, <4>2, <4>3
    <3>3. result' = ReturnValue /\ mpc' = "returned" /\ exitBy' = exitBy
      BY <1>9 DEF Return
    <3>4. result' \in {Ok, StepFailed} /\ (result = StepFailed => result' = StepFailed)
      <4>1. CASE result.err
        <5>1. result = StepFailed /\ result' = result
          BY <3>2, <3>3, <4>1 DEF ReturnValue
        <5> QED
          BY <5>1
      <4>2. CASE ~result.err
        <5>1. result # StepFailed /\ result' = Ok
          BY <3>3, <4>2 DEF ReturnValue
        <5> QED
          BY <5>1
      <4> QED
        BY <4>1, <4>2
    <3> QED
      BY <3>1, <3>3, <3>4
  <2>7. BornDone'
    BY <1>9 DEF Return, ReturnValue
  <2>8. PanicNeedsSuccess'
    BY <1>9 DEF Return, ReturnValue
  <2>9. SuccessExplained'
    BY <1>9 DEF Return, ReturnValue
  <2>10. StoppedBeforeStep'
    <3>1. CASE bornDone
      <4>1. exitBy \in {"exec", "context"} /\ mpc = "cleanup"
        BY <1>9, <3>1 DEF Return
      <4>2. exitBy = "exec" => execRet # Ok /\ execRet # NilSuccess
        BY <3>1, <4>1
      <4>3. result = StepFailed
        BY <4>1, <4>2
      <4> QED
        BY <1>9, <3>1, <4>3 DEF Return, ReturnValue
    <3>2. CASE ~bornDone
      BY <1>9, <3>2 DEF Return
    <3> QED
      BY <3>1, <3>2
  <2> QED
    BY <2>1, <2>2, <2>3, <2>4, <2>5, <2>6, <2>7, <2>8, <2>9, <2>10
<1>10. CASE ProxyStart
  BY <1>10 DEF ProxyStart
<1>11. CASE ProxyFails
  <2>1. NothingBeforeStart'
    BY <1>11 DEF ProxyFails
  <2>2. WhyEnded'
    BY <1>11 DEF ProxyFails
  <2>3. ExecResult'
    BY <1>11 DEF ProxyFails
  <2>4. ConfigResult'
    BY <1>11 DEF ProxyFails
  <2>5. NilErr'
    BY <1>11 DEF ProxyFails
  <2>6. ResultInv'
    BY <1>11 DEF ProxyFails
  <2>7. BornDone'
    BY <1>11 DEF ProxyFails
  <2>8. PanicNeedsSuccess'
    BY <1>11 DEF ProxyFails
  <2>9. SuccessExplained'
    BY <1>11 DEF ProxyFails
  <2>10. StoppedBeforeStep'
    BY <1>11 DEF ProxyFails
  <2> QED
    BY <2>1, <2>2, <2>3, <2>4, <2>5, <2>6, <2>7, <2>8, <2>9, <2>10
<1>12. CASE ProxyReports
  BY <1>12 DEF ProxyReports, Publish, NilError
<1>13. CASE ProxyExits
  BY <1>13 DEF ProxyExits
<1>14. CASE StepStart
  BY <1>14 DEF StepStart
<1>15. CASE StepFails
  <2>1. NothingBeforeStart'
    BY <1>15 DEF StepFails
  <2>2. WhyEnded'
    BY <1>15 DEF StepFails
  <2>3. ExecResult'
    <3>1. execRet = NoReturn /\ step' = "errored"
      BY <1>15 DEF StepFails
    <3>2. execRet' = NilSuccess
      BY <1>15, <3>1 DEF StepFails
    <3> QED
      BY <3>1, <3>2
  <2>4. ConfigResult'
    BY <1>15 DEF StepFails
  <2>5. NilErr'
    BY <1>15 DEF StepFails
  <2>6. ResultInv'
    BY <1>15 DEF StepFails
  <2>7. BornDone'
    BY <1>15 DEF StepFails
  <2>8. PanicNeedsSuccess'
    BY <1>15 DEF StepFails
  <2>9. SuccessExplained'
    BY <1>15 DEF StepFails
  <2>10. StoppedBeforeStep'
    BY <1>15 DEF StepFails
  <2> QED
    BY <2>1, <2>2, <2>3, <2>4, <2>5, <2>6, <2>7, <2>8, <2>9, <2>10
<1>16. CASE StepReportsError
  BY <1>16 DEF StepReportsError, Publish, NilError
<1>17. CASE StepSendsError
  <2>1. NothingBeforeStart'
    BY <1>17 DEF StepSendsError
  <2>2. WhyEnded'
    BY <1>17 DEF StepSendsError
  <2>3. ExecResult'
    <3>1. execRet = NilSuccess /\ step' = "sending"
      BY <1>17 DEF StepSendsError
    <3>2. CASE err = "nil"
      <4>1. execRet' = NilSuccess
        BY <1>17, <3>1, <3>2 DEF StepSendsError
      <4> QED
        BY <3>1, <4>1
    <3>3. CASE err # "nil"
      <4>1. execRet' = StepFailed
        BY <1>17, <3>1, <3>3 DEF StepSendsError
      <4> QED
        BY <3>1, <4>1
    <3> QED
      BY <3>2, <3>3
  <2>4. ConfigResult'
    BY <1>17 DEF StepSendsError
  <2>5. NilErr'
    BY <1>17 DEF StepSendsError
  <2>6. ResultInv'
    BY <1>17 DEF StepSendsError
  <2>7. BornDone'
    BY <1>17 DEF StepSendsError
  <2>8. PanicNeedsSuccess'
    BY <1>17 DEF StepSendsError
  <2>9. SuccessExplained'
    BY <1>17 DEF StepSendsError
  <2>10. StoppedBeforeStep'
    BY <1>17 DEF StepSendsError
  <2> QED
    BY <2>1, <2>2, <2>3, <2>4, <2>5, <2>6, <2>7, <2>8, <2>9, <2>10
<1>18. CASE StepExits
  BY <1>18 DEF StepExits
<1>19. CASE StepReportsSuccess
  BY <1>19 DEF StepReportsSuccess, Publish
<1>20. CASE ConfigNoRoute
  BY <1>20 DEF ConfigNoRoute
<1>21. CASE PollSend
  BY <1>21 DEF PollSend
<1>22. CASE PollNotReady
  BY <1>22 DEF PollNotReady
<1>23. CASE PollReady
  BY <1>23 DEF PollReady
<1>24. CASE CreateSend
  BY <1>24 DEF CreateSend, Send
<1>25. CASE CreateAck
  BY <1>25 DEF CreateAck
<1>26. CASE CreateErr
  BY <1>26 DEF CreateErr, Publish
<1>27. CASE RollbackSend
  BY <1>27 DEF RollbackSend, Send
<1>28. CASE RollbackNext
  BY <1>28 DEF RollbackNext
<1>29. CASE RollbackDone
  BY <1>29 DEF RollbackDone
<1>30. CASE CancelParent
  BY <1>30 DEF CancelParent
<1>31. CASE Server
  BY <1>31 DEF Server, ServerAccepts
<1>32. CASE Orphan
  BY <1>32 DEF Orphan, OrphanEnds
<1>33. CASE UNCHANGED vars
  BY <1>33 DEF vars
<1> QED
  BY <1>1, <1>2, <1>3, <1>4, <1>5, <1>6, <1>7, <1>8, <1>9, <1>10, <1>11, <1>12, <1>13, <1>14, <1>15, <1>16, <1>17, <1>18, <1>19, <1>20, <1>21, <1>22, <1>23, <1>24, <1>25, <1>26, <1>27, <1>28, <1>29, <1>30, <1>31, <1>32, <1>33
     DEF Next, Main, Proxy, Step, Configure

(* The invariant and the types hold together in every reachable state.     *)
THEOREM Safe == Spec => [](TypeInv /\ SafeInv)
<1>1. Init => TypeInv /\ SafeInv
  BY TypeInit, SafeInit
<1>2. TypeInv /\ SafeInv /\ [Next]_vars => (TypeInv /\ SafeInv)'
  BY TypeNext, SafeNext
<1> QED
  BY <1>1, <1>2, PTL DEF Spec

(* The process is never brought down by the shared err unless one of the   *)
(* two commands succeeded.                                                 *)
THEOREM PanicOnlyAfterSuccess == Spec => []PanicNeedsSuccess
<1>1. TypeInv /\ SafeInv => PanicNeedsSuccess
  BY DEF SafeInv
<1> QED
  BY <1>1, Safe, PTL

(* Every success runAllSteps returns is that of the step, or one of the    *)
(* two false ones.                                                         *)
THEOREM SuccessIsExplained == Spec => []SuccessExplained
<1>1. TypeInv /\ SafeInv => SuccessExplained
  BY DEF SafeInv
<1> QED
  BY <1>1, Safe, PTL

(* A job stopped before its step leaves no trace of the step.              *)
THEOREM StoppedBeforeStepHolds == Spec => []StoppedBeforeStep
<1>1. TypeInv /\ SafeInv => StoppedBeforeStep
  BY DEF SafeInv
<1> QED
  BY <1>1, Safe, PTL

-----------------------------------------------------------------------------
LEMMA AfterReturn ==
    ASSUME SafeInv, [Next]_vars, mpc = "returned"
    PROVE  /\ containers' \subseteq containers
           /\ \A c \in Call : call[c] = "unsent" => call'[c] = "unsent"
<1>1. CtxDone
  BY DEF SafeInv, WhyEnded, CtxDone
<1> USE <1>1 DEF Up
<1>2. CASE Main
  BY <1>2 DEF Main, StartStep, SelectExec, SelectConfig, SelectDone,
              CleanupSend, CleanupAck, CleanupErr, CleanupReports, Return
<1>3. CASE Proxy
  BY <1>3 DEF Proxy, ProxyStart, ProxyFails, ProxyReports, ProxyExits
<1>4. CASE Step
  BY <1>4 DEF Step, StepStart, StepFails, StepReportsError, StepSendsError,
              StepExits, StepReportsSuccess
<1>5. CASE Configure
  BY <1>5 DEF Configure, ConfigNoRoute, PollSend, PollNotReady, PollReady,
              CreateSend, CreateAck, CreateErr, RollbackSend, RollbackNext,
              RollbackDone
<1>6. CASE CancelParent
  BY <1>6 DEF CancelParent
<1>7. CASE Server
  BY <1>7 DEF Server, ServerAccepts
<1>8. CASE Orphan
  BY <1>8 DEF Orphan, OrphanEnds
<1>9. CASE UNCHANGED vars
  BY <1>9 DEF vars
<1> QED
  BY <1>2, <1>3, <1>4, <1>5, <1>6, <1>7, <1>8, <1>9 DEF Next

(* After runAllSteps has returned nothing new is started.                  *)
THEOREM QuietAfterReturn == Spec => NothingStartsAfterReturn
<1>1. TypeInv /\ SafeInv /\ [Next]_vars =>
        [mpc = "returned" =>
          /\ containers' \subseteq containers
          /\ \A c \in Call : call[c] = "unsent" => call'[c] = "unsent"]_vars
  BY AfterReturn
<1> QED
  BY <1>1, Safe, PTL DEF Spec, NothingStartsAfterReturn

-----------------------------------------------------------------------------
(***************************************************************************)
(* The resources and the outputs                                           *)
(***************************************************************************)
Kind == {"configure", "rollback", "cleanup"}

(* The requests are distinct: what happens to one happens to no other.     *)
LEMMA Pairs == \A k \in Kind, r \in Resource : <<k, r>> \in Call
BY DEF Call, Kind

LEMMA Accepted ==
    ASSUME TypeInv, Server
    PROVE  \E k \in Kind, r \in Resource :
               /\ call[<<k, r>>] = "sent"
               /\ call' = [call EXCEPT ![<<k, r>>] = "accepted"]
               /\ k8s' = IF k = "configure" THEN k8s \cup {r} ELSE k8s \ {r}
               /\ \A j \in Kind, q \in Resource :
                      call'[<<j, q>>] = IF j = k /\ q = r THEN "accepted"
                                                          ELSE call[<<j, q>>]
<1>1. PICK c \in Call : ServerAccepts(c)
  BY DEF Server
<1>2. PICK k \in Kind, r \in Resource : c = <<k, r>>
  BY DEF Call, Kind
<1>3. /\ call[<<k, r>>] = "sent"
      /\ call' = [call EXCEPT ![<<k, r>>] = "accepted"]
      /\ k8s' = IF k = "configure" THEN k8s \cup {r} ELSE k8s \ {r}
  BY <1>1, <1>2 DEF ServerAccepts
<1>4. \A j \in Kind, q \in Resource :
         call'[<<j, q>>] = IF j = k /\ q = r THEN "accepted" ELSE call[<<j, q>>]
  <2>1. call \in [Call -> CallState]
    BY DEF TypeInv, TypeOK
  <2> QED
    BY <1>3, <2>1, Pairs
<1> QED
  BY <1>3, <1>4

LEMMA ResourceInit == Init => ResourceInv
<1> SUFFICES ASSUME Init PROVE ResourceInv
  OBVIOUS
<1>1. \A k \in Kind, r \in Resource : call[<<k, r>>] = "unsent"
  BY DEF Init, Call, Kind
<1> QED
  BY <1>1 DEF Init, Kind, ResourceInv, PostInv, UndoInv, DeleteInv, OutputInv,
              Configured, RolledBack, Deleted, ConfigureUndone, Waiting, NoReturn

-----------------------------------------------------------------------------
LEMMA PostFrame ==
    ASSUME PostInv, UNCHANGED <<cpc, kpos, configRet, call, k8s>>
    PROVE  PostInv'
BY DEF PostInv, Configured

LEMMA PostSend ==
    ASSUME PostInv, TypeInv, NEW k \in {"rollback", "cleanup"}, NEW r \in Resource,
           call' = [call EXCEPT ![<<k, r>>] = "sent"]
    PROVE  \A q \in Resource : Configured(q)' = Configured(q)
<1>1. \A q \in Resource : call'[<<"configure", q>>] = call[<<"configure", q>>]
  <2>1. call \in [Call -> CallState]
    BY DEF TypeInv, TypeOK
  <2>2. \A q \in Resource : <<"configure", q>> \in Call
    BY Pairs DEF Kind
  <2> QED
    BY <2>1, <2>2
<1> QED
  BY <1>1 DEF Configured

LEMMA PostNext ==
    ASSUME TypeInv, SafeInv, PostInv, [Next]_vars
    PROVE  PostInv'
<1> USE NumResourcesAssumption
<1>1. CASE StartStep
  <2>1. cpc = "idle" /\ cpc' = "start" /\ UNCHANGED <<call, k8s>>
    BY <1>1 DEF StartStep, SafeInv, NothingBeforeStart
  <2> QED
    BY <2>1 DEF PostInv, Configured
<1>2. CASE \/ SelectExec \/ SelectDone \/ CleanupAck \/ CleanupErr
           \/ CleanupReports \/ Return
  BY <1>2, PostFrame DEF SelectExec, SelectDone, CleanupAck, CleanupErr,
                         CleanupReports, Return
<1>3. CASE SelectConfig
  <2>1. cpc = "sending" /\ cpc' = "done" /\ UNCHANGED <<kpos, configRet, call, k8s>>
    BY <1>3 DEF SelectConfig
  <2> QED
    BY <2>1 DEF PostInv, Configured
<1>4. CASE CleanupSend
  <2>1. cpos \in Resource /\ call' = [call EXCEPT ![<<"cleanup", cpos>>] = "sent"]
    BY <1>4 DEF CleanupSend, Send, CleanupCall, CleanupDone, Resource, TypeInv, TypeOK
  <2>2. \A q \in Resource : Configured(q)' = Configured(q)
    BY <2>1, PostSend
  <2>3. UNCHANGED <<cpc, kpos, configRet, k8s>>
    BY <1>4 DEF CleanupSend
  <2>4. k8s \subseteq Resource
    BY DEF TypeInv, TypeOK
  <2> QED
    BY <2>2, <2>3, <2>4 DEF PostInv
<1>5. CASE Proxy \/ Step \/ CancelParent \/ Orphan \/ UNCHANGED vars
  BY <1>5, PostFrame DEF Proxy, ProxyStart, ProxyFails, ProxyReports, ProxyExits,
       Step, StepStart, StepFails, StepReportsError, StepSendsError, StepExits,
       StepReportsSuccess, CancelParent, Orphan, OrphanEnds, vars
<1>6. CASE ConfigNoRoute
  BY <1>6, PostFrame DEF ConfigNoRoute
<1>7. CASE PollSend
  BY <1>7 DEF PollSend, PostInv, Configured
<1>8. CASE PollNotReady
  BY <1>8 DEF PollNotReady, PostInv, Configured
<1>9. CASE PollReady
  BY <1>9 DEF PollReady, PostInv, Configured, Resource
<1>10. CASE CreateSend
  <2>1. /\ kpos \in Resource /\ cpc = "create" /\ cpc' = "creating"
        /\ call' = [call EXCEPT ![<<"configure", kpos>>] = "sent"]
        /\ UNCHANGED <<kpos, configRet, k8s>>
    BY <1>10 DEF CreateSend, Send, ConfigureCall, Resource, TypeInv, TypeOK, InRange
  <2>2. \A q \in Resource : Configured(q)' = IF q = kpos THEN "sent" ELSE Configured(q)
    <3>1. \A q \in Resource : call'[<<"configure", q>>] =
            IF q = kpos THEN "sent" ELSE call[<<"configure", q>>]
      <4>1. call \in [Call -> CallState]
        BY DEF TypeInv, TypeOK
      <4>2. \A q \in Resource : <<"configure", q>> \in Call
        BY Pairs DEF Kind
      <4> QED
        BY <2>1, <4>1, <4>2
    <3> QED
      BY <3>1 DEF Configured
  <2>3. k8s \subseteq Resource /\ kpos \in Nat /\ Resource \subseteq Nat
    BY DEF TypeInv, TypeOK, Resource
  <2>4. Configured(kpos) = "unsent" /\ \A q \in Resource : q < kpos => Configured(q) = "accepted"
    BY <2>1, <2>3 DEF PostInv
  <2>5. \A q \in Resource : q > kpos => Configured(q) = "unsent"
    BY <2>1, <2>3 DEF PostInv
  <2>6. \A r, q \in Resource :
           Configured(r)' # "unsent" /\ q < r => Configured(q)' = "accepted"
    BY <2>2, <2>3, <2>4, <2>5 DEF PostInv
  <2>7. \A r \in k8s : Configured(r)' = "accepted"
    BY <2>2, <2>3, <2>4 DEF PostInv
  <2>8. \A q \in Resource : q > kpos => Configured(q)' = "unsent"
    BY <2>2, <2>3, <2>5
  <2>9. \A q \in Resource : q < kpos => Configured(q)' = "accepted"
    BY <2>2, <2>3, <2>4
  <2> QED
    BY <2>1, <2>6, <2>7, <2>8, <2>9 DEF PostInv
<1>11. CASE CreateAck
  <2>1. /\ cpc = "creating" /\ Configured(kpos) = "accepted" /\ UNCHANGED <<call, k8s>>
        /\ kpos \in Resource
    BY <1>11 DEF CreateAck, ConfigureCall, Configured, Resource, TypeInv, TypeOK, InRange
  <2>2. CASE kpos = NumResources
    <3>1. cpc' = "sending"
      BY <1>11, <2>2 DEF CreateAck
    <3>2. \A r \in Resource : Configured(r) = "accepted"
      BY <2>1, <2>2 DEF PostInv, Resource
    <3> QED
      BY <2>1, <3>1, <3>2 DEF PostInv, Configured
  <2>3. CASE kpos # NumResources
    <3>1. cpc' = "create" /\ kpos' = kpos + 1
      BY <1>11, <2>3 DEF CreateAck
    <3>2. \A r \in Resource : r < kpos + 1 => Configured(r) = "accepted"
      BY <2>1 DEF PostInv, Resource
    <3>3. \A r \in Resource : r >= kpos + 1 => Configured(r) = "unsent"
      BY <2>1 DEF PostInv, Resource
    <3> QED
      BY <2>1, <3>1, <3>2, <3>3 DEF PostInv, Configured
  <2> QED
    BY <2>2, <2>3
<1>12. CASE CreateErr
  BY <1>12 DEF CreateErr, PostInv, Configured
<1>13. CASE RollbackSend
  <2>1. kpos \in Resource /\ call' = [call EXCEPT ![<<"rollback", kpos>>] = "sent"]
    BY <1>13 DEF RollbackSend, Send, RollbackCall, Resource, TypeInv, TypeOK
  <2>2. \A q \in Resource : Configured(q)' = Configured(q)
    BY <2>1, PostSend
  <2>3. cpc' = "rollingBack" /\ UNCHANGED <<kpos, configRet, k8s>>
    BY <1>13 DEF RollbackSend
  <2>4. k8s \subseteq Resource
    BY DEF TypeInv, TypeOK
  <2> QED
    BY <2>2, <2>3, <2>4 DEF PostInv
<1>14. CASE RollbackNext
  BY <1>14 DEF RollbackNext, PostInv, Configured
<1>15. CASE RollbackDone
  BY <1>15 DEF RollbackDone, PostInv, Configured, StepFailed, Ok
<1>16. CASE Server
  <2>1. PICK k \in Kind, r \in Resource :
            /\ call[<<k, r>>] = "sent"
            /\ k8s' = IF k = "configure" THEN k8s \cup {r} ELSE k8s \ {r}
            /\ \A j \in Kind, q \in Resource :
                   call'[<<j, q>>] = IF j = k /\ q = r THEN "accepted"
                                                       ELSE call[<<j, q>>]
    BY <1>16, Accepted
  <2>2. UNCHANGED <<cpc, kpos, configRet>>
    BY <1>16 DEF Server, ServerAccepts
  <2>3. \A q \in Resource :
            \/ Configured(q)' = Configured(q)
            \/ k = "configure" /\ q = r /\ Configured(q) = "sent" /\ Configured(q)' = "accepted"
    <3>1. \A q \in Resource : call'[<<"configure", q>>] =
            IF k = "configure" /\ q = r THEN "accepted" ELSE call[<<"configure", q>>]
      BY <2>1 DEF Kind
    <3>2. SUFFICES ASSUME NEW q \in Resource
                   PROVE  \/ Configured(q)' = Configured(q)
                          \/ /\ k = "configure" /\ q = r
                             /\ Configured(q) = "sent" /\ Configured(q)' = "accepted"
      OBVIOUS
    <3>3. CASE k = "configure" /\ q = r
      BY <2>1, <3>1, <3>3 DEF Configured
    <3>4. CASE ~(k = "configure" /\ q = r)
      BY <3>1, <3>4 DEF Configured
    <3> QED
      BY <3>3, <3>4
  <2>4. \A q \in k8s' : Configured(q)' = "accepted"
    <3>1. k8s \subseteq Resource
      BY DEF TypeInv, TypeOK
    <3>2. \A q \in k8s : Configured(q)' = "accepted"
      BY <2>3, <3>1 DEF PostInv
    <3>3. k = "configure" => Configured(r)' = "accepted"
      BY <2>1 DEF Configured
    <3> QED
      BY <2>1, <3>2, <3>3
  <2>5. \A p, q \in Resource :
           Configured(p)' # "unsent" /\ q < p => Configured(q)' = "accepted"
    BY <2>3 DEF PostInv
  <2>6. \A q \in Resource : Configured(q) = "unsent" => Configured(q)' = "unsent"
    BY <2>3
  <2>7. \A q \in Resource : Configured(q) = "accepted" => Configured(q)' = "accepted"
    BY <2>3
  <2> QED
    BY <2>2, <2>4, <2>5, <2>6, <2>7 DEF PostInv
<1> QED
  BY <1>1, <1>2, <1>3, <1>4, <1>5, <1>6, <1>7, <1>8, <1>9, <1>10, <1>11, <1>12,
     <1>13, <1>14, <1>15, <1>16 DEF Next, Main, Configure

-----------------------------------------------------------------------------
(* A context that is done stays so.                                        *)
LEMMA ContextStays ==
    ASSUME TypeInv, [Next]_vars, CtxDone
    PROVE  CtxDone'
<1> USE DEF CtxDone, TypeInv, TypeOK
<1>1. CASE Main
  BY <1>1 DEF Main, StartStep, SelectExec, SelectConfig, SelectDone, CleanupSend,
              CleanupAck, CleanupErr, CleanupReports, Return
<1>2. CASE Proxy \/ Step \/ CancelParent \/ Server \/ Orphan \/ UNCHANGED vars
  BY <1>2 DEF Proxy, ProxyStart, ProxyFails, ProxyReports, ProxyExits,
       Step, StepStart, StepFails, StepReportsError, StepSendsError, StepExits,
       StepReportsSuccess, CancelParent, Server, ServerAccepts, Orphan, OrphanEnds, vars
<1>3. CASE Configure
  BY <1>3 DEF Configure, ConfigNoRoute, PollSend, PollNotReady, PollReady, CreateSend,
              CreateAck, CreateErr, RollbackSend, RollbackNext, RollbackDone
<1> QED
  BY <1>1, <1>2, <1>3 DEF Next

(* No request that was made is taken back, and only ConfigureK8s itself    *)
(* makes those of the configuration.                                       *)
LEMMA Requests ==
    ASSUME TypeInv, [Next]_vars, ~CreateSend
    PROVE  \A r \in Resource :
               /\ Configured(r) = "unsent" => Configured(r)' = "unsent"
               /\ RolledBack(r) # "unsent" => RolledBack(r)' # "unsent"
<1> SUFFICES ASSUME NEW r \in Resource
             PROVE  /\ Configured(r) = "unsent" => Configured(r)' = "unsent"
                    /\ RolledBack(r) # "unsent" => RolledBack(r)' # "unsent"
  OBVIOUS
<1>0. /\ call \in [Call -> CallState]
      /\ <<"configure", r>> \in Call /\ <<"rollback", r>> \in Call
  BY Pairs DEF TypeInv, TypeOK, Kind
<1> USE DEF Configured, RolledBack
<1>1. CASE CleanupSend
  BY <1>0, <1>1 DEF CleanupSend, Send, CleanupCall
<1>2. CASE RollbackSend
  BY <1>0, <1>2 DEF RollbackSend, Send, RollbackCall
<1>3. CASE Server
  <2>1. PICK c \in Call : ServerAccepts(c)
    BY <1>3 DEF Server
  <2> QED
    BY <1>0, <2>1 DEF ServerAccepts
<1>4. CASE UNCHANGED call
  BY <1>4
<1>5. Main => CleanupSend \/ UNCHANGED call
  BY DEF Main, StartStep, SelectExec, SelectConfig, SelectDone, CleanupAck,
         CleanupErr, CleanupReports, Return
<1>6. Proxy \/ Step \/ CancelParent \/ Orphan \/ UNCHANGED vars => UNCHANGED call
  BY DEF Proxy, ProxyStart, ProxyFails, ProxyReports, ProxyExits,
       Step, StepStart, StepFails, StepReportsError, StepSendsError, StepExits,
       StepReportsSuccess, CancelParent, Orphan, OrphanEnds, vars
<1>7. Configure => RollbackSend \/ UNCHANGED call
  BY DEF Configure, ConfigNoRoute, PollSend, PollNotReady, PollReady, CreateAck,
         CreateErr, RollbackNext, RollbackDone
<1> QED
  BY <1>1, <1>2, <1>3, <1>4, <1>5, <1>6, <1>7 DEF Next

LEMMA UndoFrame ==
    ASSUME TypeInv, UndoInv, [Next]_vars, ~CreateSend,
           UNCHANGED <<cpc, kpos, configRet>>
    PROVE  UndoInv'
<1>1. CtxDone => CtxDone'
  BY ContextStays
<1>2. \A r \in Resource :
          /\ Configured(r) = "unsent" => Configured(r)' = "unsent"
          /\ RolledBack(r) # "unsent" => RolledBack(r)' # "unsent"
  BY Requests
<1>3. ConfigureUndone <=> (configRet.err /\ ~CtxDone => \A r \in Resource :
                               Configured(r) # "unsent" => RolledBack(r) # "unsent")
  BY DEF ConfigureUndone, Configured, RolledBack
<1>4. ConfigureUndone' <=> (configRet.err /\ ~CtxDone' => \A r \in Resource :
                               Configured(r)' # "unsent" => RolledBack(r)' # "unsent")
  BY DEF ConfigureUndone, Configured, RolledBack
<1>5. ConfigureUndone'
  BY <1>1, <1>2, <1>3, <1>4 DEF UndoInv
<1> QED
  BY <1>1, <1>2, <1>5 DEF UndoInv

(* No error is returned before ConfigureK8s is done.                       *)
LEMMA UndoneLater ==
    ASSUME SafeInv, SafeInv', cpc' \notin {"sending", "done"}
    PROVE  ConfigureUndone'
BY DEF SafeInv, ConfigResult, ConfigureUndone, NoReturn

LEMMA UndoNext ==
    ASSUME TypeInv, SafeInv, SafeInv', PostInv, UndoInv, [Next]_vars
    PROVE  UndoInv'
<1>1. CASE \/ SelectExec \/ SelectDone \/ CleanupSend \/ CleanupAck \/ CleanupErr
           \/ CleanupReports \/ Return
  <2>1. UNCHANGED <<cpc, kpos, configRet>> /\ ~CreateSend
    BY <1>1 DEF SelectExec, SelectDone, CleanupSend, CleanupAck, CleanupErr,
                CleanupReports, Return, CreateSend
  <2> QED
    BY <2>1, UndoFrame
<1>2. CASE Proxy \/ Step \/ CancelParent \/ Orphan \/ Server \/ UNCHANGED vars
  <2>1. UNCHANGED <<cpc, kpos, configRet>> /\ ~CreateSend
    BY <1>2 DEF Proxy, ProxyStart, ProxyFails, ProxyReports, ProxyExits,
       Step, StepStart, StepFails, StepReportsError, StepSendsError, StepExits,
       StepReportsSuccess, CancelParent, Orphan, OrphanEnds, Server, ServerAccepts,
       vars, CreateSend
  <2> QED
    BY <2>1, UndoFrame
<1>3. CASE StartStep \/ PollSend \/ PollNotReady \/ PollReady \/ CreateSend
  <2>1. cpc' \notin {"rollback", "rollingBack", "sending", "done"}
    BY <1>3 DEF StartStep, PollSend, PollNotReady, PollReady, CreateSend
  <2> QED
    BY <2>1, UndoneLater DEF UndoInv
<1>4. CASE SelectConfig
  <2>1. /\ cpc' = "done" /\ UNCHANGED <<configRet, call>>
        /\ CtxDone => CtxDone'
    BY <1>4, ContextStays DEF SelectConfig
  <2> QED
    BY <2>1 DEF UndoInv, ConfigureUndone
<1>5. CASE ConfigNoRoute
  <2>1. UNCHANGED <<cpc, kpos, configRet>> /\ ~CreateSend
    BY <1>5 DEF ConfigNoRoute, CreateSend
  <2> QED
    BY <2>1, UndoFrame
<1>6. CASE CreateAck
  <2>1. cpc' \in {"sending", "create"}
    BY <1>6 DEF CreateAck
  <2>2. cpc' = "sending" => configRet' = Ok
    BY <1>6 DEF CreateAck
  <2>3. ConfigureUndone'
    BY <2>1, <2>2, UndoneLater DEF ConfigureUndone, Ok
  <2> QED
    BY <2>1, <2>3 DEF UndoInv
<1>7. CASE CreateErr
  <2>1. /\ cpc' = "rollback" /\ UNCHANGED <<kpos, call, parentDone, cancelled>>
        /\ cpc = "creating" \/ CtxDone
    BY <1>7 DEF CreateErr
  <2>2. ~CtxDone' => \A r \in Resource :
            r > kpos' /\ Configured(r)' # "unsent" => RolledBack(r)' # "unsent"
    BY <2>1 DEF PostInv, Configured, CtxDone
  <2>3. ConfigureUndone'
    BY <2>1, UndoneLater
  <2> QED
    BY <2>1, <2>2, <2>3 DEF UndoInv
<1>8. CASE RollbackSend
  <2>1. /\ cpc = "rollback" /\ cpc' = "rollingBack" /\ ~CtxDone
        /\ UNCHANGED <<kpos, parentDone, cancelled>>
        /\ kpos \in Resource /\ call' = [call EXCEPT ![<<"rollback", kpos>>] = "sent"]
    BY <1>8 DEF RollbackSend, Send, RollbackCall, TypeInv, TypeOK, Resource
  <2>2. \A r \in Resource : Configured(r)' = Configured(r)
    BY <2>1, PostSend
  <2>3. \A r \in Resource : r >= kpos => r > kpos \/ r = kpos
    BY <2>1 DEF Resource
  <2>4. \A r \in Resource : <<"rollback", r>> \in Call
    BY Pairs DEF Kind
  <2>5. RolledBack(kpos)' = "sent"
    BY <2>1, <2>4 DEF RolledBack, TypeInv, TypeOK
  <2>6. \A r \in Resource : RolledBack(r) # "unsent" => RolledBack(r)' # "unsent"
    BY <2>1, <2>4 DEF RolledBack, TypeInv, TypeOK
  <2>7. \A r \in Resource :
            r >= kpos /\ Configured(r)' # "unsent" => RolledBack(r)' # "unsent"
    BY <2>1, <2>2, <2>3, <2>5, <2>6 DEF UndoInv
  <2>8. ConfigureUndone'
    BY <2>1, UndoneLater
  <2> QED
    BY <2>1, <2>7, <2>8 DEF UndoInv
<1>9. CASE RollbackNext
  <2>1. /\ cpc' = "rollback" /\ kpos' = kpos - 1
        /\ UNCHANGED <<call, parentDone, cancelled>>
        /\ cpc = "rollingBack" \/ CtxDone
    BY <1>9 DEF RollbackNext
  <2>2. \A r \in Resource : r > kpos - 1 => r >= kpos
    BY DEF Resource, TypeInv, TypeOK
  <2>3. ~CtxDone' => \A r \in Resource :
            r > kpos' /\ Configured(r)' # "unsent" => RolledBack(r)' # "unsent"
    BY <2>1, <2>2 DEF UndoInv, Configured, RolledBack, CtxDone
  <2>4. ConfigureUndone'
    BY <2>1, UndoneLater
  <2> QED
    BY <2>1, <2>3, <2>4 DEF UndoInv
<1>10. CASE RollbackDone
  <2>1. /\ cpc = "rollback" /\ kpos = 0 /\ cpc' = "sending"
        /\ UNCHANGED <<call, parentDone, cancelled>>
    BY <1>10 DEF RollbackDone
  <2>2. \A r \in Resource : r > kpos
    BY <2>1 DEF Resource
  <2>3. ConfigureUndone'
    BY <2>1, <2>2 DEF UndoInv, ConfigureUndone, Configured, RolledBack, CtxDone
  <2> QED
    BY <2>1, <2>3 DEF UndoInv
<1> QED
  BY <1>1, <1>2, <1>3, <1>4, <1>5, <1>6, <1>7, <1>8, <1>9, <1>10
     DEF Next, Main, Configure

-----------------------------------------------------------------------------
LEMMA DeleteFrame ==
    ASSUME DeleteInv, UNCHANGED <<mpc, cpos, complaints, cpc, configRet, call, k8s>>
    PROVE  DeleteInv'
BY DEF DeleteInv, Deleted, Waiting

(* ConfigureK8s neither deletes for main nor is done until main says so.   *)
LEMMA DeleteConfigure ==
    ASSUME TypeInv, DeleteInv, Configure
    PROVE  DeleteInv'
<1>1. cpc' # "done" /\ UNCHANGED <<mpc, cpos, complaints>>
  <2>1. CASE CreateAck
    BY <2>1 DEF CreateAck
  <2>2. CASE ConfigNoRoute
    BY <2>2 DEF ConfigNoRoute, TypeInv, TypeOK
  <2>3. CASE \/ PollSend \/ PollNotReady \/ PollReady \/ CreateSend \/ CreateErr
             \/ RollbackSend \/ RollbackNext \/ RollbackDone
    BY <2>3 DEF PollSend, PollNotReady, PollReady, CreateSend, CreateErr,
                RollbackSend, RollbackNext, RollbackDone
  <2> QED
    BY <2>1, <2>2, <2>3 DEF Configure
<1>2. \A r \in Resource : Deleted(r)' = Deleted(r)
  <2>1. \A r \in Resource : <<"cleanup", r>> \in Call
    BY Pairs DEF Kind
  <2>2. call \in [Call -> CallState]
    BY DEF TypeInv, TypeOK
  <2>3. CASE CreateSend
    BY <2>1, <2>2, <2>3 DEF CreateSend, Send, ConfigureCall, Deleted
  <2>4. CASE RollbackSend
    BY <2>1, <2>2, <2>4 DEF RollbackSend, Send, RollbackCall, Deleted
  <2>5. CASE \/ ConfigNoRoute \/ PollSend \/ PollNotReady \/ PollReady \/ CreateAck
             \/ CreateErr \/ RollbackNext \/ RollbackDone
    BY <2>5 DEF ConfigNoRoute, PollSend, PollNotReady, PollReady, CreateAck,
                CreateErr, RollbackNext, RollbackDone, Deleted
  <2> QED
    BY <2>3, <2>4, <2>5 DEF Configure
<1> QED
  BY <1>1, <1>2 DEF DeleteInv, Waiting

(* What app-exposer accepts when ConfigureK8s has succeeded is a DELETE.   *)
LEMMA DeleteServer ==
    ASSUME TypeInv, PostInv, DeleteInv, Server
    PROVE  DeleteInv'
<1>1. PICK k \in Kind, p \in Resource :
          /\ call[<<k, p>>] = "sent"
          /\ call' = [call EXCEPT ![<<k, p>>] = "accepted"]
          /\ k8s' = IF k = "configure" THEN k8s \cup {p} ELSE k8s \ {p}
          /\ \A j \in Kind, q \in Resource :
                 call'[<<j, q>>] = IF j = k /\ q = p THEN "accepted" ELSE call[<<j, q>>]
  BY Accepted
<1>2. UNCHANGED <<mpc, cpos, complaints, cpc, configRet>>
  BY DEF Server, ServerAccepts
<1>3. ASSUME NEW q \in Resource
      PROVE  \/ Deleted(q)' = Deleted(q)
             \/ /\ k = "cleanup" /\ q = p
                /\ Deleted(q) = "sent" /\ Deleted(q)' = "accepted"
  <2>1. call'[<<"cleanup", q>>] =
            IF k = "cleanup" /\ q = p THEN "accepted" ELSE call[<<"cleanup", q>>]
    BY <1>1 DEF Kind
  <2>2. CASE k = "cleanup" /\ q = p
    BY <1>1, <2>1, <2>2 DEF Deleted
  <2>3. CASE ~(k = "cleanup" /\ q = p)
    BY <2>1, <2>3 DEF Deleted
  <2> QED
    BY <2>2, <2>3
<1>4. cpc = "done" /\ configRet = Ok => k8s' = k8s \ {p}
  <2>1. cpc = "done" /\ configRet = Ok => call[<<"configure", p>>] = "accepted"
    BY DEF PostInv, Configured
  <2> QED
    BY <1>1, <2>1
<1>5. Waiting => \A q \in Resource : Deleted(q)' = "unsent"
  BY <1>3 DEF DeleteInv
<1>6. cpc = "done" /\ configRet = Ok =>
          \A q \in Resource : Deleted(q)' = "accepted" => q \notin k8s'
  BY <1>3, <1>4 DEF DeleteInv
<1>7. cpc = "done" /\ configRet = Ok /\ complaints = {} =>
          \A q \in Resource : q < cpos => q \notin k8s'
  BY <1>4 DEF DeleteInv
<1> QED
  BY <1>2, <1>5, <1>6, <1>7 DEF DeleteInv, Waiting

LEMMA DeleteNext ==
    ASSUME TypeInv, SafeInv, PostInv, DeleteInv, [Next]_vars
    PROVE  DeleteInv'
<1> USE NumResourcesAssumption
<1>1. CASE StartStep
  <2>1. /\ mpc = "idle" /\ mpc' = "select" /\ cpc' = "start"
        /\ UNCHANGED <<cpos, complaints, call>>
    BY <1>1 DEF StartStep
  <2> QED
    BY <2>1 DEF DeleteInv, Waiting, Deleted
<1>2. CASE SelectExec \/ SelectDone
  <2>1. /\ mpc' = "cleanup"
        /\ UNCHANGED <<cpos, complaints, cpc, configRet, call, k8s>>
    BY <1>2 DEF SelectExec, SelectDone, EndWait
  <2> QED
    BY <2>1 DEF DeleteInv, Waiting, Deleted
<1>3. CASE SelectConfig
  <2>1. /\ mpc = "select" /\ mpc' \in {"select", "cleanup"}
        /\ UNCHANGED <<cpos, complaints, call, k8s>>
    BY <1>3 DEF SelectConfig, EndWait
  <2>2. cpos = 1 /\ \A r \in Resource : Deleted(r) = "unsent"
    BY <2>1 DEF DeleteInv, Waiting
  <2>3. \A r \in Resource : ~(r < 1)
    BY DEF Resource
  <2> QED
    BY <2>1, <2>2, <2>3 DEF DeleteInv, Waiting, Deleted
<1>4. CASE CleanupSend
  <2>1. /\ mpc' = "deleting" /\ cpos \in Resource
        /\ call' = [call EXCEPT ![<<"cleanup", cpos>>] = "sent"]
        /\ UNCHANGED <<cpos, complaints, cpc, configRet, k8s>>
    BY <1>4 DEF CleanupSend, Send, CleanupCall, CleanupDone, Resource, TypeInv, TypeOK
  <2>2. \A r \in Resource : <<"cleanup", r>> \in Call
    BY Pairs DEF Kind
  <2>3. \A r \in Resource : Deleted(r)' = "accepted" => Deleted(r) = "accepted"
    BY <2>1, <2>2 DEF Deleted, TypeInv, TypeOK
  <2> QED
    BY <2>1, <2>3 DEF DeleteInv, Waiting
<1>5. CASE CleanupAck
  <2>1. /\ Deleted(cpos) = "accepted" /\ cpos \in Resource
        /\ mpc' = "cleanup" /\ cpos' = cpos + 1
        /\ UNCHANGED <<complaints, cpc, configRet, call, k8s>>
    BY <1>5 DEF CleanupAck, CleanupCall, Deleted, Resource, TypeInv, TypeOK, InRange
  <2>2. \A r \in Resource : r < cpos + 1 => r < cpos \/ r = cpos
    BY <2>1 DEF Resource
  <2> QED
    BY <2>1, <2>2 DEF DeleteInv, Waiting, Deleted
<1>6. CASE CleanupErr
  <2>1. /\ mpc' = "complaining" /\ complaints' # {}
        /\ UNCHANGED <<cpos, cpc, configRet, call, k8s>>
    BY <1>6 DEF CleanupErr
  <2> QED
    BY <2>1 DEF DeleteInv, Waiting, Deleted
<1>7. CASE CleanupReports
  <2>1. CASE err = "nil"
    <3>1. UNCHANGED <<mpc, cpos, complaints, cpc, configRet, call, k8s>>
      BY <1>7, <2>1 DEF CleanupReports, NilError
    <3> QED
      BY <3>1, DeleteFrame
  <2>2. CASE err # "nil"
    <3>1. /\ mpc = "complaining" /\ mpc' = "cleanup"
          /\ UNCHANGED <<complaints, cpc, configRet, call, k8s>>
      BY <1>7, <2>2 DEF CleanupReports, NilError
    <3>2. complaints' # {}
      BY <3>1 DEF DeleteInv
    <3> QED
      BY <3>1, <3>2 DEF DeleteInv, Waiting, Deleted
  <2> QED
    BY <2>1, <2>2
<1>8. CASE Return
  <2>1. /\ mpc' = "returned" /\ cpos > NumResources
        /\ UNCHANGED <<cpos, complaints, cpc, configRet, call, k8s>>
    BY <1>8 DEF Return, CleanupDone
  <2> QED
    BY <2>1 DEF DeleteInv, Waiting, Deleted
<1>9. CASE Proxy \/ Step \/ CancelParent \/ Orphan \/ UNCHANGED vars
  BY <1>9, DeleteFrame DEF Proxy, ProxyStart, ProxyFails, ProxyReports, ProxyExits,
       Step, StepStart, StepFails, StepReportsError, StepSendsError, StepExits,
       StepReportsSuccess, CancelParent, Orphan, OrphanEnds, vars
<1>10. CASE Configure
  BY <1>10, DeleteConfigure
<1>11. CASE Server
  BY <1>11, DeleteServer
<1> QED
  BY <1>1, <1>2, <1>3, <1>4, <1>5, <1>6, <1>7, <1>8, <1>9, <1>10, <1>11 DEF Next, Main

-----------------------------------------------------------------------------
LEMMA OutputNext ==
    ASSUME TypeInv, SafeInv, OutputInv, [Next]_vars
    PROVE  OutputInv'
<1> USE DEF OutputInv, StepClientFailed
<1>1. CASE StartStep
  BY <1>1 DEF StartStep, SafeInv, NothingBeforeStart
<1>2. CASE SelectExec
  BY <1>2 DEF SelectExec, EndWait, SafeInv, WhyEnded, Waiting
<1>3. CASE SelectConfig
  <2>1. mpc = "select" /\ UNCHANGED <<parentDone, step, execRet, containers>>
    BY <1>3 DEF SelectConfig
  <2>2. exitBy = "none" /\ exitBy' \in {"none", "config"}
    BY <1>3, <2>1 DEF SelectConfig, EndWait, SafeInv, WhyEnded, Waiting
  <2> QED
    BY <2>1, <2>2
<1>4. CASE SelectDone
  <2>1. mpc = "select" /\ CtxDone /\ UNCHANGED <<parentDone, step, execRet, containers>>
    BY <1>4 DEF SelectDone
  <2>2. parentDone
    BY <2>1 DEF CtxDone, SafeInv, WhyEnded, Waiting
  <2> QED
    BY <2>1, <2>2
<1>5. CASE \/ CleanupSend \/ CleanupAck \/ CleanupErr \/ CleanupReports \/ Return
  BY <1>5 DEF CleanupSend, CleanupAck, CleanupErr, CleanupReports, Return
<1>6. CASE Proxy
  <2>1. /\ "step" \in containers' <=> "step" \in containers
        /\ UNCHANGED <<exitBy, parentDone, step, execRet>>
    BY <1>6 DEF Proxy, ProxyStart, ProxyFails, ProxyReports, ProxyExits
  <2> QED
    BY <2>1
<1>7. CASE StepStart
  BY <1>7 DEF StepStart
<1>8. CASE StepFails
  <2>1. step' = "errored" /\ UNCHANGED <<exitBy, parentDone>>
    BY <1>8 DEF StepFails
  <2>2. StepClientFailed'
    BY <1>8 DEF StepFails, StepClientFailed, TypeInv, TypeOK, AsyncReturn
  <2> QED
    BY <2>1, <2>2
<1>9. CASE StepReportsError \/ StepSendsError \/ StepReportsSuccess
  <2>1. UNCHANGED <<exitBy, parentDone, containers>> /\ step \notin {"idle", "starting", "up"}
    BY <1>9 DEF StepReportsError, StepSendsError, StepReportsSuccess
  <2>2. execRet'.status = execRet.status
    BY <1>9 DEF StepReportsError, StepSendsError, StepReportsSuccess, TypeInv, TypeOK,
                AsyncReturn
  <2>3. step' \notin {"idle", "starting", "up"}
    BY <1>9, <2>1 DEF StepReportsError, StepSendsError, StepReportsSuccess, NilError
  <2> QED
    BY <2>1, <2>2, <2>3
<1>10. CASE StepExits
  BY <1>10 DEF StepExits
<1>11. CASE Configure
  BY <1>11 DEF Configure, ConfigNoRoute, PollSend, PollNotReady, PollReady,
               CreateSend, CreateAck, CreateErr, RollbackSend, RollbackNext, RollbackDone
<1>12. CASE CancelParent \/ Server \/ Orphan \/ UNCHANGED vars
  BY <1>12 DEF CancelParent, Server, ServerAccepts, Orphan, OrphanEnds, vars
<1> QED
  BY <1>1, <1>2, <1>3, <1>4, <1>5, <1>6, <1>7, <1>8, <1>9, <1>10, <1>11, <1>12
     DEF Next, Main, Step

-----------------------------------------------------------------------------
LEMMA ResourceNext ==
    ASSUME TypeInv, SafeInv, ResourceInv, [Next]_vars
    PROVE  ResourceInv'
<1>1. PostInv /\ UndoInv /\ DeleteInv /\ OutputInv
  BY DEF ResourceInv
<1>2. SafeInv'
  BY SafeNext
<1>3. PostInv'
  BY <1>1, PostNext
<1>4. UndoInv'
  BY <1>1, <1>2, UndoNext
<1>5. DeleteInv'
  BY <1>1, DeleteNext
<1>6. OutputInv'
  BY <1>1, OutputNext
<1> QED
  BY <1>3, <1>4, <1>5, <1>6 DEF ResourceInv

(* What is known of the requests, of the resources and of the step's       *)
(* container holds in every reachable state.                               *)
THEOREM ResourcesSafe == Spec => [](TypeInv /\ SafeInv /\ ResourceInv)
<1>1. Init => TypeInv /\ SafeInv /\ ResourceInv
  BY TypeInit, SafeInit, ResourceInit
<1>2. TypeInv /\ SafeInv /\ ResourceInv /\ [Next]_vars => ResourceInv'
  BY ResourceNext
<1>3. TypeInv /\ SafeInv /\ [Next]_vars => (TypeInv /\ SafeInv)'
  BY TypeNext, SafeNext
<1> QED
  BY <1>1, <1>2, <1>3, PTL DEF Spec

(* app-exposer never creates a resource before those it leads to.          *)
THEOREM ResourcesInOrder == Spec => []CreatedInOrder
<1>1. TypeInv /\ ResourceInv => CreatedInOrder
  <2> SUFFICES ASSUME TypeInv, PostInv, NEW r \in k8s, NEW q \in 1..r
               PROVE  call[<<"configure", q>>] = "accepted"
    BY DEF CreatedInOrder, ResourceInv
  <2>1. r \in Resource /\ q \in Resource /\ (q < r \/ q = r)
    BY NumResourcesAssumption DEF TypeInv, TypeOK, Resource
  <2>2. Configured(r) = "accepted"
    BY DEF PostInv
  <2> QED
    BY <2>1, <2>2 DEF PostInv, Configured
<1> QED
  BY <1>1, ResourcesSafe, PTL

(* A configuration that fails while the job goes on is undone.             *)
THEOREM FailureIsUndone == Spec => []ConfigureUndone
<1>1. ResourceInv => ConfigureUndone
  BY DEF ResourceInv, UndoInv
<1> QED
  BY <1>1, ResourcesSafe, PTL

(* Nothing stays in the cluster after a clean end.                         *)
THEOREM NothingIsLeft == Spec => []NoLeftovers
<1>1. TypeInv /\ ResourceInv => NoLeftovers
  <2> SUFFICES ASSUME TypeInv, DeleteInv, mpc = "returned", cpc = "done",
                      configRet = Ok, complaints = {}
               PROVE  k8s = {}
    BY DEF NoLeftovers, ResourceInv
  <2>1. cpos > NumResources /\ \A r \in Resource : r < cpos => r \notin k8s
    BY DEF DeleteInv
  <2>2. \A r \in Resource : r < cpos
    BY <2>1, NumResourcesAssumption DEF Resource, TypeInv, TypeOK
  <2>3. k8s \subseteq Resource
    BY DEF TypeInv, TypeOK
  <2> QED
    BY <2>1, <2>2, <2>3
<1> QED
  BY <1>1, ResourcesSafe, PTL

(* Once the wait for it has ended, the container of the step runs on only  *)
(* for a reason.                                                           *)
LEMMA WhyOutlives ==
    ASSUME TypeInv, SafeInv, OutputInv, mpc = "returned", "step" \in containers
    PROVE  StepOutlives
<1>1. exitBy \in {"exec", "config", "context"}
  BY DEF SafeInv, WhyEnded, Waiting, TypeInv, TypeOK
<1>2. CASE exitBy = "config"
  BY <1>2 DEF StepOutlives
<1>3. CASE exitBy = "context"
  <2>1. parentDone /\ result = StepFailed
    BY <1>3 DEF OutputInv, SafeInv, ResultInv
  <2> QED
    BY <2>1 DEF StepOutlives, StepFailed
<1>4. CASE exitBy = "exec"
  <2>1. step = "done"
    BY <1>4 DEF SafeInv, WhyEnded
  <2>2. StepClientFailed
    BY <2>1 DEF OutputInv
  <2>3. result \in {Ok, StepFailed}
    BY DEF SafeInv, ResultInv
  <2>4. CASE result = StepFailed
    BY <2>2, <2>4 DEF StepOutlives, StepFailed
  <2>5. CASE result = Ok
    <3>1. ~result.err
      BY <2>5 DEF Ok
    <3>2. ~StepSucceeded
      BY <2>2 DEF StepClientFailed, StepSucceeded
    <3>3. proxy = "exited"
      BY <3>1, <3>2, <1>4 DEF SafeInv, SuccessExplained
    <3> QED
      BY <2>2, <3>3 DEF StepOutlives
  <2> QED
    BY <2>3, <2>4, <2>5
<1> QED
  BY <1>1, <1>2, <1>3, <1>4

(* When runAllSteps returns, the outputs are complete or the step is known *)
(* to have failed, but for a wait that ended with the answer of            *)
(* ConfigureK8s and an error that the proxy's exit erased.                 *)
THEOREM OutputsAreFinished == Spec => []OutputsFinished
<1>1. TypeInv /\ SafeInv /\ ResourceInv => OutputsFinished
  BY WhyOutlives DEF OutputsFinished, ResourceInv
<1> QED
  BY <1>1, ResourcesSafe, PTL

-----------------------------------------------------------------------------
(***************************************************************************)
(* Refinement: every step of runAllSteps is one of the contract, or none.  *)
(***************************************************************************)
LEMMA ContractInit == Init => Contract!Init
BY DEF Init, Contract!Init, phaseBar, resultBar, NoReturn, Contract!NoReturn

LEMMA Stutter ==
    ASSUME UNCHANGED <<parentDone, proc, upstream, bornDone, mpc, result>>
    PROVE  UNCHANGED Contract!vars
BY DEF Contract!vars, phaseBar, resultBar

(* A step inside runAllSteps, or after it, is hidden from its caller.      *)
LEMMA Internal ==
    ASSUME UNCHANGED <<parentDone, proc, upstream, bornDone>>,
           mpc \notin {"idle", "returned"}, mpc' \notin {"idle", "returned"}
    PROVE  UNCHANGED Contract!vars
BY DEF Contract!vars, phaseBar, resultBar

LEMMA ReportStep ==
    ASSUME mpc # "idle", mpc' # "idle", mpc = "returned" <=> mpc' = "returned",
           proc = "up", upstream' = "Running",
           mpc = "returned" => result' = result,
           UNCHANGED <<parentDone, proc, bornDone>>
    PROVE  Contract!Report
BY DEF Contract!Report, phaseBar, resultBar

LEMMA DieStep ==
    ASSUME mpc # "idle", proc = "up", proc' \in {"panic", "fatal"},
           UNCHANGED <<parentDone, upstream, bornDone, mpc, result>>
    PROVE  Contract!Die
BY DEF Contract!Die, phaseBar, resultBar

LEMMA ContractNext ==
    ASSUME TypeInv, SafeInv, [Next]_vars
    PROVE  [Contract!Next]_(Contract!vars)
<1> USE DEF Up
<1>0. mpc = "idle" =>
        /\ proxy = "idle" /\ step = "idle" /\ cpc = "idle" /\ ~cancelled
  BY DEF SafeInv, NothingBeforeStart, WhyEnded, Waiting
<1>1. CASE StartStep
  <2>1. mpc = "idle" /\ mpc' = "select"
    BY <1>1 DEF StartStep
  <2>2. CtxDone = parentDone
    BY <1>0, <2>1 DEF CtxDone, TypeInv, TypeOK
  <2>3. phaseBar = "idle" /\ phaseBar' = "running" /\ UNCHANGED resultBar
    BY <2>1 DEF phaseBar, resultBar
  <2>4. Contract!Call
    BY <1>1, <2>2, <2>3 DEF StartStep, Publish, Contract!Call
  <2> QED
    BY <2>4 DEF Contract!Next
<1>2. CASE SelectExec \/ SelectConfig \/ SelectDone
  BY <1>2, Internal DEF SelectExec, SelectConfig, SelectDone, EndWait
<1>3. CASE CleanupSend \/ CleanupAck \/ CleanupErr
  BY <1>3, Internal DEF CleanupSend, CleanupAck, CleanupErr
<1>4. CASE CleanupReports
  <2>1. CASE err # "nil"
    <3>1. Contract!Report
      BY <1>4, <1>0, <2>1, ReportStep DEF CleanupReports, NilError, Publish
    <3> QED
      BY <3>1 DEF Contract!Next
  <2>2. CASE err = "nil"
    <3>1. Contract!Die
      BY <1>4, <1>0, <2>2, DieStep DEF CleanupReports, NilError
    <3> QED
      BY <3>1 DEF Contract!Next
  <2> QED
    BY <2>1, <2>2
<1>5. CASE Return
  <2>1. result \in {Ok, StepFailed, NilSuccess}
    BY <1>5 DEF Return, SafeInv, WhyEnded, ExecResult, ConfigResult, ResultInv,
               Waiting, TypeInv, TypeOK
  <2>2. ReturnValue \in {Ok, StepFailed}
    BY <2>1 DEF ReturnValue, Ok, StepFailed, NilSuccess
  <2>3. bornDone => ReturnValue = StepFailed
    BY <1>5, SafeNext DEF SafeInv, StoppedBeforeStep, Return
  <2>4. Contract!Return
    BY <1>5, <2>2, <2>3 DEF Return, Contract!Return, phaseBar, resultBar, Ok,
      StepFailed, Contract!Ok, Contract!StepFailed
  <2> QED
    BY <2>4 DEF Contract!Next
<1>6. CASE ProxyReports
  <2>1. CASE err # "nil"
    <3>1. Contract!Report
      BY <1>6, <1>0, <2>1, ReportStep DEF ProxyReports, NilError, Publish
    <3> QED
      BY <3>1 DEF Contract!Next
  <2>2. CASE err = "nil"
    <3>1. Contract!Die
      BY <1>6, <1>0, <2>2, DieStep DEF ProxyReports, NilError
    <3> QED
      BY <3>1 DEF Contract!Next
  <2> QED
    BY <2>1, <2>2
<1>7. CASE StepReportsError
  <2>1. CASE err # "nil"
    <3>1. Contract!Report
      BY <1>7, <1>0, <2>1, ReportStep DEF StepReportsError, mainVars, NilError, Publish
    <3> QED
      BY <3>1 DEF Contract!Next
  <2>2. CASE err = "nil"
    <3>1. Contract!Die
      BY <1>7, <1>0, <2>2, DieStep DEF StepReportsError, mainVars, NilError
    <3> QED
      BY <3>1 DEF Contract!Next
  <2> QED
    BY <2>1, <2>2
<1>8. CASE StepReportsSuccess
  <2>1. Contract!Report
    BY <1>8, <1>0, ReportStep DEF StepReportsSuccess, Publish
  <2> QED
    BY <2>1 DEF Contract!Next
<1>9. CASE CreateErr
  <2>1. Contract!Report
    BY <1>9, <1>0, ReportStep DEF CreateErr, Publish
  <2> QED
    BY <2>1 DEF Contract!Next
<1>10. CASE ConfigNoRoute
  <2>1. Contract!Die
    BY <1>10, <1>0, DieStep DEF ConfigNoRoute
  <2> QED
    BY <2>1 DEF Contract!Next
<1>11. CASE CancelParent
  <2>1. Contract!Cancel
    BY <1>11 DEF CancelParent, Contract!Cancel, phaseBar, resultBar
  <2> QED
    BY <2>1 DEF Contract!Next
<1>12. CASE ProxyStart \/ ProxyFails \/ ProxyExits
  BY <1>12, Stutter DEF ProxyStart, ProxyFails, ProxyExits
<1>13. CASE StepStart \/ StepFails \/ StepSendsError \/ StepExits
  BY <1>13, Stutter DEF StepStart, StepFails, StepSendsError, StepExits
<1>14. CASE \/ PollSend \/ PollNotReady \/ PollReady \/ CreateSend \/ CreateAck
           \/ RollbackSend \/ RollbackNext \/ RollbackDone
  BY <1>14, Stutter DEF PollSend, PollNotReady, PollReady, CreateSend, CreateAck,
                      RollbackSend, RollbackNext, RollbackDone
<1>15. CASE Server \/ Orphan \/ UNCHANGED vars
  BY <1>15, Stutter DEF Server, ServerAccepts, Orphan, OrphanEnds, vars
<1> QED
  BY <1>1, <1>2, <1>3, <1>4, <1>5, <1>6, <1>7, <1>8, <1>9, <1>10, <1>11, <1>12, <1>13, <1>14, <1>15
     DEF Next, Main, Proxy, Step, Configure

(* runAllSteps keeps the contract its caller relies on.                    *)
THEOREM Refinement == Spec => KeepsContract
<1>1. Init => Contract!Init
  BY ContractInit
<1>2. TypeInv /\ SafeInv /\ [Next]_vars => [Contract!Next]_(Contract!vars)
  BY ContractNext
<1> QED
  BY <1>1, <1>2, Safe, PTL DEF Spec, KeepsContract, Contract!Spec
=============================================================================
