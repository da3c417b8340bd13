-------------------------- MODULE ConnectionProofs --------------------------
(* The proof that IndInv is an invariant of Connection, for any number of  *)
(* connects and of pending commands, in a build with assertions or         *)
(* without, and what follows from it.                                      *)
EXTENDS ConnectionInvariant, TLAPS

LEMMA InitIndInv == Init => IndInv
  <1> SUFFICES ASSUME Init PROVE IndInv
    OBVIOUS
  <1>1. FlagTypeOK
    BY DEF Init, FlagTypeOK
  <1>2. ControlTypeOK
    BY ConnectionAssumption DEF Init, ControlTypeOK
  <1>3. LoopInv /\ HaltInv /\ OwnerInv /\ ContextInv /\ OrphanInv
    BY DEF Init, LoopInv, HaltInv, OwnerInv, ContextInv, OrphanInv, InOnConnect,
           InOnDisconnect, InOrphan
  <1>4. FlagInv /\ FailureInv /\ MessageInv /\ OnlyFailuresCrash
    BY DEF Init, FlagInv, FailureInv, MessageInv, OnlyFailuresCrash, InOnConnect,
           InOnDisconnect
  <1> QED
    BY <1>1, <1>2, <1>3, <1>4 DEF IndInv, TypeOK

LEMMA LossIsBoolean == StoreDisconnected => connection_lost' \in BOOLEAN
  BY SMT DEF StoreDisconnected

LEMMA NextIndInv == IndInv /\ [Next]_vars => IndInv'
  <1> SUFFICES ASSUME IndInv, [Next]_vars PROVE IndInv'
    OBVIOUS
  <1> USE ConnectionAssumption
      DEF IndInv, TypeOK, FlagTypeOK, ControlTypeOK, LoopInv, HaltInv, OwnerInv,
          ContextInv, OrphanInv, FlagInv, FailureInv, MessageInv, OnlyFailuresCrash,
          InOnConnect, InOnDisconnect, InOrphan, userVars, flagVars, asyncVars,
          loopVars, serverVars, contextVars, netVars, sharedVars, Goto
  <1>1. CASE ConnectThrows
    <2> USE <1>1 DEF ConnectThrows, MayConnect, UserAt
    <2>1. FlagTypeOK'
      BY Zenon
    <2>2. ControlTypeOK'
      OBVIOUS
    <2>3. LoopInv'
      OBVIOUS
    <2>4. HaltInv'
      OBVIOUS
    <2>5. OwnerInv'
      OBVIOUS
    <2>6. ContextInv'
      OBVIOUS
    <2>7. OrphanInv'
      OBVIOUS
    <2>8. FailureInv'
      OBVIOUS
    <2>9. OnlyFailuresCrash'
      OBVIOUS
    <2>10. ~overlap' => FlagInv' /\ MessageInv'
      OBVIOUS
    <2> QED
      BY <2>1, <2>2, <2>3, <2>4, <2>5, <2>6, <2>7, <2>8, <2>9, <2>10
  <1>2. CASE Connect
    <2> USE <1>2 DEF Connect, MayConnect, NewContext, UserAt
    <2>1. FlagTypeOK'
      BY Zenon
    <2>2. ControlTypeOK'
      OBVIOUS
    <2>3. LoopInv'
      OBVIOUS
    <2>4. HaltInv'
      OBVIOUS
    <2>5. OwnerInv'
      OBVIOUS
    <2>6. ContextInv'
      OBVIOUS
    <2>7. OrphanInv'
      OBVIOUS
    <2>8. FailureInv'
      OBVIOUS
    <2>9. OnlyFailuresCrash'
      OBVIOUS
    <2>10. ~overlap' => FlagInv' /\ MessageInv'
      OBVIOUS
    <2> QED
      BY <2>1, <2>2, <2>3, <2>4, <2>5, <2>6, <2>7, <2>8, <2>9, <2>10
  <1>3. CASE CallWaitForConnect
    BY <1>3 DEF CallWaitForConnect, UserAt
  <1>4. CASE CallWaitForDisconnect
    BY <1>4 DEF CallWaitForDisconnect, UserAt
  <1>5. CASE IsConnected
    BY <1>5 DEF IsConnected, Dangling, Crash, UserAt
  <1>6. CASE RunCommand
    BY <1>6 DEF RunCommand, UserAt
  <1>7. CASE DisconnectEarly
    BY <1>7 DEF DisconnectEarly, CallDisconnect, UserAt
  <1>8. CASE Disconnect
    <2> USE <1>8 DEF Disconnect, CallDisconnect, UserAt
    <2>1. FlagTypeOK'
      BY Zenon
    <2>2. ControlTypeOK'
      OBVIOUS
    <2>3. LoopInv'
      OBVIOUS
    <2>4. HaltInv'
      OBVIOUS
    <2>5. OwnerInv'
      OBVIOUS
    <2>6. ContextInv'
      OBVIOUS
    <2>7. OrphanInv'
      OBVIOUS
    <2>8. FailureInv'
      OBVIOUS
    <2>9. OnlyFailuresCrash'
      OBVIOUS
    <2>10. ~overlap' => FlagInv' /\ MessageInv'
      OBVIOUS
    <2> QED
      BY <2>1, <2>2, <2>3, <2>4, <2>5, <2>6, <2>7, <2>8, <2>9, <2>10
  <1>9. CASE TestWakeup
    BY <1>9 DEF TestWakeup, UserAt
  <1>10. CASE WakeLoop
    BY <1>10 DEF WakeLoop, UserAt
  <1>11. CASE CheckConnect
    BY <1>11 DEF CheckConnect, UserAt
  <1>12. CASE CheckDisconnect
    BY <1>12 DEF CheckDisconnect, UserAt
  <1>13. CASE Park
    <2>1. CASE Goto("connect_park", "connect_asleep")
      BY <2>1 DEF UserAt
    <2>2. CASE Goto("disconnect_park", "disconnect_asleep")
      BY <2>2 DEF UserAt
    <2> QED
      BY <1>13, <2>1, <2>2 DEF Park
  <1>14. CASE SendHaltAndReset
    <2> USE <1>14 DEF SendHaltAndReset, DisconnectContext, FreesAtOnce, OnDisconnectAsserts, UserAt
    <2>1. FlagTypeOK'
      BY Zenon
    <2>2. ControlTypeOK'
      OBVIOUS
    <2>3. LoopInv'
      OBVIOUS
    <2>4. HaltInv'
      OBVIOUS
    <2>5. OwnerInv'
      OBVIOUS
    <2>6. ContextInv'
      OBVIOUS
    <2>7. OrphanInv'
      OBVIOUS
    <2>8. FailureInv'
      OBVIOUS
    <2>9. OnlyFailuresCrash'
      OBVIOUS
    <2>10. ~overlap' => FlagInv' /\ MessageInv'
      OBVIOUS
    <2> QED
      BY <2>1, <2>2, <2>3, <2>4, <2>5, <2>6, <2>7, <2>8, <2>9, <2>10
  <1>15. CASE ResetFreedContext
    BY <1>15 DEF ResetFreedContext, Dangling, Crash, UserAt
  <1>16. CASE ResetAsserts
    BY <1>16 DEF ResetAsserts, FreesAtOnce, OnDisconnectAsserts, Crash, UserAt
  <1>17. CASE Join
    BY <1>17 DEF Join, UserAt
  <1>18. CASE Destroy
    BY <1>18 DEF Destroy, UserAt
  <1>19. CASE DestroyFails
    BY <1>19 DEF DestroyFails, Dangling, Crash, UserAt
  <1>20. CASE StartLoop
    <2> USE <1>20 DEF StartLoop, LoopAt
    <2>1. FlagTypeOK'
      BY Zenon
    <2>2. ControlTypeOK'
      OBVIOUS
    <2>3. LoopInv'
      OBVIOUS
    <2>4. HaltInv'
      OBVIOUS
    <2>5. OwnerInv'
      OBVIOUS
    <2>6. ContextInv'
      OBVIOUS
    <2>7. OrphanInv'
      OBVIOUS
    <2>8. FailureInv'
      OBVIOUS
    <2>9. OnlyFailuresCrash'
      OBVIOUS
    <2>10. ~overlap' => FlagInv' /\ MessageInv'
      OBVIOUS
    <2> QED
      BY <2>1, <2>2, <2>3, <2>4, <2>5, <2>6, <2>7, <2>8, <2>9, <2>10
  <1>21. CASE EnterPoll
    BY <1>21 DEF EnterPoll, LoopAt
  <1>22. CASE PollReturns
    BY <1>22 DEF PollReturns, SocketEvent, LoopAt
  <1>23. CASE AcquireMutex
    BY <1>23 DEF AcquireMutex, LoopAt
  <1>24. CASE HandleHalt
    <2> USE <1>24 DEF HandleHalt, LoopAt
    <2>1. FlagTypeOK'
      BY Zenon
    <2>2. ControlTypeOK'
      OBVIOUS
    <2>3. LoopInv'
      OBVIOUS
    <2>4. HaltInv'
      OBVIOUS
    <2>5. OwnerInv'
      OBVIOUS
    <2>6. ContextInv'
      OBVIOUS
    <2>7. OrphanInv'
      OBVIOUS
    <2>8. FailureInv'
      OBVIOUS
    <2>9. OnlyFailuresCrash'
      OBVIOUS
    <2>10. ~overlap' => FlagInv' /\ MessageInv'
      OBVIOUS
    <2> QED
      BY <2>1, <2>2, <2>3, <2>4, <2>5, <2>6, <2>7, <2>8, <2>9, <2>10
  <1>25. CASE HandleWakeup
    <2> USE <1>25 DEF HandleWakeup, LoopAt
    <2>1. FlagTypeOK'
      BY Zenon
    <2>2. ControlTypeOK'
      OBVIOUS
    <2>3. LoopInv'
      OBVIOUS
    <2>4. HaltInv'
      OBVIOUS
    <2>5. OwnerInv'
      OBVIOUS
    <2>6. ContextInv'
      OBVIOUS
    <2>7. OrphanInv'
      OBVIOUS
    <2>8. FailureInv'
      OBVIOUS
    <2>9. OnlyFailuresCrash'
      OBVIOUS
    <2>10. ~overlap' => FlagInv' /\ MessageInv'
      OBVIOUS
    <2> QED
      BY <2>1, <2>2, <2>3, <2>4, <2>5, <2>6, <2>7, <2>8, <2>9, <2>10
  <1>26. CASE HandleConnect
    <2> USE <1>26 DEF HandleConnect, SocketReady, LoopAt
    <2>1. FlagTypeOK'
      BY Zenon
    <2>2. ControlTypeOK'
      OBVIOUS
    <2>3. LoopInv'
      OBVIOUS
    <2>4. HaltInv'
      OBVIOUS
    <2>5. OwnerInv'
      OBVIOUS
    <2>6. ContextInv'
      OBVIOUS
    <2>7. OrphanInv'
      OBVIOUS
    <2>8. FailureInv'
      OBVIOUS
    <2>9. OnlyFailuresCrash'
      OBVIOUS
    <2>10. ~overlap' => FlagInv' /\ MessageInv'
      OBVIOUS
    <2> QED
      BY <2>1, <2>2, <2>3, <2>4, <2>5, <2>6, <2>7, <2>8, <2>9, <2>10
  <1>27. CASE HandleRead
    BY <1>27 DEF HandleRead, SocketReady, LoopAt
  <1>28. CASE HandleEndOfFile
    BY <1>28 DEF HandleEndOfFile, SocketReady, LoopAt
  <1>29. CASE SocketGone
    BY <1>29 DEF SocketGone, SocketReady, LoopAt
  <1>30. CASE HandleOrphan
    BY <1>30 DEF HandleOrphan, LoopAt
  <1>31. CASE EndDispatch
    BY <1>31 DEF EndDispatch, LoopAt
  <1>32. CASE StoreConnected
    <2> USE <1>32 DEF StoreConnected, CbAt
    <2>1. FlagTypeOK'
      BY Zenon
    <2>2. ControlTypeOK'
      OBVIOUS
    <2>3. LoopInv'
      OBVIOUS
    <2>4. HaltInv'
      OBVIOUS
    <2>5. OwnerInv'
      OBVIOUS
    <2>6. ContextInv'
      OBVIOUS
    <2>7. OrphanInv'
      OBVIOUS
    <2>8. FailureInv'
      OBVIOUS
    <2>9. OnlyFailuresCrash'
      OBVIOUS
    <2>10. ~overlap' => FlagInv' /\ MessageInv'
      OBVIOUS
    <2> QED
      BY <2>1, <2>2, <2>3, <2>4, <2>5, <2>6, <2>7, <2>8, <2>9, <2>10
  <1>33. CASE PublishConnect
    BY <1>33 DEF PublishConnect, CbAt
  <1>34. CASE StoreMessage
    BY <1>34 DEF StoreMessage, CbAt
  <1>35. CASE NotifyConnected
    BY <1>35 DEF NotifyConnected, Notify, CbAt
  <1>36. CASE StoreDisconnected
    <2>1. FlagTypeOK'
      BY <1>36, LossIsBoolean DEF StoreDisconnected
    <2> USE <1>36 DEF StoreDisconnected, OnDisconnectEntered, OnDisconnectAsserts, CbAt
    <2>2. ControlTypeOK'
      OBVIOUS
    <2>3. LoopInv'
      OBVIOUS
    <2>4. HaltInv'
      OBVIOUS
    <2>5. OwnerInv'
      OBVIOUS
    <2>6. ContextInv'
      OBVIOUS
    <2>7. OrphanInv'
      OBVIOUS
    <2>8. FailureInv'
      OBVIOUS
    <2>9. OnlyFailuresCrash'
      OBVIOUS
    <2>10. ~overlap' => FlagInv' /\ MessageInv'
      OBVIOUS
    <2> QED
      BY <2>1, <2>2, <2>3, <2>4, <2>5, <2>6, <2>7, <2>8, <2>9, <2>10
  <1>37. CASE OnDisconnectFails
    BY <1>37 DEF OnDisconnectFails, OnDisconnectEntered, OnDisconnectAsserts, Crash, CbAt
  <1>38. CASE PublishDisconnect
    <2> USE <1>38 DEF PublishDisconnect, CbAt
    <2>1. FlagTypeOK'
      BY Zenon
    <2>2. ControlTypeOK'
      OBVIOUS
    <2>3. LoopInv'
      OBVIOUS
    <2>4. HaltInv'
      OBVIOUS
    <2>5. OwnerInv'
      OBVIOUS
    <2>6. ContextInv'
      OBVIOUS
    <2>7. OrphanInv'
      OBVIOUS
    <2>8. FailureInv'
      OBVIOUS
    <2>9. OnlyFailuresCrash'
      OBVIOUS
    <2>10. ~overlap' => FlagInv' /\ MessageInv'
      OBVIOUS
    <2> QED
      BY <2>1, <2>2, <2>3, <2>4, <2>5, <2>6, <2>7, <2>8, <2>9, <2>10
  <1>39. CASE NotifyDisconnected
    BY <1>39 DEF NotifyDisconnected, Notify, CbAt
  <1>40. CASE SpuriousWakeup
    <2>1. CASE Goto("connect_asleep", "connect_check")
      BY <2>1 DEF UserAt
    <2>2. CASE Goto("disconnect_asleep", "disconnect_check")
      BY <2>2 DEF UserAt
    <2> QED
      BY <1>40, <2>1, <2>2 DEF SpuriousWakeup
  <1>41. CASE Server
    BY <1>41 DEF Server
  <1>42. CASE ServerCloses
    BY <1>42 DEF ServerCloses
  <1>43. CASE UNCHANGED vars
    BY <1>43 DEF vars
  <1> QED
    BY <1>1, <1>2, <1>3, <1>4, <1>5, <1>6, <1>7, <1>8, <1>9, <1>10,
       <1>11, <1>12, <1>13, <1>14, <1>15, <1>16, <1>17, <1>18, <1>19, <1>20,
       <1>21, <1>22, <1>23, <1>24, <1>25, <1>26, <1>27, <1>28, <1>29, <1>30,
       <1>31, <1>32, <1>33, <1>34, <1>35, <1>36, <1>37, <1>38, <1>39, <1>40,
       <1>41, <1>42, <1>43
    DEF Next, UserCall, Proceed, Loop, Ended

(* What the flags, the mutex and the context say of each other holds at    *)
(* every step of connect(), disconnect() and the two callbacks.            *)
THEOREM Invariance == Spec => []IndInv
  BY InitIndInv, NextIndInv, PTL DEF Spec

(* In whatever order the user calls and however the connection ends, the   *)
(* assertions of on_connect() and disconnect() hold.  Those of             *)
(* on_disconnect() hold until a connect() is called while the context      *)
(* before has replies pending; after that they may fail.                   *)
THEOREM AssertionsNeverFail == Spec => []AssertionsHold
  <1>1. IndInv => AssertionsHold
    <2> SUFFICES ASSUME IndInv PROVE AssertionsHold
      OBVIOUS
    <2> USE DEF IndInv, TypeOK, FlagTypeOK
    <2>1. cb = "connect_store" => m_conn /\ ~connect_processed
      BY DEF OwnerInv, ContextInv, InOnConnect
    <2>2. connect_processed => phase \notin {"none", "ended"}
      BY DEF OwnerInv
    <2>3. pc = "disconnect" => ~halt_sent
      BY DEF HaltInv
    <2>4. ASSUME ~overlap
          PROVE  /\ cb \in {"disconnect_store", "lost_store"}
                       => connected /\ ~disconnect_processed
                 /\ pc = "disconnect" /\ FreesAtOnce /\ cb = "none"
                       => connected /\ ~disconnect_processed
      BY <2>4 DEF ContextInv, FlagInv, FreesAtOnce, InOnDisconnect
    <2> QED
      BY <2>1, <2>2, <2>3, <2>4 DEF AssertionsHold
  <1> QED
    BY <1>1, Invariance, PTL

(* As long as no connect() overlaps the end of the connection before, only *)
(* a refused or lost one makes the class use freed memory, destroy a       *)
(* running thread or fail an assertion.                                    *)
THEOREM CrashNeedsFailure == Spec => []OnlyFailuresCrash
  <1>1. IndInv => OnlyFailuresCrash
    BY DEF IndInv
  <1> QED
    BY <1>1, Invariance, PTL

(* connect_processed is never seen set before m_connected has the outcome, *)
(* unless the context of an earlier connect was left to disconnect.        *)
THEOREM OutcomeIsPublished == Spec => []OutcomePublished
  <1>1. IndInv => OutcomePublished
    BY DEF IndInv, TypeOK, FlagTypeOK, ControlTypeOK, OwnerInv, ContextInv, FlagInv,
        OutcomePublished, InOnConnect, InOnDisconnect
  <1> QED
    BY <1>1, Invariance, PTL

(* Once the connect is processed and the loop is out of its callbacks,     *)
(* connect_err_msg is the message of that connect, unless the context of   *)
(* an earlier one was left to disconnect.                                  *)
THEOREM MessageIsComplete == Spec => []MessageComplete
  <1>1. IndInv => MessageComplete
    BY DEF IndInv, TypeOK, ControlTypeOK, LoopInv, MessageInv, MessageComplete
  <1> QED
    BY <1>1, Invariance, PTL

(* wait_for_disconnect() returns only when the connection is over, unless  *)
(* it returns for the context of an earlier connect.                       *)
THEOREM DisconnectIsFinal == Spec => []DisconnectedIsOver
  <1>1. IndInv => DisconnectedIsOver
    BY DEF IndInv, TypeOK, FlagTypeOK, ControlTypeOK, OwnerInv, ContextInv, FlagInv,
        DisconnectedIsOver, InOnConnect, InOnDisconnect
  <1> QED
    BY <1>1, Invariance, PTL

(* A loop thread that was joined left no lock, halt or callback behind.    *)
THEOREM LoopLeavesNothing == Spec => []NoLoopLeft
  <1>1. IndInv => NoLoopLeft
    BY DEF IndInv, TypeOK, ControlTypeOK, LoopInv, HaltInv, OwnerInv, NoLoopLeft
  <1> QED
    BY <1>1, Invariance, PTL
=============================================================================
