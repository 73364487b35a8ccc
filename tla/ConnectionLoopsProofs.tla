----------------------- MODULE ConnectionLoopsProofs -----------------------
(***************************************************************************)
(* Proofs about ConnectionLoops, for every set of tokens and every bound.  *)
(***************************************************************************)
EXTENDS ConnectionLoops, TLAPS

(***************************************************************************)
(* NoOrphanWait is not inductive: messageLoop starts to wait because its   *)
(* connection was closed under it, so the invariant has to say who owes a  *)
(* reply for every closed connection it may find (ClosedIsReplaced) or     *)
(* still hold (ReplacedReaderIsAnswered), and which facts dbusEventLoop    *)
(* carries from one of its steps to the next.                              *)
(***************************************************************************)
ReaderOK == /\ reader # "none" <=> pc["msg"] = "reading"
            /\ reader = "registered" => conn # "none"

DbusOK == /\ pc["dbus"] = "drain" => sig # NoToken /\ needsReconnect /\ authorized
          /\ pc["dbus"] \in ClosePCs => sig = NoToken \/ ~authorized

IndInv == /\ TypeOK
          /\ ReaderOK
          /\ DbusOK
          /\ LostTokenCountsAsNew
          /\ ClosedIsReplaced
          /\ ReplacedReaderIsAnswered
          /\ NoOrphanWait

\* The initial states satisfy the invariant.
LEMMA InitIndInv == Init => IndInv
<1> SUFFICES ASSUME Init PROVE IndInv
  OBVIOUS
<1>p. /\ pc["msg"] = "request" /\ pc["dbus"] = "poll"
      /\ pc["event"] = "readEvent"
  BY DEF Init
<1>q. pc \in [{"msg", "dbus", "event"} -> MsgPCs \cup DbusPCs \cup EventPCs]
  BY DEF Init, MsgPCs, DbusPCs, EventPCs
<1>b. authorized \in BOOLEAN
  BY DEF Init
<1>c. /\ needsReconnect \in BOOLEAN /\ authorized \in BOOLEAN
      /\ backedOff \in BOOLEAN /\ reconnecting \in BOOLEAN
      /\ cancelSent \in BOOLEAN
  BY <1>b, Zenon DEF Init
<1>d. signals \in Nat /\ faults \in Nat
  BY DEF Init
<1>e. /\ token \in Credentials /\ sig \in Credentials
      /\ serverCred \in Credentials /\ event \in Credentials
  BY DEF Init, Credentials
<1>1. TypeOK
  BY <1>p, <1>q, <1>c, <1>d, <1>e
     DEF Init, TypeOK, MsgPCs, DbusPCs, EventPCs, ConnStates
<1>2. LostTokenCountsAsNew
  BY DEF Init, LostTokenCountsAsNew
<1> QED
  BY <1>p, <1>1, <1>2
     DEF Init, IndInv, ReaderOK, DbusOK, ClosedIsReplaced, ClosePCs,
         ReplacedReaderIsAnswered, NoOrphanWait, ClosedStates


\* Every step preserves the invariant.
LEMMA NextIndInv == IndInv /\ [Next]_vars => IndInv'
<1> SUFFICES ASSUME IndInv, [Next]_vars PROVE IndInv'
  OBVIOUS
<1> USE TokenAssumption
    DEF IndInv, TypeOK, ReaderOK, DbusOK, LostTokenCountsAsNew,
        ClosedIsReplaced, ReplacedReaderIsAnswered, NoOrphanWait, ReplyDue,
        LosingAuthorization, MsgPCs, DbusPCs, EventPCs, ClosePCs, ConnStates,
        ClosedStates, Credentials, At, Goto, dbusVars, eventVars, cancelVars,
        extVars
<1>1. CASE JwtTokenStateChange
  BY <1>1 DEF JwtTokenStateChange
<1>2. CASE PeerDrop
  BY <1>2 DEF PeerDrop
<1>3. CASE ReceiveMessage
  BY <1>3 DEF ReceiveMessage, ReaderState
<1>4. CASE UndecodableMessage
  BY <1>4 DEF UndecodableMessage, ReaderState
<1>5. CASE BadServerUrl
  BY <1>5 DEF BadServerUrl, Closed
<1>6. CASE AwaitReply
  BY <1>6 DEF AwaitReply
<1>7. CASE ReadLocked
  BY <1>7 DEF ReadLocked, MutexFree
<1>8. CASE ReadClosed
  BY <1>8 DEF ReadClosed, ReaderState
<1>9. CASE ReadError
  BY <1>9 DEF ReadError, ReaderState
<1>10. CASE ReconnectRequest
  BY <1>10 DEF ReconnectRequest
<1>11. CASE DrainRequest
  BY <1>11 DEF DrainRequest
<1>12. CASE PollTimeout
  BY <1>12 DEF PollTimeout
<1>13. CASE WaitSignal
  BY <1>13 DEF WaitSignal
<1>14. CASE WaitTimeout
  BY <1>14 DEF WaitTimeout
<1>15. CASE ProcessSignal
  BY <1>15 DEF ProcessSignal
<1>16. CASE SignalProcessed
  <2>1. needsReconnect' \in BOOLEAN /\ authorized' \in BOOLEAN
    BY <1>16, Zenon DEF SignalProcessed
  <2> QED
    BY <1>16, <2>1 DEF SignalProcessed
<1>17. CASE DrainTimeout
  BY <1>17 DEF DrainTimeout
<1>18. CASE Decide
  BY <1>18 DEF Decide
<1>19. CASE PostEvent
  <2>1. needsReconnect' \in BOOLEAN
    BY <1>19, Zenon DEF PostEvent
  <2> QED
    BY <1>19, <2>1 DEF PostEvent
<1>20. CASE StartReconnect
  <2>1. reconnecting' \in BOOLEAN /\ cancelSent' \in BOOLEAN
    BY <1>20, Zenon DEF StartReconnect
  <2> QED
    BY <1>20, <2>1 DEF StartReconnect, Closed
<1>21. CASE BackoffOver
  BY <1>21 DEF BackoffOver
<1>22. CASE BackoffCancelled
  <2>1. reconnecting' \in BOOLEAN /\ cancelSent' \in BOOLEAN
    BY <1>22, Zenon DEF BackoffCancelled
  <2> QED
    BY <1>22, <2>1 DEF BackoffCancelled
<1>23. CASE DialSucceeds
  <2>1. backedOff' \in BOOLEAN /\ reconnecting' \in BOOLEAN /\ cancelSent' \in BOOLEAN
    BY <1>23, Zenon DEF DialSucceeds
  <2> QED
    BY <1>23, <2>1 DEF DialSucceeds
<1>24. CASE DialFails
  <2>1. reconnecting' \in BOOLEAN
    BY <1>24, Zenon DEF DialFails
  <2> QED
    BY <1>24, <2>1 DEF DialFails
<1>25. CASE DrainReply
  BY <1>25 DEF DrainReply
<1>26. CASE SendReply
  BY <1>26 DEF SendReply
<1>27. CASE CloseCheck("msg")
  <2>1. cancelSent' \in BOOLEAN
    BY <1>27, Zenon DEF CloseCheck
  <2> QED
    BY <1>27, <2>1 DEF CloseCheck
<1>28. CASE CancelDone("msg")
  BY <1>28 DEF CancelDone
<1>29. CASE CancelGiveUp("msg")
  BY <1>29 DEF CancelGiveUp, AfterClose
<1>30. CASE CloseLocked("msg")
  BY <1>30 DEF CloseLocked, Closed, AfterClose, MutexFree
<1>31. CASE CloseCheck("dbus")
  <2>1. cancelSent' \in BOOLEAN
    BY <1>31, Zenon DEF CloseCheck
  <2> QED
    BY <1>31, <2>1 DEF CloseCheck
<1>32. CASE CancelDone("dbus")
  BY <1>32 DEF CancelDone
<1>33. CASE CancelGiveUp("dbus")
  BY <1>33 DEF CancelGiveUp, AfterClose
<1>34. CASE CloseLocked("dbus")
  BY <1>34 DEF CloseLocked, Closed, AfterClose, MutexFree
<1>35. CASE UNCHANGED vars
  BY <1>35 DEF vars
<1> QED
  BY <1>1, <1>2, <1>3, <1>4, <1>5, <1>6, <1>7, <1>8, <1>9, <1>10, <1>11, <1>12,
     <1>13, <1>14, <1>15, <1>16, <1>17, <1>18, <1>19, <1>20, <1>21, <1>22, <1>23, <1>24,
     <1>25, <1>26, <1>27, <1>28, <1>29, <1>30, <1>31, <1>32, <1>33, <1>34, <1>35
     DEF Next, MessageLoop, DbusEventLoop, EventLoop, Close


\* The invariant holds in every reachable state.
THEOREM IndInvHolds == Spec => []IndInv
  BY InitIndInv, NextIndInv, PTL DEF Spec

\* Type correctness: among others, neither buffered channel ever holds more
\* than one element.
THEOREM TypeCorrect == Spec => []TypeOK
<1>1. IndInv => TypeOK
  BY DEF IndInv
<1> QED
  BY IndInvHolds, <1>1, PTL

\* messageLoop never waits for a reply that nobody owes it, whatever the
\* number of tokens, signals and faults.
THEOREM NoOrphanWaitHolds == Spec => []NoOrphanWait
<1>1. IndInv => NoOrphanWait
  BY DEF IndInv
<1> QED
  BY IndInvHolds, <1>1, PTL

\* A closed connection in handlersByType is always about to be replaced.
THEOREM ClosedIsReplacedHolds == Spec => []ClosedIsReplaced
<1>1. IndInv => ClosedIsReplaced
  BY DEF IndInv
<1> QED
  BY IndInvHolds, <1>1, PTL

\* Reading from a connection that was replaced always ends with a reply.
THEOREM ReplacedReaderIsAnsweredHolds == Spec => []ReplacedReaderIsAnswered
<1>1. IndInv => ReplacedReaderIsAnswered
  BY DEF IndInv
<1> QED
  BY IndInvHolds, <1>1, PTL

\* After a loss of authorization every token counts as new.
THEOREM LostTokenCountsAsNewHolds == Spec => []LostTokenCountsAsNew
<1>1. IndInv => LostTokenCountsAsNew
  BY DEF IndInv
<1> QED
  BY IndInvHolds, <1>1, PTL
=============================================================================
