-------------------------- MODULE PortForwardProofs --------------------------
(***************************************************************************)
(* Proofs about PortForward, for any forwarders, connection ids and        *)
(* bounds.  What matters beside the types holds while the client uses each *)
(* connection id once (FreshIds); the argument is that the map, the ids    *)
(* and the forwarders then correspond one to one, so that a deletion by id *)
(* removes the forwarder that was closed and an acknowledgement by id      *)
(* reaches the forwarder that sent the message.                            *)
(* Then follow what locks the mutex of a forwarder (Timely), and that each *)
(* step is one of ForwardedConnections or changes none of its state.       *)
(***************************************************************************)
EXTENDS PortForward, TLAPS

Unclosed(f) == conn[f] \in {"open", "eof"} /\ ~closed[f]

\* Ids and forwarders correspond.
Identity ==
    /\ \A f, g \in Forwarders : cid[f] = cid[g] /\ cid[f] # None => f = g
    /\ \A c \in ConnectionIds : portForwarders[c] # None => cid[portForwarders[c]] = c
    /\ \A f \in Forwarders : /\ conn[f] # "none" => cid[f] # None
                             /\ reader[f] # "off" => conn[f] # "none"
                             /\ inflight[f] > 0 => cid[f] # None
    /\ sess \notin {"idle", "shutdown", "end"} => cid[cur] # None

\* Whoever deletes a forwarder's entry has marked the forwarder closed.
Marked ==
    /\ \A f \in Forwarders : reader[f] \in {"closeConn", "closeDelete"} => closed[f]
    /\ sess \in {"closeConn", "closeDelete", "stopping"} => closed[cur]

\* The forwarder being connected is registered and has no goroutine yet.
Connecting ==
    sess = "connect" => portForwarders[cid[cur]] = cur /\ conn[cur] = "none"

\* Every connection that nobody is closing can be found.
Found == \A f \in Forwarders : Unclosed(f) => portForwarders[cid[f]] = f

\* The loop of the handler's Close has yet to visit what is not closed.
Visits ==
    /\ sess = "shutdown" \/ sess = "end" \/ (sess \in Closing /\ ret = "shutdown")
         => \A f \in Forwarders :
              Unclosed(f) => cid[f] \in todo \/ (f = cur /\ sess = "closeSet")
    /\ sess = "end" => todo = {}

\* A message to acknowledge, or about to be sent, comes with a locked mutex.
Locks ==
    \A f \in Forwarders :
        /\ inflight[f] <= 1
        /\ inflight[f] > 0 => Acks /\ mutexAck[f]
        /\ Acks /\ reader[f] = "send" => mutexAck[f] /\ inflight[f] = 0

Fresh == Identity /\ Marked /\ Connecting /\ Found /\ Visits /\ Locks /\ AckIsHarmless

IndInv == TypeOK /\ (FreshIds => Fresh)

\* The initial state, with no forwarder, satisfies the invariant.
LEMMA InitIndInv == Init => IndInv
<1> SUFFICES ASSUME Init PROVE IndInv
  OBVIOUS
<1> USE NoneAssumption, BoundAssumption DEF Init
<1>1. TypeOK
  BY DEF TypeOK, SessPCs, ReaderPCs
<1>2. Fresh
  BY DEF Fresh, Identity, Marked, Connecting, Found, Visits, Locks, AckIsHarmless,
         Unclosed, Closing
<1> QED BY <1>1, <1>2 DEF IndInv

\* The session goroutine's steps keep the types.
LEMMA SessionTypes ==
  ASSUME TypeOK, Up, Serve \/ SessionStep \/ WriteAccepted
  PROVE  TypeOK'
<1> USE NoneAssumption, BoundAssumption
<1>1. CASE \E c \in ConnectionIds : Stop(c)
  BY <1>1
     DEF Stop, CallClose, Registered, TypeOK, SessPCs, ReaderPCs, Closing, Up,
         mapVars, sessVars, goroutines, bounds
<1>2. CASE \E c \in ConnectionIds : Forward(c)
  BY <1>2
     DEF Forward, Registered, TypeOK, SessPCs, ReaderPCs, Closing, Up, mapVars,
         sessVars, goroutines, bounds
<1>3. CASE \E c \in ConnectionIds, f \in Forwarders : New(c, f)
  BY <1>3
     DEF New, TypeOK, SessPCs, ReaderPCs, Closing, Up, mapVars, sessVars,
         goroutines, bounds
<1>4. CASE Shutdown
  BY <1>4
     DEF Shutdown, Registered, TypeOK, SessPCs, ReaderPCs, Closing, Up,
         mapVars, sessVars, goroutines, bounds
<1>5. CASE Connected
  BY <1>5
     DEF Connected, TypeOK, SessPCs, ReaderPCs, Closing, Up, mapVars, sessVars,
         goroutines, bounds
<1>6. CASE ConnectFails
  <2>1. faults' \in 0..MaxFaults
    BY <1>6 DEF ConnectFails, TypeOK
  <2> QED
    BY <1>6, <2>1 DEF ConnectFails, Unregister, TypeOK, SessPCs, ReaderPCs, Up, mapVars,
                     goroutines
<1>7. CASE Stopped
  BY <1>7
     DEF Stopped, Unregister, TypeOK, SessPCs, ReaderPCs, Closing, Up, mapVars,
         sessVars, goroutines, bounds
<1>8. CASE SessionCloses
  BY <1>8
     DEF SessionCloses, CloseStep, CloseSet, CloseConn, CloseDelete,
         Unregister, TypeOK, SessPCs, ReaderPCs, Closing, Up, mapVars,
         sessVars, goroutines, bounds
<1>9. CASE WriteFails
  BY <1>9
     DEF WriteFails, WriteReturns, TypeOK, SessPCs, ReaderPCs, Closing, Up,
         mapVars, sessVars, goroutines, bounds
<1>10. CASE ShutdownNext
  BY <1>10
     DEF ShutdownNext, CallClose, Registered, TypeOK, SessPCs, ReaderPCs,
         Closing, Up, mapVars, sessVars, goroutines, bounds
<1>11. CASE ShutdownEnds
  BY <1>11
     DEF ShutdownEnds, TypeOK, SessPCs, ReaderPCs, Closing, Up, mapVars,
         sessVars, goroutines, bounds
<1>12. CASE WriteAccepted
  BY <1>12
     DEF WriteAccepted, WriteReturns, TypeOK, SessPCs, ReaderPCs, Closing, Up,
         mapVars, sessVars, goroutines, bounds
<1> QED BY <1>1, <1>2, <1>3, <1>4, <1>5, <1>6, <1>7, <1>8, <1>9, <1>10, <1>11, <1>12
     DEF Serve, SessionStep

\* The steps of a forwarder's goroutines and of its server keep the types.
LEMMA ForwarderTypes ==
  ASSUME TypeOK, Up, NEW f \in Forwarders,
         ReaderStep(f) \/ InnerReads(f) \/ ServerEnds(f)
  PROVE  TypeOK'
<1> USE NoneAssumption, BoundAssumption
<1>1. CASE ReaderTakesData(f)
  BY <1>1
     DEF ReaderTakesData, ReaderOnly, TypeOK, SessPCs, ReaderPCs, Closing, Up,
         mapVars, sessVars, goroutines, bounds
<1>2. CASE ReaderTakesError(f)
  BY <1>2
     DEF ReaderTakesError, ReaderOnly, ReaderCallsClose, TypeOK, SessPCs,
         ReaderPCs, Closing, Up, mapVars, sessVars, goroutines, bounds
<1>3. CASE ReaderTimeout(f)
  BY <1>3
     DEF ReaderTimeout, ReaderOnly, ReaderCallsClose, TypeOK, SessPCs,
         ReaderPCs, Closing, Up, mapVars, sessVars, goroutines, bounds
<1>4. CASE ReaderDone(f)
  BY <1>4
     DEF ReaderDone, ReaderOnly, TypeOK, SessPCs, ReaderPCs, Closing, Up,
         mapVars, sessVars, goroutines, bounds
<1>5. CASE ReaderCloses(f)
  <2>1. PICK q \in ReaderPCs : /\ CloseStep(f, reader[f], q, "select")
                              /\ reader' = [reader EXCEPT ![f] = q]
    BY <1>5 DEF ReaderCloses
  <2>2. reader' \in [Forwarders -> ReaderPCs]
    BY <2>1 DEF TypeOK
  <2>3. /\ portForwarders' \in [ConnectionIds -> Forwarders \cup {None}]
        /\ cid' = cid
        /\ closed' \in [Forwarders -> BOOLEAN] /\ ctxDone' \in [Forwarders -> BOOLEAN]
        /\ conn' \in [Forwarders -> {"none", "open", "eof", "closed"}]
    BY <2>1 DEF TypeOK, CloseStep, CloseSet, CloseConn, CloseDelete, Unregister, mapVars
  <2> QED
    BY <1>5, <2>2, <2>3 DEF ReaderCloses, TypeOK, Up, sessVars, bounds
<1>6. CASE ReaderLocks(f)
  BY <1>6
     DEF ReaderLocks, ReaderOnly, TypeOK, SessPCs, ReaderPCs, Closing, Up,
         mapVars, sessVars, goroutines, bounds
<1>7. CASE ReaderSends(f)
  <2>1. faults' \in 0..MaxFaults
    BY <1>7 DEF ReaderSends, TypeOK
  <2>2. inflight' \in [Forwarders -> Nat]
    BY <1>7 DEF ReaderSends, TypeOK
  <2> QED
    BY <1>7, <2>1, <2>2
    DEF ReaderSends, ReaderOnly, TypeOK, ReaderPCs, Up, mapVars, sessVars
<1>8. CASE InnerReads(f)
  BY <1>8
     DEF InnerReads, TypeOK, SessPCs, ReaderPCs, Closing, Up, mapVars,
         sessVars, goroutines, bounds
<1>9. CASE ServerEnds(f)
  BY <1>9
     DEF ServerEnds, TypeOK, SessPCs, ReaderPCs, Closing, Up, mapVars,
         sessVars, goroutines, bounds
<1> QED BY <1>1, <1>2, <1>3, <1>4, <1>5, <1>6, <1>7, <1>8, <1>9
     DEF ReaderStep

\* So do an acknowledgement and the end of the process.
LEMMA FatalTypes ==
  ASSUME TypeOK, fatal = "no", NEW f \in Forwarders, Ack(f) \/ MapFault(f)
  PROVE  TypeOK'
<1> USE NoneAssumption, BoundAssumption
<1>1. CASE Ack(f)
  <2>1. inflight' \in [Forwarders -> Nat]
    BY <1>1 DEF Ack, TypeOK
  <2>2. mutexAck' \in [Forwarders -> BOOLEAN] /\ fatal' \in {"no", "ack", "map"}
    BY <1>1 DEF Ack, TypeOK
  <2> QED
    BY <1>1, <2>1, <2>2 DEF Ack, TypeOK, mapVars, sessVars, goroutines, bounds
<1>2. CASE MapFault(f)
  BY <1>2
     DEF MapFault, TypeOK, SessPCs, ReaderPCs, Closing, Up, mapVars, sessVars,
         goroutines, bounds
<1> QED BY <1>1, <1>2

\* The session goroutine's steps keep the rest of the invariant.
LEMMA SessionFresh ==
  ASSUME TypeOK, FreshIds, Fresh, Up, Serve \/ SessionStep \/ WriteAccepted
  PROVE  Fresh'
<1> USE NoneAssumption, BoundAssumption
<1>1. CASE \E c \in ConnectionIds : Stop(c)
  BY <1>1
     DEF Stop, CallClose, Registered, TypeOK, Closing, Up, Fresh, Identity,
         Marked, Connecting, Found, Visits, Locks, AckIsHarmless, Unclosed,
         mapVars, sessVars, goroutines, bounds
<1>2. CASE \E c \in ConnectionIds : Forward(c)
  BY <1>2
     DEF Forward, Registered, TypeOK, Closing, Up, Fresh, Identity, Marked,
         Connecting, Found, Visits, Locks, AckIsHarmless, Unclosed, mapVars,
         sessVars, goroutines, bounds
<1>3. CASE \E c \in ConnectionIds, f \in Forwarders : New(c, f)
  BY <1>3
     DEF New, TypeOK, Closing, Up, Fresh, Identity, Marked, Connecting, Found,
         Visits, Locks, AckIsHarmless, Unclosed, mapVars, sessVars, goroutines,
         bounds
<1>4. CASE Shutdown
  BY <1>4
     DEF Shutdown, Registered, TypeOK, Closing, Up, Fresh, Identity, Marked,
         Connecting, Found, Visits, Locks, AckIsHarmless, Unclosed, mapVars,
         sessVars, goroutines, bounds
<1>5. CASE Connected
  BY <1>5
     DEF Connected, TypeOK, Closing, Up, Fresh, Identity, Marked, Connecting,
         Found, Visits, Locks, AckIsHarmless, Unclosed, mapVars, sessVars,
         goroutines, bounds
<1>6. CASE ConnectFails
  BY <1>6
     DEF ConnectFails, Unregister, TypeOK, Closing, Up, Fresh, Identity,
         Marked, Connecting, Found, Visits, Locks, AckIsHarmless, Unclosed,
         mapVars, sessVars, goroutines, bounds
<1>7. CASE Stopped
  BY <1>7
     DEF Stopped, Unregister, TypeOK, Closing, Up, Fresh, Identity, Marked,
         Connecting, Found, Visits, Locks, AckIsHarmless, Unclosed, mapVars,
         sessVars, goroutines, bounds
<1>8. CASE SessionCloses
  BY <1>8
     DEF SessionCloses, CloseStep, CloseSet, CloseConn, CloseDelete,
         Unregister, TypeOK, Closing, Up, Fresh, Identity, Marked, Connecting,
         Found, Visits, Locks, AckIsHarmless, Unclosed, mapVars, sessVars,
         goroutines, bounds
<1>9. CASE WriteFails
  BY <1>9
     DEF WriteFails, WriteReturns, TypeOK, Closing, Up, Fresh, Identity,
         Marked, Connecting, Found, Visits, Locks, AckIsHarmless, Unclosed,
         mapVars, sessVars, goroutines, bounds
<1>10. CASE ShutdownNext
  BY <1>10
     DEF ShutdownNext, CallClose, Registered, TypeOK, Closing, Up, Fresh,
         Identity, Marked, Connecting, Found, Visits, Locks, AckIsHarmless,
         Unclosed, mapVars, sessVars, goroutines, bounds
<1>11. CASE ShutdownEnds
  BY <1>11
     DEF ShutdownEnds, TypeOK, Closing, Up, Fresh, Identity, Marked,
         Connecting, Found, Visits, Locks, AckIsHarmless, Unclosed, mapVars,
         sessVars, goroutines, bounds
<1>12. CASE WriteAccepted
  BY <1>12
     DEF WriteAccepted, WriteReturns, TypeOK, Closing, Up, Fresh, Identity,
         Marked, Connecting, Found, Visits, Locks, AckIsHarmless, Unclosed,
         mapVars, sessVars, goroutines, bounds
<1> QED BY <1>1, <1>2, <1>3, <1>4, <1>5, <1>6, <1>7, <1>8, <1>9, <1>10, <1>11, <1>12
     DEF Serve, SessionStep

\* So do the steps of a forwarder's goroutines and of its server.
LEMMA ForwarderFresh ==
  ASSUME TypeOK, FreshIds, Fresh, Up, NEW f \in Forwarders,
         ReaderStep(f) \/ InnerReads(f) \/ ServerEnds(f)
  PROVE  Fresh'
<1> USE NoneAssumption, BoundAssumption
<1>1. CASE ReaderTakesData(f)
  BY <1>1
     DEF ReaderTakesData, ReaderOnly, TypeOK, Closing, Up, Fresh, Identity,
         Marked, Connecting, Found, Visits, Locks, AckIsHarmless, Unclosed,
         mapVars, sessVars, goroutines, bounds
<1>2. CASE ReaderTakesError(f)
  BY <1>2
     DEF ReaderTakesError, ReaderOnly, ReaderCallsClose, TypeOK, Closing, Up,
         Fresh, Identity, Marked, Connecting, Found, Visits, Locks,
         AckIsHarmless, Unclosed, mapVars, sessVars, goroutines, bounds
<1>3. CASE ReaderTimeout(f)
  BY <1>3
     DEF ReaderTimeout, ReaderOnly, ReaderCallsClose, TypeOK, Closing, Up,
         Fresh, Identity, Marked, Connecting, Found, Visits, Locks,
         AckIsHarmless, Unclosed, mapVars, sessVars, goroutines, bounds
<1>4. CASE ReaderDone(f)
  BY <1>4
     DEF ReaderDone, ReaderOnly, TypeOK, Closing, Up, Fresh, Identity, Marked,
         Connecting, Found, Visits, Locks, AckIsHarmless, Unclosed, mapVars,
         sessVars, goroutines, bounds
<1>5. CASE ReaderCloses(f)
  BY <1>5
     DEF ReaderCloses, CloseStep, CloseSet, CloseConn, CloseDelete, Unregister,
         TypeOK, Closing, Up, Fresh, Identity, Marked, Connecting, Found,
         Visits, Locks, AckIsHarmless, Unclosed, mapVars, sessVars, goroutines,
         bounds
<1>6. CASE ReaderLocks(f)
  BY <1>6
     DEF ReaderLocks, ReaderOnly, TypeOK, Closing, Up, Fresh, Identity, Marked,
         Connecting, Found, Visits, Locks, AckIsHarmless, Unclosed, mapVars,
         sessVars, goroutines, bounds
<1>7. CASE ReaderSends(f)
  BY <1>7
     DEF ReaderSends, ReaderOnly, TypeOK, Closing, Up, Fresh, Identity, Marked,
         Connecting, Found, Visits, Locks, AckIsHarmless, Unclosed, mapVars,
         sessVars, goroutines, bounds
<1>8. CASE InnerReads(f)
  BY <1>8
     DEF InnerReads, TypeOK, Closing, Up, Fresh, Identity, Marked, Connecting,
         Found, Visits, Locks, AckIsHarmless, Unclosed, mapVars, sessVars,
         goroutines, bounds
<1>9. CASE ServerEnds(f)
  BY <1>9
     DEF ServerEnds, TypeOK, Closing, Up, Fresh, Identity, Marked, Connecting,
         Found, Visits, Locks, AckIsHarmless, Unclosed, mapVars, sessVars,
         goroutines, bounds
<1> QED BY <1>1, <1>2, <1>3, <1>4, <1>5, <1>6, <1>7, <1>8, <1>9
     DEF ReaderStep

\* So do an acknowledgement, which meets a locked mutex, and the end of the process.
LEMMA FatalFresh ==
  ASSUME TypeOK, FreshIds, Fresh, fatal = "no", NEW f \in Forwarders, Ack(f) \/ MapFault(f)
  PROVE  Fresh'
<1> USE NoneAssumption, BoundAssumption
<1>1. CASE Ack(f)
  BY <1>1
     DEF Ack, TypeOK, Closing, Up, Fresh, Identity, Marked, Connecting, Found,
         Visits, Locks, AckIsHarmless, Unclosed, mapVars, sessVars, goroutines,
         bounds
<1>2. CASE MapFault(f)
  BY <1>2
     DEF MapFault, TypeOK, Closing, Up, Fresh, Identity, Marked, Connecting,
         Found, Visits, Locks, AckIsHarmless, Unclosed, mapVars, sessVars,
         goroutines, bounds
<1> QED BY <1>1, <1>2

\* Every reachable state of a handler and its forwarders satisfies the invariant.
THEOREM IndInvHolds == Spec => []IndInv
<1>1. IndInv /\ [Next]_vars => IndInv'
  <2> SUFFICES ASSUME IndInv, [Next]_vars PROVE IndInv'
    OBVIOUS
  <2>1. CASE UNCHANGED vars
    <3>1. TypeOK'
      BY <2>1 DEF IndInv, TypeOK, vars
    <3>2. FreshIds => Fresh'
      BY <2>1 DEF IndInv, Fresh, Identity, Marked, Connecting, Found, Visits, Locks,
                  AckIsHarmless, Unclosed, vars
    <3> QED BY <3>1, <3>2 DEF IndInv
  <2>2. CASE Next
    <3>1. TypeOK'
      BY <2>2, SessionTypes, ForwarderTypes, FatalTypes DEF Next, IndInv
    <3>2. FreshIds => Fresh'
      BY <2>2, SessionFresh, ForwarderFresh, FatalFresh DEF Next, IndInv
    <3> QED BY <3>1, <3>2 DEF IndInv
  <2> QED BY <2>1, <2>2
<1> QED BY <1>1, InitIndInv, PTL DEF Spec

\* The variables keep their types; the session never uses a forwarder that the
\* map does not hold.
THEOREM TypeCorrect == Spec => []TypeOK
<1>1. IndInv => TypeOK
  BY DEF IndInv
<1> QED BY <1>1, IndInvHolds, PTL

\* The client never has two messages of a connection to acknowledge, if it uses
\* each connection id once.
THEOREM OneInFlightHolds == FreshIds => (Spec => []OneInFlight)
<1> SUFFICES ASSUME FreshIds PROVE Spec => []OneInFlight
  OBVIOUS
<1>1. IndInv => OneInFlight
  BY DEF IndInv, Fresh, Locks, OneInFlight
<1> QED BY <1>1, IndInvHolds, PTL

\* No acknowledgement unlocks a mutex that is not locked, under the same
\* assumption.
THEOREM AckIsHarmlessHolds == FreshIds => (Spec => []AckIsHarmless)
<1> SUFFICES ASSUME FreshIds PROVE Spec => []AckIsHarmless
  OBVIOUS
<1>1. IndInv => AckIsHarmless
  BY DEF IndInv, Fresh
<1> QED BY <1>1, IndInvHolds, PTL

\* Every open connection that nobody is closing is found under its id, under
\* the same assumption.
THEOREM OpenIsRegisteredHolds == FreshIds => (Spec => []OpenIsRegistered)
<1> SUFFICES ASSUME FreshIds PROVE Spec => []OpenIsRegistered
  OBVIOUS
<1>1. IndInv => OpenIsRegistered
  BY DEF IndInv, Fresh, Found, Unclosed, OpenIsRegistered
<1> QED BY <1>1, IndInvHolds, PTL

\* The handler's Close leaves no connection that nobody closes, under the same
\* assumption, whatever the readers close and delete meanwhile.
THEOREM ShutdownClosesAllHolds == FreshIds => (Spec => []ShutdownClosesAll)
<1> SUFFICES ASSUME FreshIds PROVE Spec => []ShutdownClosesAll
  OBVIOUS
<1>1. IndInv => ShutdownClosesAll
  BY DEF IndInv, Fresh, Visits, Unclosed, ShutdownClosesAll
<1> QED BY <1>1, IndInvHolds, PTL

-----------------------------------------------------------------------------
\* A locked mutex has its acknowledgement coming, unless a message was lost or
\* the connection cannot be found any more.
Due ==
    \A f \in Forwarders :
        /\ reader[f] = "lock" => Acks
        /\ mutexAck[f] =>
             /\ Acks /\ cid[f] # None
             /\ portForwarders[cid[f]] = f /\ faults = 0
                  => reader[f] = "send" \/ inflight[f] > 0

\* Only a connection that was made is closed; the one that is being made is the
\* only one the map holds unmade.
Started ==
    /\ \A f \in Forwarders : closed[f] => conn[f] # "none"
    /\ \A c \in ConnectionIds :
         portForwarders[c] # None /\ conn[portForwarders[c]] = "none"
           => sess = "connect" /\ cur = portForwarders[c]
    /\ sess \in Closing \cup {"stopping"} => conn[cur] # "none"

Timely == Due /\ Started

\* The steps that change neither the mutexes nor what is on its way.
LEMMA DueKept ==
  ASSUME TypeOK, Due, UNCHANGED <<cid, mutexAck, inflight>>,
         faults' = 0 => faults = 0,
         \A c \in ConnectionIds : portForwarders'[c] \in {portForwarders[c], None},
         \A f \in Forwarders : /\ reader[f] = "send" => reader'[f] = "send"
                               /\ reader'[f] = "lock" => reader[f] = "lock" \/ Acks
  PROVE  Due'
BY NoneAssumption DEF Due, TypeOK

\* The session goroutine's steps keep it.
LEMMA SessionTimely ==
  ASSUME TypeOK, FreshIds, Fresh, Timely, Up, Serve \/ SessionStep \/ WriteAccepted
  PROVE  Timely'
<1> USE NoneAssumption DEF mapVars, sessVars, goroutines, bounds
<1>0. /\ Identity /\ Due /\ Started
      /\ sess = "connect" => conn[cur] = "none" /\ reader[cur] = "off"
  BY DEF Fresh, Timely, Connecting, Identity, TypeOK
<1>1. CASE \E c \in ConnectionIds, f \in Forwarders : New(c, f)
  <2>1. PICK c \in ConnectionIds, f \in Forwarders : New(c, f)
    BY <1>1
  <2>2. Due'
    BY <1>0, <2>1 DEF New, Due, TypeOK
  <2>3. Started'
    BY <1>0, <2>1 DEF New, Started, Identity, TypeOK, Closing
  <2> QED BY <2>2, <2>3 DEF Timely
<1>2. CASE ~\E c \in ConnectionIds, f \in Forwarders : New(c, f)
  <2>1. Due'
    <3>1. /\ UNCHANGED <<cid, mutexAck, inflight>>
          /\ faults' = 0 => faults = 0
          /\ \A c \in ConnectionIds : portForwarders'[c] \in {portForwarders[c], None}
      BY <1>2
         DEF Serve, Stop, Forward, Shutdown, SessionStep, Connected, ConnectFails, Stopped,
             SessionCloses, CloseStep, CloseSet, CloseConn, CloseDelete, WriteFails,
             ShutdownNext, ShutdownEnds, WriteAccepted, WriteReturns, Unregister, TypeOK
    <3>2. reader' = reader \/ (sess = "connect" /\ reader' = [reader EXCEPT ![cur] = "select"])
      BY <1>2
         DEF Serve, Stop, Forward, Shutdown, SessionStep, Connected, ConnectFails, Stopped,
             SessionCloses, WriteFails, ShutdownNext, ShutdownEnds, WriteAccepted,
             WriteReturns
    <3>3. \A f \in Forwarders : /\ reader[f] = "send" => reader'[f] = "send"
                                /\ reader'[f] = "lock" => reader[f] = "lock"
      BY <1>0, <3>2 DEF TypeOK
    <3> QED BY <1>0, <3>1, <3>3, DueKept
  <2>2. Started'
    <3>1. CASE \E c \in ConnectionIds : Stop(c)
      BY <1>0, <3>1 DEF Stop, CallClose, Registered, Started, TypeOK, Closing
    <3>2. CASE \E c \in ConnectionIds : Forward(c)
      BY <1>0, <3>2 DEF Forward, Registered, Started, TypeOK, Closing
    <3>3. CASE Shutdown
      BY <1>0, <3>3 DEF Shutdown, Started, TypeOK, Closing
    <3>4. CASE Connected
      BY <1>0, <3>4 DEF Connected, Started, TypeOK, Closing
    <3>5. CASE ConnectFails
      BY <1>0, <3>5 DEF ConnectFails, Unregister, Started, Identity, TypeOK, Closing
    <3>6. CASE Stopped
      BY <1>0, <3>6 DEF Stopped, Unregister, Started, TypeOK, Closing
    <3>7. CASE SessionCloses
      BY <1>0, <3>7 DEF SessionCloses, CloseStep, CloseSet, CloseConn, CloseDelete,
                        Unregister, Started, TypeOK, Closing
    <3>8. CASE WriteFails \/ WriteAccepted
      BY <1>0, <3>8 DEF WriteFails, WriteAccepted, WriteReturns, Started, TypeOK, Closing
    <3>9. CASE ShutdownNext
      BY <1>0, <3>9 DEF ShutdownNext, CallClose, Registered, Started, TypeOK, Closing
    <3>10. CASE ShutdownEnds
      BY <1>0, <3>10 DEF ShutdownEnds, Started, TypeOK, Closing
    <3> QED BY <1>2, <3>1, <3>2, <3>3, <3>4, <3>5, <3>6, <3>7, <3>8, <3>9, <3>10
            DEF Serve, SessionStep
  <2> QED BY <2>1, <2>2 DEF Timely
<1> QED BY <1>1, <1>2

\* So do the steps of a forwarder's goroutines and of its server.
LEMMA ForwarderTimely ==
  ASSUME TypeOK, FreshIds, Fresh, Timely, Up, NEW f \in Forwarders,
         ReaderStep(f) \/ InnerReads(f) \/ ServerEnds(f)
  PROVE  Timely'
<1> USE NoneAssumption, BoundAssumption DEF mapVars, sessVars, goroutines, bounds
<1>0. /\ Due /\ Started
      /\ reader[f] # "off" => conn[f] # "none" /\ cid[f] # None
  BY DEF Fresh, Timely, Identity
<1>1. CASE ReaderLocks(f)
  <2>1. Due'
    BY <1>0, <1>1 DEF ReaderLocks, ReaderOnly, Due, TypeOK
  <2>2. Started'
    BY <1>0, <1>1 DEF ReaderLocks, ReaderOnly, Started
  <2> QED BY <2>1, <2>2 DEF Timely
<1>2. CASE ReaderSends(f)
  <2>1. Due'
    BY <1>0, <1>2 DEF ReaderSends, ReaderOnly, Due, TypeOK
  <2>2. Started'
    BY <1>0, <1>2 DEF ReaderSends, ReaderOnly, Started
  <2> QED BY <2>1, <2>2 DEF Timely
<1>3. CASE ReaderCloses(f)
  <2>1. PICK q \in ReaderPCs : /\ CloseStep(f, reader[f], q, "select")
                              /\ reader' = [reader EXCEPT ![f] = q]
    BY <1>3 DEF ReaderCloses
  <2>2. /\ UNCHANGED <<cid, mutexAck, inflight, sess, cur, faults>>
        /\ \A c \in ConnectionIds : portForwarders'[c] \in {portForwarders[c], None}
    BY <1>3, <2>1 DEF ReaderCloses, CloseStep, CloseSet, CloseConn, CloseDelete, Unregister,
                      TypeOK
  <2>3. q # "lock" /\ reader[f] # "send" /\ reader[f] # "off"
    BY <2>1 DEF CloseStep
  <2>4. Due'
    BY <1>0, <2>1, <2>2, <2>3, DueKept DEF TypeOK
  <2>5. Started'
    <3>1. CASE CloseSet(f)
      BY <1>0, <2>2, <2>3, <3>1 DEF CloseSet, Started, TypeOK
    <3>2. CASE CloseConn(f)
      <4>1. UNCHANGED <<portForwarders, closed>> /\ conn' = [conn EXCEPT ![f] = "closed"]
        BY <3>2 DEF CloseConn
      <4> QED BY <1>0, <2>2, <4>1 DEF Started, TypeOK, Closing
    <3>3. CASE CloseDelete(f)
      <4>1. UNCHANGED <<closed, conn>>
        BY <3>3 DEF CloseDelete
      <4> QED BY <1>0, <2>2, <4>1 DEF Started
    <3> QED BY <2>1, <3>1, <3>2, <3>3 DEF CloseStep
  <2> QED BY <2>4, <2>5 DEF Timely
<1>4. CASE ReaderTakesData(f) \/ ReaderTakesError(f) \/ ReaderTimeout(f) \/ ReaderDone(f)
  <2>1. /\ UNCHANGED <<mapVars, mutexAck, inflight, faults, closed, conn, sess, cur>>
        /\ reader[f] = "select"
        /\ \E q \in ReaderPCs : reader' = [reader EXCEPT ![f] = q] /\ (q = "lock" => Acks)
    BY <1>4 DEF ReaderTakesData, ReaderTakesError, ReaderTimeout, ReaderDone,
                ReaderCallsClose, ReaderOnly, ReaderPCs, Closing
  <2>2. Due'
    BY <1>0, <2>1, DueKept DEF TypeOK
  <2>3. Started'
    BY <1>0, <2>1 DEF Started
  <2> QED BY <2>2, <2>3 DEF Timely
<1>5. CASE InnerReads(f)
  <2>1. UNCHANGED <<mapVars, mutexAck, inflight, faults, closed, conn, sess, cur, reader>>
    BY <1>5 DEF InnerReads
  <2> QED BY <1>0, <2>1 DEF Timely, Due, Started
<1>6. CASE ServerEnds(f)
  <2>1. UNCHANGED <<mapVars, mutexAck, inflight, faults, closed, sess, cur, reader>>
    BY <1>6 DEF ServerEnds
  <2>2. Due'
    BY <1>0, <2>1 DEF Due
  <2>3. Started'
    BY <1>0, <1>6, <2>1 DEF ServerEnds, Started, TypeOK, Closing
  <2> QED BY <2>2, <2>3 DEF Timely
<1> QED BY <1>1, <1>2, <1>3, <1>4, <1>5, <1>6 DEF ReaderStep

\* So do an acknowledgement, which unlocks the mutex of the forwarder that sent the
\* message or finds it gone from the map, and the end of the process.
LEMMA FatalTimely ==
  ASSUME TypeOK, FreshIds, Fresh, Timely, fatal = "no", NEW g \in Forwarders,
         Ack(g) \/ MapFault(g)
  PROVE  Timely'
<1> USE NoneAssumption DEF mapVars, sessVars, goroutines, bounds
<1>0. Due /\ Started /\ Identity /\ Locks
  BY DEF Fresh, Timely
<1>1. CASE Ack(g)
  <2>1. /\ UNCHANGED <<portForwarders, cid, faults, reader, closed, conn, sess, cur>>
        /\ inflight[g] > 0 /\ inflight' = [inflight EXCEPT ![g] = @ - 1]
    BY <1>1 DEF Ack
  <2>2. Started'
    BY <1>0, <2>1 DEF Started
  <2>3. cid[g] \in ConnectionIds /\ portForwarders[cid[g]] \in {g, None}
    BY <1>0, <2>1 DEF Identity, TypeOK
  <2>4. /\ \A f \in Forwarders \ {g} : mutexAck'[f] = mutexAck[f] /\ inflight'[f] = inflight[f]
        /\ portForwarders[cid[g]] = g => ~mutexAck'[g]
        /\ mutexAck'[g] => mutexAck[g]
    BY <1>0, <1>1, <2>1, <2>3 DEF Ack, Locks, TypeOK
  <2>5. Due'
    BY <1>0, <2>1, <2>4 DEF Due
  <2> QED BY <2>2, <2>5 DEF Timely
<1>2. CASE MapFault(g)
  BY <1>0, <1>2 DEF MapFault, Timely, Due, Started
<1> QED BY <1>1, <1>2

\* Every reachable state has both.
THEOREM TimelyHolds == FreshIds => (Spec => []Timely)
<1> SUFFICES ASSUME FreshIds PROVE Spec => []Timely
  OBVIOUS
<1>1. Init => Timely
  BY NoneAssumption DEF Init, Timely, Due, Started, Closing
<1>2. IndInv /\ Timely /\ [Next]_vars => Timely'
  <2> SUFFICES ASSUME IndInv, Timely, [Next]_vars PROVE Timely'
    OBVIOUS
  <2>1. CASE UNCHANGED vars
    BY <2>1 DEF Timely, Due, Started, vars
  <2>2. CASE Next
    BY <2>2, SessionTimely, ForwarderTimely, FatalTimely DEF Next, IndInv
  <2> QED BY <2>1, <2>2
<1> QED BY <1>1, <1>2, IndInvHolds, PTL DEF Spec

\* A reader whose connection can be found waits for an acknowledgement only while
\* one is due, if the client uses each connection id once and no message is lost.
THEOREM LockIsDueHolds == FreshIds => (Spec => []LockIsDue)
<1> SUFFICES ASSUME FreshIds PROVE Spec => []LockIsDue
  OBVIOUS
<1>1. Timely => LockIsDue
  BY DEF Timely, Due, LockIsDue
<1> QED BY <1>1, TimelyHolds, PTL
-----------------------------------------------------------------------------
(* The refinement of ForwardedConnections.                                 *)

Stage == [c \in ConnectionIds |->
            IF Of(c) = {} THEN "unused" ELSE StageOf(CHOOSE f \in Of(c) : TRUE)]
Unacked == [c \in ConnectionIds |->
              IF Of(c) = {} THEN 0 ELSE inflight[CHOOSE f \in Of(c) : TRUE]]
Ended == sess = "end"

\* Each id in use stands for one forwarder.
Maps ==
    /\ \A f \in Forwarders :
         cid[f] # None => Stage[cid[f]] = StageOf(f) /\ Unacked[cid[f]] = inflight[f]
    /\ \A c \in ConnectionIds :
         (\A f \in Forwarders : cid[f] # c) => Stage[c] = "unused" /\ Unacked[c] = 0

LEMMA Mapped == TypeOK /\ Identity => Maps
<1> SUFFICES ASSUME TypeOK, Identity PROVE Maps
  OBVIOUS
<1>1. ASSUME NEW f \in Forwarders, cid[f] # None
      PROVE  Stage[cid[f]] = StageOf(f) /\ Unacked[cid[f]] = inflight[f]
  <2>1. cid[f] \in ConnectionIds
    BY <1>1 DEF TypeOK
  <2>2. \A g \in Forwarders : cid[g] = cid[f] => g = f
    BY <1>1 DEF Identity
  <2>3. Of(cid[f]) = {f}
    BY <2>2 DEF Of
  <2>4. Of(cid[f]) # {} /\ (CHOOSE g \in Of(cid[f]) : TRUE) = f
    BY <2>3
  <2> QED BY <2>1, <2>4 DEF Stage, Unacked
<1>2. ASSUME NEW c \in ConnectionIds, \A f \in Forwarders : cid[f] # c
      PROVE  Stage[c] = "unused" /\ Unacked[c] = 0
  <2>1. Of(c) = {}
    BY <1>2 DEF Of
  <2> QED BY <2>1 DEF Stage, Unacked
<1> QED BY <1>1, <1>2 DEF Maps

\* A step that leaves forwarder f alone, as ForwardedConnections sees it.
Kept(f) == StageOf(f)' = StageOf(f) /\ inflight'[f] = inflight[f]

\* Nothing is seen of a step that keeps all forwarders.
LEMMA NoneMoves ==
  ASSUME TypeOK, Identity, TypeOK', Identity', cid' = cid, \A f \in Forwarders : Kept(f)
  PROVE  Stage' = Stage /\ Unacked' = Unacked
<1>1. Maps /\ Maps'
  BY Mapped, PTL
<1>2. \A c \in ConnectionIds : Stage'[c] = Stage[c] /\ Unacked'[c] = Unacked[c]
  BY <1>1, NoneAssumption DEF Kept, Maps
<1>3. Stage' = [c \in ConnectionIds |-> Stage'[c]] /\ Stage = [c \in ConnectionIds |-> Stage[c]]
  BY DEF Stage
<1>4. /\ Unacked' = [c \in ConnectionIds |-> Unacked'[c]]
      /\ Unacked = [c \in ConnectionIds |-> Unacked[c]]
  BY DEF Unacked
<1> QED BY ONLY <1>2, <1>3, <1>4

\* Of a step that moves one forwarder, the move of its connection is seen.
LEMMA OneMoves ==
  ASSUME TypeOK, Identity, TypeOK', Identity', cid' = cid,
         NEW g \in Forwarders, cid[g] # None, \A f \in Forwarders \ {g} : Kept(f)
  PROVE  /\ cid[g] \in ConnectionIds
         /\ Stage[cid[g]] = StageOf(g) /\ Unacked[cid[g]] = inflight[g]
         /\ Stage' = [Stage EXCEPT ![cid[g]] = StageOf(g)']
         /\ Unacked' = [Unacked EXCEPT ![cid[g]] = inflight'[g]]
<1>1. Maps /\ Maps'
  BY Mapped, PTL
<1>2. \A c \in ConnectionIds \ {cid[g]} : Stage'[c] = Stage[c] /\ Unacked'[c] = Unacked[c]
  BY <1>1, NoneAssumption DEF Kept, Maps
<1>3. /\ cid[g] \in ConnectionIds
      /\ Stage[cid[g]] = StageOf(g) /\ Unacked[cid[g]] = inflight[g]
      /\ Stage'[cid[g]] = StageOf(g)' /\ Unacked'[cid[g]] = inflight'[g]
  BY <1>1 DEF TypeOK, Maps
<1>4. Stage' = [c \in ConnectionIds |-> Stage'[c]] /\ Stage = [c \in ConnectionIds |-> Stage[c]]
  BY DEF Stage
<1>5. /\ Unacked' = [c \in ConnectionIds |-> Unacked'[c]]
      /\ Unacked = [c \in ConnectionIds |-> Unacked[c]]
  BY DEF Unacked
<1>6. Stage' = [Stage EXCEPT ![cid[g]] = StageOf(g)']
  BY ONLY <1>2, <1>3, <1>4
<1>7. Unacked' = [Unacked EXCEPT ![cid[g]] = inflight'[g]]
  BY ONLY <1>2, <1>3, <1>5
<1> QED BY <1>3, <1>6, <1>7

\* What ForwardedConnections sees of a step.
Seen == [Connections!Next]_<<Stage, Unacked, Ended>>

\* A forwarder whose stage, or whose message on the way, changes: its connection
\* becomes open, fails, closes, sends or is acknowledged.
LEMMA MoveSeen ==
  ASSUME TypeOK, Identity, TypeOK', Identity', cid' = cid, Ended' = Ended,
         NEW g \in Forwarders, cid[g] # None, \A f \in Forwarders \ {g} : Kept(f),
         \/ /\ inflight'[g] = inflight[g]
            /\ \/ StageOf(g) = "opening" /\ StageOf(g)' \in {"open", "over"}
               \/ StageOf(g) = "open" /\ StageOf(g)' = "over"
         \/ /\ StageOf(g)' = StageOf(g)
            /\ \/ StageOf(g) # "opening" /\ inflight[g] = 0 /\ inflight'[g] = 1
               \/ inflight[g] = 1 /\ inflight'[g] = 0
  PROVE  Seen
<1> DEFINE c == cid[g]
<1>1. /\ c \in ConnectionIds /\ Stage[c] = StageOf(g) /\ Unacked[c] = inflight[g]
      /\ Stage' = [Stage EXCEPT ![c] = StageOf(g)']
      /\ Unacked' = [Unacked EXCEPT ![c] = inflight'[g]]
  BY OneMoves
<1>2. StageOf(g) \in {"opening", "open", "over"}
  BY DEF StageOf
<1>3. /\ inflight'[g] = inflight[g] => Unacked' = Unacked
      /\ StageOf(g)' = StageOf(g) => Stage' = Stage
  <2>1. /\ Stage = [d \in ConnectionIds |-> Stage[d]]
        /\ Unacked = [d \in ConnectionIds |-> Unacked[d]]
    BY DEF Stage, Unacked
  <2>2. /\ Stage = [Stage EXCEPT ![c] = Stage[c]]
        /\ Unacked = [Unacked EXCEPT ![c] = Unacked[c]]
    BY ONLY <2>1
  <2> QED BY <1>1, <2>2
<1>4. /\ Connections!Established(c) \/ Connections!Fails(c) \/ Connections!Close(c) => Seen
      /\ Connections!Send(c) \/ Connections!Acknowledge(c) => Seen
  BY <1>1 DEF Seen, Connections!Next
<1> USE DEF Stage, Unacked, Ended
<1>5. CASE inflight'[g] = inflight[g] /\ StageOf(g) = "opening" /\ StageOf(g)' = "open"
  <2>1. Connections!Established(c)
    BY <1>1, <1>3, <1>5 DEF Connections!Established, Connections!Become
  <2> QED BY <1>4, <2>1
<1>6. CASE inflight'[g] = inflight[g] /\ StageOf(g) = "opening" /\ StageOf(g)' = "over"
  <2>1. Connections!Fails(c)
    BY <1>1, <1>3, <1>6 DEF Connections!Fails, Connections!Become
  <2> QED BY <1>4, <2>1
<1>7. CASE inflight'[g] = inflight[g] /\ StageOf(g) = "open" /\ StageOf(g)' = "over"
  <2>1. Connections!Close(c)
    BY <1>1, <1>3, <1>7 DEF Connections!Close, Connections!Become
  <2> QED BY <1>4, <2>1
<1>8. CASE /\ StageOf(g)' = StageOf(g) /\ StageOf(g) # "opening"
           /\ inflight[g] = 0 /\ inflight'[g] = 1
  <2>1. Connections!Send(c)
    BY <1>1, <1>2, <1>3, <1>8 DEF Connections!Send
  <2> QED BY <1>4, <2>1
<1>9. CASE StageOf(g)' = StageOf(g) /\ inflight[g] = 1 /\ inflight'[g] = 0
  <2>1. Connections!Acknowledge(c)
    BY <1>1, <1>3, <1>9 DEF Connections!Acknowledge
  <2> QED BY <1>4, <2>1
<1> QED BY <1>5, <1>6, <1>7, <1>8, <1>9

\* The session goroutine opens a connection, one at a time.
LEMMA NewSeen ==
  ASSUME TypeOK, Identity, TypeOK', Identity', FreshIds,
         NEW c \in ConnectionIds, NEW f \in Forwarders, New(c, f)
  PROVE  Seen
<1> USE NoneAssumption DEF mapVars, sessVars, goroutines, bounds
<1>1. /\ sess = "idle" /\ sess' = "connect" /\ cur' = f /\ cid[f] = None
      /\ cid' = [cid EXCEPT ![f] = c] /\ UNCHANGED <<closed, conn, inflight>>
      /\ \A g \in Forwarders : cid[g] # c
  BY DEF New
<1>2. /\ cid'[f] = c /\ \A g \in Forwarders \ {f} : cid'[g] = cid[g]
      /\ inflight[f] = 0
  BY <1>1 DEF TypeOK, Identity
<1>3. /\ \A g \in Forwarders : StageOf(g) # "opening"
      /\ StageOf(f)' = "opening"
      /\ \A g \in Forwarders \ {f} : Kept(g)
  BY <1>1 DEF StageOf, Kept
<1>4. Maps /\ Maps'
  BY Mapped, PTL
<1>5. Stage[c] = "unused" /\ Stage'[c] = "opening" /\ Unacked[c] = 0 /\ Unacked'[c] = 0
  BY <1>1, <1>2, <1>3, <1>4 DEF Maps
<1>6. \A d \in ConnectionIds \ {c} : Stage'[d] = Stage[d] /\ Unacked'[d] = Unacked[d]
  BY <1>1, <1>2, <1>3, <1>4 DEF Kept, Maps
<1>7. \A d \in ConnectionIds : Stage[d] # "opening"
  BY <1>3, <1>4 DEF Maps
<1>8. /\ Stage' = [d \in ConnectionIds |-> Stage'[d]]
      /\ Stage = [d \in ConnectionIds |-> Stage[d]]
      /\ Unacked' = [d \in ConnectionIds |-> Unacked'[d]]
      /\ Unacked = [d \in ConnectionIds |-> Unacked[d]]
  BY DEF Stage, Unacked
<1>9. Stage' = [Stage EXCEPT ![c] = "opening"]
  BY ONLY <1>5, <1>6, <1>8, c \in ConnectionIds
<1>10. Unacked' = Unacked
  BY ONLY <1>5, <1>6, <1>8
<1>11. Connections!Open(c)
  BY <1>1, <1>5, <1>7, <1>9, <1>10 DEF Connections!Open, Connections!Become,
                                        Stage, Unacked, Ended
<1> QED BY <1>11 DEF Seen, Connections!Next

\* Whom nothing changes of: his stage is that of before, unless he is the one whose
\* connection the session makes.
LEMMA StageKept ==
  ASSUME NEW f \in Forwarders, sess # "connect" \/ cur # f, sess' # "connect" \/ cur' # f,
         conn'[f] = conn[f], closed'[f] = closed[f]
  PROVE  StageOf(f)' = StageOf(f)
BY DEF StageOf

\* A step that is not seen.
LEMMA QuietSeen ==
  ASSUME TypeOK, Identity, TypeOK', Identity', cid' = cid, \A f \in Forwarders : Kept(f),
         Ended' = Ended
  PROVE  Seen
BY NoneMoves DEF Seen

\* What is seen of the session goroutine's steps.
LEMMA SessionSeen ==
  ASSUME TypeOK, TypeOK', FreshIds, Fresh, Identity', Timely,
         Serve \/ SessionStep \/ WriteAccepted
  PROVE  Seen
<1> USE NoneAssumption DEF mapVars, sessVars, goroutines, bounds
<1>0. /\ Identity /\ Connecting /\ Marked /\ Visits /\ Started
      /\ sess \notin {"idle", "shutdown", "end"} => cur \in Forwarders /\ cid[cur] # None
  BY DEF Fresh, Timely, Identity, TypeOK
<1>1. CASE \E c \in ConnectionIds, f \in Forwarders : New(c, f)
  BY <1>0, <1>1, NewSeen
<1>2. CASE Connected \/ ConnectFails
  <2>1. PICK g \in Forwarders : g = cur
    BY <1>0, <1>2 DEF Connected, ConnectFails
  <2>2. /\ sess = "connect" /\ sess' = "idle" /\ UNCHANGED <<cid, closed, inflight>>
        /\ \A f \in Forwarders \ {g} : conn'[f] = conn[f]
        /\ conn'[g] \in {"open", "none"} /\ ~closed[g] /\ cid[g] # None
    BY <1>0, <1>2, <2>1 DEF Connected, ConnectFails, Connecting, Started, TypeOK
  <2>3. StageOf(g) = "opening" /\ StageOf(g)' \in {"open", "over"}
    BY <2>1, <2>2 DEF StageOf
  <2>4. \A f \in Forwarders \ {g} : Kept(f)
    BY <2>1, <2>2, StageKept DEF Kept
  <2>5. Ended' = Ended
    BY <2>2 DEF Ended
  <2> QED BY <1>0, <2>2, <2>3, <2>4, <2>5, MoveSeen
<1>3. CASE SessionCloses
  <2>1. PICK g \in Forwarders : g = cur /\ cid[g] # None
    BY <1>0, <1>3 DEF SessionCloses, CloseStep
  <2>2. /\ sess \in Closing /\ sess' \notin {"connect", "end"}
        /\ UNCHANGED <<cid, inflight, cur>>
        /\ CloseSet(g) \/ (closed[g] /\ (CloseConn(g) \/ CloseDelete(g)))
    BY <1>0, <1>3, <2>1 DEF SessionCloses, CloseStep, CloseSet, CloseConn, CloseDelete,
                            TypeOK, Closing, Marked
  <2>3. \A f \in Forwarders \ {g} : Kept(f)
    <3>1. \A f \in Forwarders \ {g} : conn'[f] = conn[f] /\ closed'[f] = closed[f]
      BY <2>2 DEF CloseSet, CloseConn, CloseDelete, TypeOK
    <3> QED BY <2>2, <3>1, StageKept DEF Kept, Closing
  <2>4. /\ Ended' = Ended
        /\ StageOf(g) = IF Unclosed(g) THEN "open" ELSE "over"
        /\ StageOf(g)' = IF Unclosed(g)' THEN "open" ELSE "over"
    BY <2>2 DEF Ended, Closing, StageOf, Unclosed
  <2>5. ~Unclosed(g)'
    BY <2>2 DEF CloseSet, CloseConn, CloseDelete, Unclosed, TypeOK
  <2>6. CASE Unclosed(g)
    BY <1>0, <2>1, <2>2, <2>3, <2>4, <2>5, <2>6, MoveSeen
  <2>7. CASE ~Unclosed(g)
    BY <1>0, <2>2, <2>3, <2>4, <2>5, <2>7, QuietSeen DEF Kept
  <2> QED BY <2>6, <2>7
<1>4. CASE ShutdownEnds
  <2>1. /\ sess = "shutdown" /\ todo = {} /\ sess' = "end"
        /\ UNCHANGED <<cid, closed, conn, inflight>>
    BY <1>4 DEF ShutdownEnds
  <2>2. \A f \in Forwarders : Kept(f) /\ StageOf(f) = "over"
    BY <1>0, <2>1, StageKept DEF Kept, Visits, Unclosed, StageOf
  <2>3. Stage' = Stage /\ Unacked' = Unacked
    BY <1>0, <2>1, <2>2, NoneMoves
  <2>4. \A c \in ConnectionIds : Stage[c] \in {"unused", "over"}
    BY <1>0, <2>2, Mapped DEF Maps
  <2>5. Connections!End
    BY <2>1, <2>3, <2>4 DEF Connections!End, Stage, Unacked, Ended
  <2> QED BY <2>5 DEF Seen, Connections!Next
<1>5. CASE \/ \E c \in ConnectionIds : Stop(c) \/ Forward(c)
           \/ Shutdown \/ Stopped \/ WriteFails \/ WriteAccepted \/ ShutdownNext
  <2>1. /\ sess \notin {"connect", "end"} /\ sess' \notin {"connect", "end"}
        /\ UNCHANGED <<cid, closed, conn, inflight>>
    BY <1>5 DEF Stop, Forward, Shutdown, Stopped, WriteFails, WriteAccepted, WriteReturns,
                ShutdownNext, CallClose
  <2>2. \A f \in Forwarders : Kept(f)
    BY <2>1, StageKept DEF Kept
  <2>3. Ended' = Ended
    BY <2>1 DEF Ended
  <2> QED BY <1>0, <2>1, <2>2, <2>3, QuietSeen
<1> QED BY <1>1, <1>2, <1>3, <1>4, <1>5 DEF Serve, SessionStep

\* What is seen of the steps of a forwarder's goroutines and of its server.
LEMMA ForwarderSeen ==
  ASSUME TypeOK, TypeOK', FreshIds, Fresh, Identity', Timely, NEW g \in Forwarders,
         ReaderStep(g) \/ InnerReads(g) \/ ServerEnds(g)
  PROVE  Seen
<1> USE NoneAssumption DEF mapVars, sessVars, goroutines, bounds
<1>0. /\ Identity /\ Connecting /\ Marked /\ Locks
      /\ reader[g] # "off" => conn[g] # "none" /\ cid[g] # None
  BY DEF Fresh, Identity
<1>1. /\ UNCHANGED <<cid, sess, cur>> /\ Ended' = Ended
      /\ \A f \in Forwarders \ {g} : conn'[f] = conn[f] /\ closed'[f] = closed[f]
                                     /\ inflight'[f] = inflight[f]
  BY DEF ReaderStep, ReaderTakesData, ReaderTakesError, ReaderTimeout, ReaderDone,
         ReaderCloses, CloseStep, CloseSet, CloseConn, CloseDelete, ReaderLocks, ReaderSends,
         ReaderOnly, InnerReads, ServerEnds, TypeOK, Ended
<1>2. \A f \in Forwarders \ {g} : Kept(f)
  BY <1>1 DEF Kept, StageOf
<1>3. CASE ReaderCloses(g)
  <2>1. /\ UNCHANGED inflight /\ reader[g] # "off"
        /\ CloseSet(g) \/ (closed[g] /\ (CloseConn(g) \/ CloseDelete(g)))
    BY <1>0, <1>3 DEF ReaderCloses, CloseStep, Marked
  <2>2. /\ ~(sess = "connect" /\ cur = g)
    BY <1>0, <2>1 DEF Connecting
  <2>3. CASE StageOf(g)' = StageOf(g)
    BY <1>0, <1>1, <1>2, <2>1, <2>3, QuietSeen DEF Kept
  <2>4. CASE StageOf(g)' # StageOf(g)
    <3>1. StageOf(g) = "open" /\ StageOf(g)' = "over"
      BY <1>1, <2>1, <2>2, <2>4 DEF StageOf, CloseSet, CloseConn, CloseDelete, TypeOK
    <3> QED BY <1>0, <1>1, <1>2, <2>1, <3>1, MoveSeen
  <2> QED BY <2>3, <2>4
<1>4. CASE ReaderSends(g)
  <2>1. /\ UNCHANGED <<conn, closed>> /\ reader[g] = "send"
        /\ \/ inflight' = inflight
           \/ Acks /\ inflight' = [inflight EXCEPT ![g] = @ + 1]
    BY <1>4 DEF ReaderSends, ReaderOnly, TypeOK
  <2>2. StageOf(g)' = StageOf(g) /\ StageOf(g) # "opening"
    BY <1>0, <1>1, <2>1 DEF StageOf, Connecting
  <2>3. CASE inflight' = inflight
    BY <1>0, <1>1, <1>2, <2>2, <2>3, QuietSeen DEF Kept
  <2>4. CASE Acks /\ inflight' = [inflight EXCEPT ![g] = @ + 1]
    <3>1. inflight[g] = 0 /\ inflight'[g] = 1
      BY <1>0, <2>1, <2>4 DEF Locks, TypeOK
    <3> QED BY <1>0, <1>1, <1>2, <2>1, <2>2, <3>1, MoveSeen
  <2> QED BY <2>1, <2>3, <2>4
<1>5. CASE ~ReaderCloses(g) /\ ~ReaderSends(g)
  <2>1. /\ UNCHANGED <<closed, inflight>>
        /\ conn' = conn \/ (conn[g] = "open" /\ conn' = [conn EXCEPT ![g] = "eof"])
    BY <1>5 DEF ReaderStep, ReaderTakesData, ReaderTakesError, ReaderTimeout, ReaderDone,
                ReaderLocks, ReaderOnly, InnerReads, ServerEnds
  <2>2. Kept(g)
    BY <1>1, <2>1 DEF Kept, StageOf, TypeOK
  <2> QED BY <1>0, <1>1, <1>2, <2>2, QuietSeen
<1> QED BY <1>3, <1>4, <1>5

\* What is seen of an acknowledgement, and of the end of the process.
LEMMA FatalSeen ==
  ASSUME TypeOK, TypeOK', FreshIds, Fresh, Identity', NEW g \in Forwarders,
         Ack(g) \/ MapFault(g)
  PROVE  Seen
<1> USE DEF mapVars, sessVars, goroutines, bounds
<1>0. Identity /\ Locks
  BY DEF Fresh
<1>1. UNCHANGED <<cid, sess, cur, conn, closed>> /\ Ended' = Ended
  BY DEF Ack, MapFault, Ended
<1>2. \A f \in Forwarders : StageOf(f)' = StageOf(f)
  BY <1>1 DEF StageOf
<1>3. CASE Ack(g)
  <2>1. inflight[g] > 0 /\ inflight' = [inflight EXCEPT ![g] = @ - 1]
    BY <1>3 DEF Ack
  <2>2. inflight[g] = 1 /\ inflight'[g] = 0 /\ cid[g] # None
    BY <1>0, <2>1 DEF Locks, Identity, TypeOK
  <2>3. \A f \in Forwarders \ {g} : Kept(f)
    BY <1>2, <2>1 DEF Kept, TypeOK
  <2> QED BY <1>0, <1>1, <1>2, <2>2, <2>3, MoveSeen
<1>4. CASE MapFault(g)
  <2>1. inflight' = inflight
    BY <1>4 DEF MapFault
  <2> QED BY <1>0, <1>1, <1>2, <2>1, QuietSeen DEF Kept
<1> QED BY <1>3, <1>4

\* For a client that uses each connection id once, port forwarding implements
\* ForwardedConnections: a connection opens once and is closed once, whichever of
\* the session and its reader gets there first, the client has one message of it
\* to acknowledge at most, and none is open when Close has returned.
THEOREM ImplementsForwardedConnections == FreshIds => (Spec => IsForwardedConnections)
<1> SUFFICES ASSUME FreshIds PROVE Spec => IsForwardedConnections
  OBVIOUS
<1>1. Init => Connections!Init
  <2> SUFFICES ASSUME Init PROVE Connections!Init
    OBVIOUS
  <2>1. sess = "idle" /\ \A f \in Forwarders : cid[f] = None
    BY DEF Init
  <2>2. \A c \in ConnectionIds : Of(c) = {}
    BY <2>1, NoneAssumption DEF Of
  <2> QED BY <2>1, <2>2 DEF Connections!Init
<1>2. IndInv /\ IndInv' /\ Timely /\ [Next]_vars
        => [Connections!Next]_(Connections!connectionVars)
  <2> SUFFICES ASSUME IndInv, IndInv', Timely, [Next]_vars PROVE Seen
    BY DEF Seen, Stage, Unacked, Ended, Connections!connectionVars
  <2>0. TypeOK /\ TypeOK' /\ Fresh /\ Identity /\ Identity'
    BY DEF IndInv, Fresh
  <2>1. CASE UNCHANGED vars
    <3>1. cid' = cid /\ Ended' = Ended /\ \A f \in Forwarders : Kept(f)
      BY <2>1 DEF vars, Kept, StageOf, Ended
    <3> QED BY <2>0, <3>1, QuietSeen
  <2>2. CASE Next
    BY <2>0, <2>2, SessionSeen, ForwarderSeen, FatalSeen DEF Next
  <2> QED BY <2>1, <2>2
<1> QED BY <1>1, <1>2, IndInvHolds, TimelyHolds, PTL
        DEF Spec, IsForwardedConnections, Connections!Spec
=============================================================================
