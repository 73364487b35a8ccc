------------------------ MODULE RouterSessionProofs ------------------------
(***************************************************************************)
(* Proofs about RouterSession, for any sessions, ids, protocols and number *)
(* of messages.  OneSessionPerId is not inductive: a session is replaced   *)
(* only when the map has lost it, so what is carried along is that every   *)
(* session between its creation and its deletion is the one that the map   *)
(* holds for its id.                                                       *)
(***************************************************************************)
EXTENDS RouterSession, TLAPS

LiveIsRegistered ==
    \A s \in Sessions : Live(s) => sid[s] \in SessionIds /\ sessions[sid[s]] = s

IndInv == TypeOK /\ LiveIsRegistered /\ HandlersFreed

\* The initial state, with no session, satisfies the invariant.
LEMMA InitIndInv == Init => IndInv
  BY BoundAssumption, NoneAssumption
  DEF Init, IndInv, TypeOK, LiveIsRegistered, HandlersFreed, Live, Phases

\* RouteMessage up to the handoff: types and the registration of the session.
LEMMA RouteKeeps == ASSUME IndInv, Route PROVE IndInv'
<1> USE NoneAssumption, BoundAssumption
<1>1. CASE \E i \in SessionIds, m \in Messages : RouteExisting(i, m)
  BY <1>1 DEF IndInv, TypeOK, LiveIsRegistered, HandlersFreed, Live, RouteExisting, Receive
<1>2. CASE \E i \in SessionIds, m \in Messages, s \in Sessions : RouteNew(i, m, s)
  <2>1. PICK i \in SessionIds, m \in Messages, s \in Sessions : RouteNew(i, m, s)
    BY <1>2
  <2>2. TypeOK'
    BY <2>1 DEF IndInv, TypeOK, RouteNew, Receive, Goto, Phases
  <2>3. LiveIsRegistered'
    BY <2>1 DEF IndInv, TypeOK, LiveIsRegistered, Live, RouteNew, Goto
  <2>4. HandlersFreed'
    BY <2>1 DEF IndInv, TypeOK, HandlersFreed, RouteNew, Goto
  <2> QED BY <2>2, <2>3, <2>4 DEF IndInv
<1> QED BY <1>1, <1>2 DEF Route

\* The end of RouteMessage: the message is taken or refused.
LEMMA HandoffKeeps == ASSUME IndInv, Handoff \/ HandoffRefused PROVE IndInv'
<1> USE NoneAssumption
<1>1. CASE Handoff
  <2>1. TypeOK'
    BY <1>1 DEF IndInv, TypeOK, Handoff, Goto, Phases
  <2>2. LiveIsRegistered' /\ HandlersFreed'
    BY <1>1 DEF IndInv, TypeOK, LiveIsRegistered, HandlersFreed, Live, Handoff, Goto
  <2> QED BY <2>1, <2>2 DEF IndInv
<1>2. CASE HandoffRefused
  BY <1>2 DEF IndInv, TypeOK, LiveIsRegistered, HandlersFreed, Live, HandoffRefused
<1> QED BY <1>1, <1>2

\* Timer and pings.
LEMMA TimerKeeps ==
  ASSUME IndInv, NEW s \in Sessions,
         Start(s) \/ TimerFires(s) \/ Tick(s) \/ PingSent(s) \/ PingFails(s)
  PROVE  IndInv'
<1>1. CASE Start(s)
  BY <1>1 DEF IndInv, TypeOK, LiveIsRegistered, HandlersFreed, Live, Start, Goto, Phases
<1>2. CASE TimerFires(s)
  <2>1. tick' \in [Sessions -> {<<>>, <<"ping">>, <<"pong">>}]
    BY <1>2 DEF IndInv, TypeOK, TimerFires
  <2> QED
    BY <1>2, <2>1 DEF IndInv, TypeOK, LiveIsRegistered, HandlersFreed, Live, TimerFires
<1>3. CASE Tick(s)
  BY <1>3 DEF IndInv, TypeOK, LiveIsRegistered, HandlersFreed, Live, Tick, Goto, Phases
<1>4. CASE PingSent(s)
  BY <1>4 DEF IndInv, TypeOK, LiveIsRegistered, HandlersFreed, Live, PingSent, Goto, Phases
<1>5. CASE PingFails(s)
  BY <1>5 DEF IndInv, TypeOK, LiveIsRegistered, HandlersFreed, Live, PingFails, Goto, Phases
<1> QED BY <1>1, <1>2, <1>3, <1>4, <1>5

\* Serving a message: handlers are only created between listen and unwind.
LEMMA ServeKeeps ==
  ASSUME IndInv, NEW s \in Sessions,
         ServeControl(s) \/ ServeUnrouted(s) \/ ServeHandler(s)
  PROVE  IndInv'
<1>1. PICK p \in {"listen", "unwind"} : phase[s] = "serve" /\ Served(s, p)
  BY DEF ServeControl, ServeUnrouted, ServeHandler
<1>2. /\ handlers' \in [Sessions -> Seq(Protos)]
      /\ \A t \in Sessions \ {s} : handlers'[t] = handlers[t]
  <2>1. CASE handlers' = handlers
    BY <2>1 DEF IndInv, TypeOK
  <2>2. CASE cur[s] \in Protos /\ handlers' = [handlers EXCEPT ![s] = Append(@, cur[s])]
    <3>1. Append(handlers[s], cur[s]) \in Seq(Protos)
      BY <2>2 DEF IndInv, TypeOK
    <3> QED BY <2>2, <3>1 DEF IndInv, TypeOK
  <2> QED BY <2>1, <2>2 DEF ServeControl, ServeUnrouted, ServeHandler
<1>3. TypeOK'
  BY <1>1, <1>2 DEF IndInv, TypeOK, Served, Goto, Phases
<1>4. LiveIsRegistered' /\ HandlersFreed'
  BY <1>1, <1>2 DEF IndInv, TypeOK, LiveIsRegistered, HandlersFreed, Live, Served, Goto
<1> QED BY <1>3, <1>4 DEF IndInv

\* The end of a session: handlers, done, map entry.
LEMMA EndKeeps ==
  ASSUME IndInv, NEW s \in Sessions, CloseHandler(s) \/ CloseDone(s) \/ Delete(s)
  PROVE  IndInv'
<1>1. CASE CloseHandler(s)
  <2>1. SubSeq(handlers[s], 1, Len(handlers[s]) - 1) \in Seq(Protos)
    <3>1. handlers[s] \in Seq(Protos) /\ Len(handlers[s]) \in Nat
      BY DEF IndInv, TypeOK
    <3> QED BY <3>1
  <2> QED
    BY <1>1, <2>1 DEF IndInv, TypeOK, LiveIsRegistered, HandlersFreed, Live, CloseHandler
<1>2. CASE CloseDone(s)
  BY <1>2 DEF IndInv, TypeOK, LiveIsRegistered, HandlersFreed, Live, CloseDone, Goto, Phases
<1>3. CASE Delete(s)
  <2>1. sid[s] \in SessionIds /\ sessions[sid[s]] = s
    BY <1>3 DEF IndInv, LiveIsRegistered, Live, Delete
  <2>2. TypeOK'
    BY <1>3, <2>1 DEF IndInv, TypeOK, Delete, Goto, Phases
  <2>3. LiveIsRegistered'
    BY <1>3, <2>1 DEF IndInv, TypeOK, LiveIsRegistered, Live, Delete, Goto
  <2>4. HandlersFreed'
    BY <1>3 DEF IndInv, TypeOK, HandlersFreed, Delete, Goto
  <2> QED BY <2>2, <2>3, <2>4 DEF IndInv
<1> QED BY <1>1, <1>2, <1>3

\* Every reachable state of router and sessions satisfies the invariant.
THEOREM IndInvHolds == Spec => []IndInv
<1>1. IndInv /\ [Next]_vars => IndInv'
  <2> SUFFICES ASSUME IndInv, [Next]_vars PROVE IndInv'
    OBVIOUS
  <2>1. CASE UNCHANGED vars
    BY <2>1 DEF IndInv, TypeOK, LiveIsRegistered, HandlersFreed, Live, vars
  <2>2. CASE Next
    BY <2>2, RouteKeeps, HandoffKeeps, TimerKeeps, ServeKeeps, EndKeeps
    DEF Next, SessionStep
  <2> QED BY <2>1, <2>2
<1> QED BY <1>1, InitIndInv, PTL DEF Spec

\* The variables keep their types; in particular the timer's channel holds at
\* most one tick.
THEOREM TypeCorrect == Spec => []TypeOK
<1>1. IndInv => TypeOK
  BY DEF IndInv
<1> QED BY <1>1, IndInvHolds, PTL

\* Handlers are closed before their session is done, however it ends.
THEOREM HandlersFreedHolds == Spec => []HandlersFreed
<1>1. IndInv => HandlersFreed
  BY DEF IndInv
<1> QED BY <1>1, IndInvHolds, PTL

\* RouteMessage and startSession never let two sessions of an id coexist.
THEOREM OneSessionPerIdHolds == Spec => []OneSessionPerId
<1>1. IndInv => OneSessionPerId
  BY DEF IndInv, LiveIsRegistered, OneSessionPerId
<1> QED BY <1>1, IndInvHolds, PTL

-----------------------------------------------------------------------------
(* RouterSession implements SessionService.                                *)

\* Only a session that serves has a message, the map holds under an id a session
\* of that id, and the session that a message is handed to is the last one of
\* its id.
HandoverInv ==
    /\ \A s \in Sessions : cur[s] # None => phase[s] = "serve"
    /\ \A i \in SessionIds : sessions[i] # None => /\ sid[sessions[i]] = i
                                                   /\ Live(sessions[i])
    /\ target # None => /\ msg # None
                        /\ sid[target] \in SessionIds
                        /\ sessions[sid[target]] \in {target, None}

\* The steps of Next, each with the effect it has on what HandoverInv is about.
LEMMA HandoverKeeps == ASSUME IndInv, HandoverInv, Next PROVE HandoverInv'
<1> USE NoneAssumption, ProtoAssumption DEF IndInv, TypeOK, HandoverInv, Live
<1>1. CASE Route
  <2>1. CASE \E i \in SessionIds, m \in Messages : RouteExisting(i, m)
    <3>1. PICK i \in SessionIds, m \in Messages : RouteExisting(i, m)
      BY <2>1
    <3> QED BY <3>1 DEF RouteExisting, Receive, Messages
  <2>2. CASE \E i \in SessionIds, m \in Messages, s \in Sessions : RouteNew(i, m, s)
    BY <2>2 DEF RouteNew, Receive, Messages, Goto
  <2> QED BY <1>1, <2>1, <2>2 DEF Route
<1>2. CASE Handoff
  BY <1>2 DEF Handoff, Goto
<1>3. CASE HandoffRefused
  BY <1>3 DEF HandoffRefused
<1>4. ASSUME NEW s \in Sessions, SessionStep(s) \/ TimerFires(s) PROVE HandoverInv'
  <2>1. CASE Start(s) \/ TimerFires(s) \/ Tick(s) \/ PingSent(s) \/ PingFails(s)
    BY <2>1 DEF Start, TimerFires, Tick, PingSent, PingFails, Goto
  <2>2. CASE ServeControl(s) \/ ServeUnrouted(s) \/ ServeHandler(s)
    <3>1. PICK p \in {"listen", "unwind"} : phase[s] = "serve" /\ Served(s, p)
      BY <2>2 DEF ServeControl, ServeUnrouted, ServeHandler
    <3> QED BY <3>1 DEF Served, Goto
  <2>3. CASE CloseHandler(s) \/ CloseDone(s)
    BY <2>3 DEF CloseHandler, CloseDone, Goto
  <2>4. CASE Delete(s)
    BY <2>4 DEF Delete, Goto
  <2> QED BY <1>4, <2>1, <2>2, <2>3, <2>4 DEF SessionStep
<1> QED BY <1>1, <1>2, <1>3, <1>4 DEF Next

LEMMA HandoverHolds == Spec => []HandoverInv
<1>1. Init => HandoverInv
  BY NoneAssumption DEF Init, HandoverInv
<1>2. IndInv /\ HandoverInv /\ [Next]_vars => HandoverInv'
  <2> SUFFICES ASSUME IndInv, HandoverInv, [Next]_vars PROVE HandoverInv'
    OBVIOUS
  <2>1. CASE UNCHANGED vars
    BY <2>1 DEF HandoverInv, Live, vars
  <2> QED BY <2>1, HandoverKeeps
<1> QED BY <1>1, <1>2, IndInvHolds, PTL DEF Spec

\* One step of the router or a session is a step of the service, or none.
LEMMA StepRefines ==
  ASSUME IndInv, HandoverInv, Next PROVE Service!Next \/ UNCHANGED Service!serviceVars
<1> USE NoneAssumption DEF IndInv, TypeOK, HandoverInv, LiveIsRegistered, Live, Ended
<1>0. /\ \A s, t \in Sessions : Live(s) /\ Live(t) /\ sid[s] = sid[t] => s = t
      /\ \A s \in Sessions : cur[s] # None => Live(s) /\ phase[s] = "serve"
  OBVIOUS
<1>1. CASE Route
  <2>1. CASE \E i \in SessionIds, m \in Messages : RouteExisting(i, m)
    <3>1. PICK i \in SessionIds, m \in Messages : RouteExisting(i, m)
      BY <2>1
    <3>2. UNCHANGED <<LiveIds, ServingIds>>
      BY <3>1 DEF RouteExisting, LiveIds, ServingIds
    <3>3. PendingId = None /\ PendingId' = i
      BY <3>1 DEF RouteExisting, Receive, PendingId
    <3>4. Service!Call(i)
      BY <3>2, <3>3 DEF Service!Call
    <3> QED BY <3>4 DEF Service!Next
  <2>2. CASE \E i \in SessionIds, m \in Messages, s \in Sessions : RouteNew(i, m, s)
    <3>1. PICK i \in SessionIds, m \in Messages, s \in Sessions : RouteNew(i, m, s)
      BY <2>2
    <3>2. LiveIds' = LiveIds \cup {i}
      BY <3>1 DEF RouteNew, Goto, LiveIds
    <3>3. ServingIds' = ServingIds
      BY <3>1 DEF RouteNew, Goto, ServingIds
    <3>4. PendingId = None /\ PendingId' = i
      BY <3>1 DEF RouteNew, Receive, PendingId
    <3>5. Service!Call(i)
      BY <3>2, <3>3, <3>4 DEF Service!Call
    <3> QED BY <3>5 DEF Service!Next
  <2> QED BY <1>1, <2>1, <2>2 DEF Route
<1>2. CASE Handoff
  <2>1. /\ PendingId = sid[target] /\ PendingId' = None /\ PendingId # None
        /\ target \in Sessions /\ sid[target] \in SessionIds
    BY <1>2 DEF Handoff, PendingId
  <2>2. LiveIds' = LiveIds /\ sid[target] \in LiveIds
    BY <1>2, <2>1 DEF Handoff, Goto, LiveIds
  <2>3. sid[target] \notin ServingIds
    BY <1>0, <1>2, <2>1 DEF Handoff, ServingIds
  <2>4. msg # None
    BY <1>2 DEF Handoff
  <2>5. ServingIds' = ServingIds \cup {sid[target]}
    BY <1>2, <2>1, <2>4 DEF Handoff, ServingIds
  <2>6. Service!Accept
    BY <2>1, <2>2, <2>3, <2>5 DEF Service!Accept
  <2> QED BY <2>6 DEF Service!Next
<1>3. CASE HandoffRefused
  <2>1. /\ PendingId = sid[target] /\ PendingId' = None /\ PendingId # None
        /\ target \in Sessions /\ sid[target] \in SessionIds
    BY <1>3 DEF HandoffRefused, PendingId
  <2>2. sid[target] \notin LiveIds
    BY <1>3, <2>1 DEF HandoffRefused, LiveIds
  <2>3. UNCHANGED <<LiveIds, ServingIds>>
    BY <1>3 DEF HandoffRefused, LiveIds, ServingIds
  <2>4. Service!Refuse
    BY <2>1, <2>2, <2>3 DEF Service!Refuse
  <2> QED BY <2>4 DEF Service!Next
<1>4. ASSUME NEW s \in Sessions, SessionStep(s) \/ TimerFires(s)
      PROVE  Service!Next \/ UNCHANGED Service!serviceVars
  <2>1. UNCHANGED PendingId
    BY <1>4 DEF SessionStep, Start, TimerFires, Tick, PingSent, PingFails, ServeControl,
         ServeUnrouted, ServeHandler, Served, CloseHandler, CloseDone, Delete, PendingId
  <2>2. CASE Start(s) \/ TimerFires(s) \/ Tick(s) \/ PingSent(s) \/ PingFails(s)
    <3>1. UNCHANGED <<LiveIds, ServingIds>>
      <4>1. CASE Start(s)
        BY <4>1 DEF Start, Goto, LiveIds, ServingIds
      <4>2. CASE TimerFires(s)
        BY <4>2 DEF TimerFires, LiveIds, ServingIds
      <4>3. CASE Tick(s)
        BY <4>3 DEF Tick, Goto, LiveIds, ServingIds
      <4>4. CASE PingSent(s)
        BY <4>4 DEF PingSent, Goto, LiveIds, ServingIds
      <4>5. CASE PingFails(s)
        BY <4>5 DEF PingFails, Goto, LiveIds, ServingIds
      <4> QED BY <2>2, <4>1, <4>2, <4>3, <4>4, <4>5
    <3> QED BY <2>1, <3>1 DEF Service!serviceVars
  <2>3. CASE ServeControl(s) \/ ServeUnrouted(s) \/ ServeHandler(s)
    <3>1. PICK p \in {"listen", "unwind"} :
            phase[s] = "serve" /\ cur[s] # None /\ Served(s, p)
      BY <2>3, ProtoAssumption DEF ServeControl, ServeUnrouted, ServeHandler
    <3>2. sid[s] \in SessionIds /\ sid[s] \in ServingIds
      BY <3>1 DEF ServingIds
    <3>3. UNCHANGED LiveIds
      BY <3>1 DEF Served, Goto, LiveIds
    <3>4. ServingIds' = ServingIds \ {sid[s]}
      BY <1>0, <3>1, <3>2 DEF Served, ServingIds
    <3>5. Service!Finish(sid[s])
      BY <2>1, <3>2, <3>3, <3>4 DEF Service!Finish
    <3> QED BY <3>2, <3>5 DEF Service!Next
  <2>4. CASE CloseHandler(s) \/ Delete(s)
    <3>1. UNCHANGED <<LiveIds, ServingIds>>
      <4>1. CASE CloseHandler(s)
        BY <4>1 DEF CloseHandler, LiveIds, ServingIds
      <4>2. CASE Delete(s)
        BY <4>2 DEF Delete, Goto, LiveIds, ServingIds
      <4> QED BY <2>4, <4>1, <4>2
    <3> QED BY <2>1, <3>1 DEF Service!serviceVars
  <2>5. CASE CloseDone(s)
    <3>1. /\ sid[s] \in SessionIds /\ sid[s] \in LiveIds
          /\ sid[s] \notin ServingIds
      BY <1>0, <2>5 DEF CloseDone, LiveIds, ServingIds
    <3>2. LiveIds' = LiveIds \ {sid[s]}
      <4>1. UNCHANGED sid /\ phase' = [phase EXCEPT ![s] = "done"] /\ phase[s] = "unwind"
        BY <2>5 DEF CloseDone, Goto
      <4>2. \A t \in Sessions : phase'[t] \notin Ended <=> phase[t] \notin Ended /\ t # s
        BY <4>1
      <4>3. \A t \in Sessions : phase[t] \notin Ended /\ t # s => sid[t] # sid[s]
        BY <1>0, <4>1
      <4> QED BY <4>1, <4>2, <4>3 DEF LiveIds
    <3>3. UNCHANGED ServingIds
      BY <2>5 DEF CloseDone, ServingIds
    <3>4. Service!End(sid[s])
      BY <2>1, <3>1, <3>2, <3>3 DEF Service!End
    <3> QED BY <3>1, <3>4 DEF Service!Next
  <2> QED BY <1>4, <2>2, <2>3, <2>4, <2>5 DEF SessionStep
<1> QED BY <1>1, <1>2, <1>3, <1>4 DEF Next

\* Router and sessions implement the service they promise to messageLoop.
THEOREM ImplementsService == Spec => IsSessionService
<1>1. Init => Service!Init
  BY DEF Init, Service!Init, LiveIds, ServingIds, PendingId, Ended
<1>2. IndInv /\ HandoverInv /\ [Next]_vars => [Service!Next]_(Service!serviceVars)
  <2> SUFFICES ASSUME IndInv, HandoverInv, [Next]_vars
               PROVE  Service!Next \/ UNCHANGED Service!serviceVars
    OBVIOUS
  <2>1. CASE UNCHANGED vars
    BY <2>1 DEF vars, Service!serviceVars, LiveIds, ServingIds, PendingId
  <2> QED BY <2>1, StepRefines
<1> QED BY <1>1, <1>2, IndInvHolds, HandoverHolds, PTL DEF Spec, IsSessionService, Service!Spec

=============================================================================
