---------------------------- MODULE PortForward ----------------------------
(***************************************************************************)
(* Port forwarding (session/portforward.go): one PortForwardHandler, the   *)
(* goroutine of its session, and two goroutines per forwarded connection.  *)
(*                                                                         *)
(*   sess       the session goroutine: new, stop, forward, ack, Close      *)
(*   reader[f]  MenderPortForwarder.Read: its select, then the websocket   *)
(*   inner[f]   the goroutine Read starts: it reads the connection         *)
(*                                                                         *)
(* The map of forwarders has no lock, Close may be called by the session   *)
(* and by the reader at once, and deletion goes by connection id.  In      *)
(* version 1 of the protocol (Acks) the reader holds mutexAck from sending *)
(* a message to the client's acknowledgement, which the session goroutine  *)
(* handles.                                                                *)
(*                                                                         *)
(* Environment: the client acknowledges a message at most once; a message  *)
(* to the client may be lost with the websocket; the local server may send *)
(* data, read, stop reading or close at any time.  The 600 seconds of a    *)
(* silent connection may pass at any time.  A New that is not valid, and a *)
(* message for an unknown connection, are answered and change nothing.     *)
(***************************************************************************)
EXTENDS Naturals, FiniteSets

CONSTANTS Forwarders,    \* MenderPortForwarder objects, created at most once each
          ConnectionIds,
          None,
          Acks,          \* TRUE for ProtoTypePortForward, FALSE for its version 2
          FreshIds,      \* the client never uses a connection id again
          MaxData,       \* bound: chunks that local servers send
          MaxForwards,   \* bound: forward messages from the client
          MaxFaults      \* bound: failed dials and lost messages

ASSUME NoneAssumption == None \notin Forwarders \cup ConnectionIds
ASSUME BoundAssumption == /\ Acks \in BOOLEAN /\ FreshIds \in BOOLEAN
                          /\ MaxData \in Nat /\ MaxForwards \in Nat
                          /\ MaxFaults \in Nat

VARIABLES portForwarders, \* connection id -> forwarder or None
          cid,            \* f.ConnectionID
          closed,         \* f.closed
          conn,           \* f.conn: "none", "open", "eof" (the server ended it), "closed"
          ctxDone,        \* f.ctx is cancelled
          mutexAck,       \* f.mutexAck is locked
          reader, inner,  \* where the two goroutines of f are
          sess,           \* where the session goroutine is
          cur, ret, todo, \* its forwarder, where Close returns to, ids left to visit
          inflight,       \* messages of f that the client has to acknowledge
          fatal,          \* the runtime has ended the process, and why
          data, forwards, faults

mapVars == <<portForwarders, cid>>
sessVars == <<sess, cur, ret, todo>>
goroutines == <<reader, inner>>
bounds == <<data, forwards, faults>>
vars == <<portForwarders, cid, closed, conn, ctxDone, mutexAck, reader, inner,
          sess, cur, ret, todo, inflight, fatal, data, forwards, faults>>

Closing == {"closeSet", "closeConn", "closeDelete"}
SessPCs == {"idle", "connect", "write", "stopping", "shutdown", "end"} \cup Closing
ReaderPCs == {"off", "select", "lock", "send", "end"} \cup Closing

Init ==
    /\ portForwarders = [c \in ConnectionIds |-> None]
    /\ cid = [f \in Forwarders |-> None]
    /\ closed = [f \in Forwarders |-> FALSE]
    /\ conn = [f \in Forwarders |-> "none"]
    /\ ctxDone = [f \in Forwarders |-> FALSE]
    /\ mutexAck = [f \in Forwarders |-> FALSE]
    /\ reader = [f \in Forwarders |-> "off"] /\ inner = [f \in Forwarders |-> "off"]
    /\ sess = "idle" /\ cur = None /\ ret = "stopping" /\ todo = {}
    /\ inflight = [f \in Forwarders |-> 0]
    /\ fatal = "no"
    \* A behaviour may have less of the bounds left than there is.
    /\ data \in 0..MaxData /\ forwards \in 0..MaxForwards /\ faults = 0

Registered(c) == portForwarders[c] # None
Unregister(c) == portForwarders' = [portForwarders EXCEPT ![c] = None]

-----------------------------------------------------------------------------
(* MenderPortForwarder.Close of f.  closed is tested by the caller and set *)
(* in a later step; a stop message to the client may come in between.      *)

CloseSet(f) ==
    /\ closed' = [closed EXCEPT ![f] = TRUE]
    /\ UNCHANGED <<mapVars, conn, ctxDone>>

CloseConn(f) ==
    /\ ctxDone' = [ctxDone EXCEPT ![f] = TRUE]
    /\ conn' = [conn EXCEPT ![f] = "closed"]
    /\ UNCHANGED <<mapVars, closed>>

\* Mutant: a closed forwarder stays in the map.
CloseDeleteNot(f) == UNCHANGED <<mapVars, closed, conn, ctxDone>>

\* The deferred delete: whatever the map holds for the id by now.
CloseDelete(f) ==
    /\ Unregister(cid[f])
    /\ UNCHANGED <<cid, closed, conn, ctxDone>>

\* The step of Close at pc, which continues at pcNext.
CloseStep(f, pc, pcNext, return) ==
    \/ pc = "closeSet" /\ CloseSet(f) /\ pcNext = "closeConn"
    \/ pc = "closeConn" /\ CloseConn(f) /\ pcNext = "closeDelete"
    \/ pc = "closeDelete" /\ CloseDelete(f) /\ pcNext = return

-----------------------------------------------------------------------------
(* The session goroutine.                                                  *)

New(c, f) ==
    /\ sess = "idle" /\ conn[f] = "none" /\ cid[f] = None
    /\ FreshIds => \A g \in Forwarders : cid[g] # c
    /\ portForwarders' = [portForwarders EXCEPT ![c] = f]
    /\ cid' = [cid EXCEPT ![f] = c]
    /\ sess' = "connect" /\ cur' = f
    /\ UNCHANGED <<closed, conn, ctxDone, mutexAck, goroutines, ret, todo, inflight, bounds>>

\* Connect succeeds and starts Read, which starts the inner goroutine.
Connected ==
    /\ sess = "connect"
    /\ conn' = [conn EXCEPT ![cur] = "open"]
    /\ reader' = [reader EXCEPT ![cur] = "select"]
    /\ inner' = [inner EXCEPT ![cur] = "read"]
    /\ sess' = "idle" /\ cur' = None
    /\ UNCHANGED <<mapVars, closed, ctxDone, mutexAck, ret, todo, inflight, bounds>>

ConnectFails ==
    /\ sess = "connect" /\ faults < MaxFaults
    /\ faults' = faults + 1
    /\ Unregister(cid[cur])
    /\ sess' = "idle" /\ cur' = None
    /\ UNCHANGED <<cid, closed, conn, ctxDone, mutexAck, goroutines, ret, todo, inflight,
                   data, forwards>>

\* The session calls Close(f), which tests f.closed first.
CallClose(f, r) ==
    /\ cur' = f /\ ret' = r
    /\ sess' = IF closed[f] THEN r ELSE "closeSet"

Stop(c) ==
    /\ sess = "idle" /\ Registered(c)
    /\ CallClose(portForwarders[c], "stopping")
    /\ UNCHANGED <<mapVars, closed, conn, ctxDone, mutexAck, goroutines, ret, todo, inflight,
                   bounds>>

Stopped ==
    /\ sess = "stopping"
    /\ Unregister(cid[cur])
    /\ sess' = "idle" /\ cur' = None
    /\ UNCHANGED <<cid, closed, conn, ctxDone, mutexAck, goroutines, ret, todo, inflight, bounds>>

SessionCloses ==
    /\ \E q \in SessPCs : CloseStep(cur, sess, q, ret) /\ sess' = q
    /\ UNCHANGED <<mutexAck, goroutines, cur, ret, todo, inflight, bounds>>

\* Mutant: the forwarder is used without looking whether there is one.
ForwardUnchecked(c) ==
    /\ sess = "idle" /\ forwards < MaxForwards
    /\ forwards' = forwards + 1
    /\ sess' = "write" /\ cur' = portForwarders[c]
    /\ UNCHANGED <<mapVars, closed, conn, ctxDone, mutexAck, goroutines, ret, todo, inflight,
                   data, faults>>

Forward(c) ==
    /\ sess = "idle" /\ Registered(c) /\ forwards < MaxForwards
    /\ forwards' = forwards + 1
    /\ sess' = "write" /\ cur' = portForwarders[c]
    /\ UNCHANGED <<mapVars, closed, conn, ctxDone, mutexAck, goroutines, ret, todo, inflight,
                   data, faults>>

WriteReturns ==
    /\ sess' = "idle" /\ cur' = None
    /\ UNCHANGED <<mapVars, closed, conn, ctxDone, mutexAck, goroutines, ret, todo, inflight,
                   bounds>>

\* conn.Write waits until the local server reads.
WriteAccepted == sess = "write" /\ conn[cur] = "open" /\ WriteReturns
WriteFails == sess = "write" /\ conn[cur] \in {"eof", "closed"} /\ WriteReturns

\* Mutant: a connection that is being closed is not unlocked any more.
AckUnlessClosed(g) ==
    /\ Acks /\ sess = "idle" /\ inflight[g] > 0
    /\ inflight' = [inflight EXCEPT ![g] = @ - 1]
    /\ LET f == portForwarders[cid[g]]
       IN \/ (f = None \/ closed[f]) /\ UNCHANGED <<mutexAck, fatal>>
          \/ /\ f # None /\ ~closed[f] /\ mutexAck[f]
             /\ mutexAck' = [mutexAck EXCEPT ![f] = FALSE] /\ UNCHANGED fatal
          \/ /\ f # None /\ ~closed[f] /\ ~mutexAck[f]
             /\ fatal' = "ack" /\ UNCHANGED mutexAck
    /\ UNCHANGED <<mapVars, closed, conn, ctxDone, goroutines, sessVars, bounds>>

\* The client's acknowledgement of a message of g names only the connection.
\* Unlock of a mutex that is not locked ends the process; recover does not help.
Ack(g) ==
    /\ Acks /\ sess = "idle" /\ inflight[g] > 0
    /\ inflight' = [inflight EXCEPT ![g] = @ - 1]
    /\ LET f == portForwarders[cid[g]]
       IN \/ f = None /\ UNCHANGED <<mutexAck, fatal>>
          \/ /\ f # None /\ mutexAck[f]
             /\ mutexAck' = [mutexAck EXCEPT ![f] = FALSE] /\ UNCHANGED fatal
          \/ /\ f # None /\ ~mutexAck[f]
             /\ fatal' = "ack" /\ UNCHANGED mutexAck
    /\ UNCHANGED <<mapVars, closed, conn, ctxDone, goroutines, sessVars, bounds>>

\* Mutant: Close visits one forwarder only.
ShutdownOne ==
    /\ sess = "idle"
    /\ sess' = "shutdown"
    /\ \/ todo' = {} /\ \A c \in ConnectionIds : ~Registered(c)
       \/ \E c \in ConnectionIds : Registered(c) /\ todo' = {c}
    /\ UNCHANGED <<mapVars, closed, conn, ctxDone, mutexAck, goroutines, cur, ret, inflight,
                   bounds>>

\* PortForwardHandler.Close, when the session ends.
Shutdown ==
    /\ sess = "idle"
    /\ sess' = "shutdown" /\ todo' = {c \in ConnectionIds : Registered(c)}
    /\ UNCHANGED <<mapVars, closed, conn, ctxDone, mutexAck, goroutines, cur, ret, inflight,
                   bounds>>

\* The loop's next entry, unless it has been deleted meanwhile.
ShutdownNext ==
    /\ sess = "shutdown"
    /\ \E c \in todo : /\ todo' = todo \ {c}
                       /\ IF Registered(c) THEN CallClose(portForwarders[c], "shutdown")
                                           ELSE UNCHANGED <<sess, cur, ret>>
    /\ UNCHANGED <<mapVars, closed, conn, ctxDone, mutexAck, goroutines, inflight, bounds>>

ShutdownEnds ==
    /\ sess = "shutdown" /\ todo = {}
    /\ sess' = "end" /\ cur' = None
    /\ UNCHANGED <<mapVars, closed, conn, ctxDone, mutexAck, goroutines, ret, todo, inflight,
                   bounds>>

-----------------------------------------------------------------------------
(* The local server and the inner goroutine of f.                          *)

ServerEnds(f) ==
    /\ conn[f] = "open"
    /\ conn' = [conn EXCEPT ![f] = "eof"]
    /\ UNCHANGED <<mapVars, closed, ctxDone, mutexAck, goroutines, sessVars, inflight, bounds>>

InnerReads(f) ==
    /\ inner[f] = "read"
    /\ \/ /\ conn[f] = "open" /\ data < MaxData
          /\ inner' = [inner EXCEPT ![f] = "data"] /\ data' = data + 1
       \/ /\ conn[f] \in {"eof", "closed"}
          /\ inner' = [inner EXCEPT ![f] = "err"] /\ UNCHANGED data
    /\ UNCHANGED <<mapVars, closed, conn, ctxDone, mutexAck, reader, sessVars, inflight,
                   forwards, faults>>

-----------------------------------------------------------------------------
(* The reader of f.                                                        *)

ReaderOnly == UNCHANGED <<mapVars, closed, conn, ctxDone, sessVars, forwards, data>>

ReaderTakesData(f) ==
    /\ reader[f] = "select" /\ inner[f] = "data"
    /\ inner' = [inner EXCEPT ![f] = "read"]
    /\ reader' = [reader EXCEPT ![f] = IF Acks THEN "lock" ELSE "send"]
    /\ ReaderOnly /\ UNCHANGED <<mutexAck, inflight, faults>>

\* The reader calls Close(f): nothing when f is closed already.
ReaderCallsClose(f) ==
    reader' = [reader EXCEPT ![f] = IF closed[f] THEN "select" ELSE "closeSet"]

\* Mutant: the reader drops the forwarder of a failed connection unclosed.
ReaderTakesErrorForgets(f) ==
    /\ reader[f] = "select" /\ inner[f] = "err"
    /\ inner' = [inner EXCEPT ![f] = "end"]
    /\ reader' = [reader EXCEPT ![f] = IF closed[f] THEN "select" ELSE "closeDelete"]
    /\ ReaderOnly /\ UNCHANGED <<mutexAck, inflight, faults>>

ReaderTakesError(f) ==
    /\ reader[f] = "select" /\ inner[f] = "err"
    /\ inner' = [inner EXCEPT ![f] = "end"]
    /\ ReaderCallsClose(f)
    /\ ReaderOnly /\ UNCHANGED <<mutexAck, inflight, faults>>

\* Mutant: the timeout is only logged.
ReaderTimeoutLogged(f) == FALSE /\ UNCHANGED vars

ReaderTimeout(f) ==
    /\ reader[f] = "select" /\ ~closed[f]
    /\ ReaderCallsClose(f)
    /\ ReaderOnly /\ UNCHANGED <<inner, mutexAck, inflight, faults>>

ReaderDone(f) ==
    /\ reader[f] = "select" /\ ctxDone[f]
    /\ reader' = [reader EXCEPT ![f] = "end"]
    /\ ReaderOnly /\ UNCHANGED <<inner, mutexAck, inflight, faults>>

ReaderCloses(f) ==
    /\ \E q \in ReaderPCs : /\ CloseStep(f, reader[f], q, "select")
                            /\ reader' = [reader EXCEPT ![f] = q]
    /\ UNCHANGED <<inner, mutexAck, sessVars, inflight, bounds>>

\* Mutant: the mutex is not taken.
ReaderLocksNot(f) ==
    /\ reader[f] = "lock"
    /\ reader' = [reader EXCEPT ![f] = "send"]
    /\ ReaderOnly /\ UNCHANGED <<inner, mutexAck, inflight, faults>>

ReaderLocks(f) ==
    /\ reader[f] = "lock" /\ ~mutexAck[f]
    /\ mutexAck' = [mutexAck EXCEPT ![f] = TRUE]
    /\ reader' = [reader EXCEPT ![f] = "send"]
    /\ ReaderOnly /\ UNCHANGED <<inner, inflight, faults>>

\* WriteProtoMsg; when it fails the mutex stays locked.
ReaderSends(f) ==
    /\ reader[f] = "send"
    /\ reader' = [reader EXCEPT ![f] = "select"]
    /\ \/ /\ inflight' = [inflight EXCEPT ![f] = IF Acks THEN @ + 1 ELSE @]
          /\ UNCHANGED faults
       \/ faults < MaxFaults /\ faults' = faults + 1 /\ UNCHANGED inflight
    /\ ReaderOnly /\ UNCHANGED <<inner, mutexAck>>

-----------------------------------------------------------------------------
\* Two goroutines in the map at once: the runtime may notice and end the process.
MapFault(f) ==
    /\ reader[f] = "closeDelete"
    /\ \/ \E g \in Forwarders \ {f} : reader[g] = "closeDelete"
       \/ sess \in {"idle", "connect", "closeDelete", "stopping", "shutdown"}
    /\ fatal' = "map"
    /\ UNCHANGED <<mapVars, closed, conn, ctxDone, mutexAck, goroutines, sessVars,
                   inflight, bounds>>

Serve == \/ \E c \in ConnectionIds : \/ Stop(c) \/ Forward(c)
                                     \/ \E f \in Forwarders : New(c, f)
         \/ Shutdown

\* What the session goroutine does by itself once it serves a message.
SessionStep == \/ Connected \/ ConnectFails \/ Stopped \/ SessionCloses \/ WriteFails
               \/ ShutdownNext \/ ShutdownEnds

ReaderStep(f) == \/ ReaderTakesData(f) \/ ReaderTakesError(f) \/ ReaderTimeout(f)
                 \/ ReaderDone(f) \/ ReaderCloses(f) \/ ReaderLocks(f) \/ ReaderSends(f)

\* The process runs and goes on running.
Up == fatal = "no" /\ UNCHANGED fatal

Next ==
    \/ Up /\ (Serve \/ SessionStep \/ WriteAccepted)
    \/ \E f \in Forwarders :
        \/ Up /\ (ReaderStep(f) \/ InnerReads(f) \/ ServerEnds(f))
        \/ fatal = "no" /\ (Ack(f) \/ MapFault(f))

Spec == Init /\ [][Next]_vars

\* Goroutines that can run do run, and the timeout of a silent connection passes.
\* Nothing is assumed of the client or of the local server.
FairSpec == /\ Spec
            /\ WF_vars(Up /\ SessionStep)
            /\ \A f \in Forwarders : /\ WF_vars(Up /\ ReaderStep(f))
                                     /\ WF_vars(Up /\ InnerReads(f))

-----------------------------------------------------------------------------
\* Every variable has its type; in particular the session never goes on to use a
\* forwarder that the map does not hold.
TypeOK ==
    /\ portForwarders \in [ConnectionIds -> Forwarders \cup {None}]
    /\ cid \in [Forwarders -> ConnectionIds \cup {None}]
    /\ closed \in [Forwarders -> BOOLEAN]
    /\ conn \in [Forwarders -> {"none", "open", "eof", "closed"}]
    /\ ctxDone \in [Forwarders -> BOOLEAN]
    /\ mutexAck \in [Forwarders -> BOOLEAN]
    /\ reader \in [Forwarders -> ReaderPCs]
    /\ inner \in [Forwarders -> {"off", "read", "data", "err", "end"}]
    /\ sess \in SessPCs
    /\ cur \in Forwarders \cup {None} /\ ret \in {"stopping", "shutdown"}
    /\ sess \notin {"idle", "shutdown", "end"} => cur \in Forwarders
    /\ todo \subseteq ConnectionIds
    /\ inflight \in [Forwarders -> Nat]
    /\ fatal \in {"no", "ack", "map"}
    /\ data \in 0..MaxData /\ forwards \in 0..MaxForwards /\ faults \in 0..MaxFaults

\* portforward.go:151 "we don't allow more than one in-flight message": the
\* client never has two messages of a connection to acknowledge.
OneInFlight == \A f \in Forwarders : inflight[f] <= 1

\* portforward.go:398 "unlock the ack mutex, do not panic if it is not locked":
\* no acknowledgement ends the process.
AckIsHarmless == fatal # "ack"

\* The reader of a connection that can be found waits for an acknowledgement only
\* while one is due: its mutex is locked between taking a chunk and sending it
\* and while the client has a message of it, never for nothing, unless a message
\* was lost with the websocket (Read, portForwardHandlerAck).
LockIsDue ==
    \A f \in Forwarders :
        mutexAck[f] /\ portForwarders[cid[f]] = f /\ faults = 0
            => reader[f] = "send" \/ inflight[f] > 0

\* A connection that nobody has closed or is closing is in the map under its id,
\* so that stop, forward and the handler's Close find it.
OpenIsRegistered ==
    \A f \in Forwarders : conn[f] \in {"open", "eof"} /\ ~closed[f]
                            => portForwarders[cid[f]] = f

\* session.go:27 "Close MUST free these resources when the session shuts down":
\* when the handler's Close has returned, every connection is closed or being
\* closed by its reader.
ShutdownClosesAll ==
    sess = "end" => \A f \in Forwarders : conn[f] \in {"open", "eof"} => closed[f]

\* The forwarders of connection c: one at most while ids are fresh.
Of(c) == {f \in Forwarders : cid[f] = c}
StageOf(f) == IF sess = "connect" /\ cur = f THEN "opening"
              ELSE IF conn[f] \in {"open", "eof"} /\ ~closed[f] THEN "open" ELSE "over"

Connections == INSTANCE ForwardedConnections WITH
    stage <- [c \in ConnectionIds |->
                LET F == Of(c)
                IN IF F = {} THEN "unused" ELSE StageOf(CHOOSE f \in F : TRUE)],
    unacked <- [c \in ConnectionIds |->
                  LET F == Of(c)
                  IN IF F = {} THEN 0 ELSE inflight[CHOOSE f \in F : TRUE]],
    ended <- (sess = "end")

\* For a client that uses each id once a session's connections are what
\* ForwardedConnections says, whoever closes them and in whatever order the map,
\* the forwarders and their goroutines follow (PortForwardHandler,
\* MenderPortForwarder).
IsForwardedConnections == Connections!Spec

\* A forwarder that somebody has begun to close loses its connection and its
\* entry of the map, whoever closes it, unless the runtime ends the process.
ClosedIsForgotten ==
    \A f \in Forwarders :
        closed[f] ~> \/ fatal # "no"
                     \/ conn[f] = "closed" /\ portForwarders[cid[f]] # f

\* A session that writes to a connection whose server does not read is not held
\* up for good: the silence of the server closes the connection, unless the
\* reader itself waits for an acknowledgement.
SessionReleased ==
    ~<>[](sess = "write" /\ reader[cur] # "lock" /\ fatal = "no")

-----------------------------------------------------------------------------
(* What the code says and does not keep.                                   *)

\* session.go:27 "Close MUST free these resources when the session shuts down":
\* when the handler's Close has returned, the goroutines of its connections end.
GoroutinesEnd ==
    sess = "end" ~> \/ fatal # "no"
                    \/ \A f \in Forwarders : /\ reader[f] \in {"off", "end"}
                                             /\ inner[f] \in {"off", "end"}

=============================================================================
