-------------------------- MODULE ConnectionLoops --------------------------
(***************************************************************************)
(* How mender-connect keeps its websocket up.  Three goroutines of         *)
(* app/daemon.go share one protocol handler of connectionmanager:          *)
(*                                                                         *)
(*   "msg"    messageLoop    reads the websocket; asks for a reconnect     *)
(*   "dbus"   dbusEventLoop  follows the credentials of the Mender client  *)
(*   "event"  eventLoop      closes the connection and dials a new one     *)
(*                                                                         *)
(* reconnectChan (msg -> dbus) and eventChan (dbus -> event) have no       *)
(* buffer: a send and its receive are one step of both loops.              *)
(* connectionEstChan (event -> msg) and the channel of the D-Bus signal    *)
(* have a buffer of one.                                                   *)
(*                                                                         *)
(* A credential is the pair (JWT, server URL); NoToken stands for a pair   *)
(* with an empty half, which the code never treats as an authorization.    *)
(* StopDaemon ends the process and is left out: it only cuts a behaviour.  *)
(***************************************************************************)
EXTENDS Naturals, Sequences

CONSTANTS Tokens,        \* complete (JWT, server URL) pairs
          NoToken,       \* a pair with an empty half
          MaxSignals,    \* bound: JwtTokenStateChange signals of a behaviour
          MaxFaults      \* bound: dropped peers, failed dials and D-Bus calls

ASSUME TokenAssumption == NoToken \notin Tokens
ASSUME BoundAssumption == MaxSignals \in Nat /\ MaxFaults \in Nat

VARIABLES pc,             \* where each loop is
          token,          \* external: the credential the Mender client holds
          sigChan,        \* the channel of JwtTokenStateChange, one slot
          sig,            \* p of dbusEventLoop: the signal being processed
          needsReconnect, \* local of dbusEventLoop
          authorized,     \* d.authorized
          serverCred,     \* d.serverJwt and d.serverUrl
          event,          \* data of the EventReconnect eventLoop works on
          estChan,        \* d.connectionEstChan, one slot
          result,         \* what Reconnect returned to eventLoop
          conn,           \* the connection in handlersByType, or "none"
          reader,         \* the connection messageLoop reads from
          backedOff,      \* expBackoff.attempts > 0
          reconnecting,   \* reconnecting[proto]
          cancelSent,     \* a sender is blocked on cancelReconnectChan[proto]
          signals, faults \* how much of the bounds is used

dbusVars == <<sigChan, sig, needsReconnect, authorized, serverCred>>
eventVars == <<event, result, backedOff>>
cancelVars == <<reconnecting, cancelSent>>
extVars == <<token, signals, faults>>
vars == <<pc, token, sigChan, sig, needsReconnect, authorized, serverCred,
          event, estChan, result, conn, reader, backedOff, reconnecting,
          cancelSent, signals, faults>>

Credentials == Tokens \cup {NoToken}

(***************************************************************************)
(* A connection is "open"; "dead" once reads on it fail for a reason other *)
(* than a local close (the peer left, or the read deadline passed);        *)
(* "closed" or "deadClosed" after a local Close of the one or the other.   *)
(***************************************************************************)
ConnStates == {"open", "dead", "closed", "deadClosed"}
ClosedStates == {"closed", "deadClosed"}
Closed(c) == CASE c \in {"open", "closed"} -> "closed"
               [] c \in {"dead", "deadClosed"} -> "deadClosed"
               [] OTHER -> c

\* The steps of connectionmanager.Close, run by messageLoop or dbusEventLoop.
ClosePCs == {"closeCheck", "cancelWait", "closeLock"}
MsgPCs == {"request", "await", "read", "reading"} \cup ClosePCs
DbusPCs == {"poll", "wait", "process", "processed", "drain", "decide", "post"}
             \cup ClosePCs
EventPCs == {"readEvent", "reconnect", "backoff", "dial", "drainReply",
             "sendReply"}

\* handlersByTypeMutex is free: only Reconnect holds it for longer than a
\* step, from its first line until connect has returned.
MutexFree == pc["event"] \notin {"backoff", "dial"}

At(p, l) == pc[p] = l
Goto(p, l) == pc' = [pc EXCEPT ![p] = l]

(***************************************************************************)
(* Run starts the loops after one GetJWTToken call, which may have failed. *)
(***************************************************************************)
Init ==
    /\ pc = [msg |-> "request", dbus |-> "poll", event |-> "readEvent"]
    /\ token \in Credentials
    /\ \/ serverCred = token /\ faults = 0
       \/ serverCred = NoToken /\ faults = 1 /\ MaxFaults > 0
    /\ authorized = (serverCred # NoToken)
    /\ sigChan = <<>> /\ sig = NoToken
    /\ needsReconnect = FALSE
    /\ event = NoToken /\ estChan = <<>> /\ result = "error"
    /\ conn = "none" /\ reader = "none"
    /\ backedOff = FALSE /\ reconnecting = FALSE /\ cancelSent = FALSE
    /\ signals = 0

-----------------------------------------------------------------------------
(* The Mender client and the server.                                       *)

\* Mutant: the channel has no limit.
JwtTokenStateChangeQueued ==
    /\ signals < MaxSignals
    /\ signals' = signals + 1
    /\ \E t \in Credentials :
         token' = t /\ sigChan' = Append(sigChan, t)
    /\ UNCHANGED <<pc, sig, needsReconnect, authorized, serverCred, event,
                   estChan, result, conn, reader, backedOff, cancelVars, faults>>

\* The client gets, loses or repeats its credential and emits the signal;
\* HandleSignal drops it when the previous one is still in the channel.
JwtTokenStateChange ==
    /\ signals < MaxSignals
    /\ signals' = signals + 1
    /\ \E t \in Credentials :
         /\ token' = t
         /\ sigChan' = IF sigChan = <<>> THEN <<t>> ELSE sigChan
    /\ UNCHANGED <<pc, sig, needsReconnect, authorized, serverCred, event,
                   estChan, result, conn, reader, backedOff, cancelVars, faults>>

\* The server closes the websocket, or stops answering pings.
PeerDrop ==
    /\ conn = "open" /\ faults < MaxFaults
    /\ conn' = "dead" /\ faults' = faults + 1
    /\ UNCHANGED <<pc, token, dbusVars, eventVars, estChan, reader, cancelVars,
                   signals>>

-----------------------------------------------------------------------------
(* connectionmanager.Close, called by loop p.  AfterClose is where the     *)
(* caller goes on: none looks at the error.                                *)

\* Mutant: messageLoop forgets sendConnectReq = true.
AfterCloseNoRequest(p) == IF p = "msg" THEN "await" ELSE "processed"

AfterClose(p) == IF p = "msg" THEN "request" ELSE "processed"

\* IsReconnecting, and CancelReconnection's goroutine that offers a value on
\* the channel of the connect under way.
CloseCheck(p) ==
    /\ At(p, "closeCheck")
    /\ IF reconnecting
         THEN Goto(p, "cancelWait") /\ cancelSent' = TRUE
         ELSE Goto(p, "closeLock") /\ UNCHANGED cancelSent
    /\ UNCHANGED <<extVars, dbusVars, eventVars, estChan, conn, reader,
                   reconnecting>>

\* CancelReconnection sees that no connect is under way: Close goes on.
CancelDone(p) ==
    /\ At(p, "cancelWait") /\ ~reconnecting
    /\ Goto(p, "closeLock")
    /\ UNCHANGED <<extVars, dbusVars, eventVars, estChan, conn, reader,
                   cancelVars>>

\* Eight seconds went by and a connect is still under way: Close returns an
\* error and closes nothing.  A backoff that is offered the cancellation takes
\* it long before that, so this is a dial, or a later connect whose channel
\* nobody sends on.
CancelGiveUp(p) ==
    /\ At(p, "cancelWait") /\ reconnecting
    /\ At("event", "dial") \/ ~cancelSent
    /\ Goto(p, AfterClose(p))
    /\ UNCHANGED <<extVars, dbusVars, eventVars, estChan, conn, reader,
                   cancelVars>>

\* With the mutex taken: closes whatever connection is registered by now.
CloseLocked(p) ==
    /\ At(p, "closeLock") /\ MutexFree
    /\ conn' = Closed(conn)
    /\ Goto(p, AfterClose(p))
    /\ UNCHANGED <<extVars, dbusVars, eventVars, estChan, reader, cancelVars>>

Close(p) == CloseCheck(p) \/ CancelDone(p) \/ CancelGiveUp(p) \/ CloseLocked(p)

-----------------------------------------------------------------------------
(* messageLoop.                                                            *)

\* Takes the reply of eventLoop; a failed reconnect is requested again.
AwaitReply ==
    /\ At("msg", "await") /\ estChan # <<>>
    /\ estChan' = <<>>
    /\ Goto("msg", IF Head(estChan) = "established" THEN "read" ELSE "request")
    /\ UNCHANGED <<extVars, dbusVars, eventVars, conn, reader, cancelVars>>

\* connectionmanager.Read under the mutex: the connection to read from, or
\* ErrHandlerNotRegistered, which is an error like any other.
ReadLocked ==
    /\ At("msg", "read") /\ MutexFree
    /\ IF conn = "none"
         THEN Goto("msg", "closeCheck") /\ UNCHANGED reader
         ELSE Goto("msg", "reading") /\ reader' = "registered"
    /\ UNCHANGED <<extVars, dbusVars, eventVars, estChan, conn, cancelVars>>

\* The state of the connection messageLoop is reading from.
ReaderState == IF reader = "registered" THEN conn ELSE reader

\* A message arrives and is routed.
ReceiveMessage ==
    /\ At("msg", "reading") /\ ReaderState = "open"
    /\ Goto("msg", "read")
    /\ reader' = "none"
    /\ UNCHANGED <<extVars, dbusVars, eventVars, estChan, conn, cancelVars>>

\* "use of closed network connection": another loop closed it, so messageLoop
\* only waits for the reply to a reconnect it did not ask for.
ReadClosed ==
    /\ At("msg", "reading") /\ ReaderState \in ClosedStates
    /\ Goto("msg", "await")
    /\ reader' = "none"
    /\ UNCHANGED <<extVars, dbusVars, eventVars, estChan, conn, cancelVars>>

\* Any other error: Close, and request a reconnect.
ReadError ==
    /\ At("msg", "reading") /\ ReaderState \in {"dead", "deadClosed"}
    /\ Goto("msg", "closeCheck")
    /\ reader' = "none"
    /\ UNCHANGED <<extVars, dbusVars, eventVars, estChan, conn, cancelVars>>

\* A message that cannot be decoded is a read error too, on a live connection.
UndecodableMessage ==
    /\ At("msg", "reading") /\ ReaderState = "open"
    /\ faults < MaxFaults /\ faults' = faults + 1
    /\ Goto("msg", "closeCheck")
    /\ reader' = "none"
    /\ UNCHANGED <<token, signals, dbusVars, eventVars, estChan, conn,
                   cancelVars>>

MessageLoop == AwaitReply \/ ReadLocked \/ ReadClosed \/ ReadError \/ Close("msg")

-----------------------------------------------------------------------------
(* dbusEventLoop.                                                          *)

\* needsReconnect() gets messageLoop's request within its second.
ReconnectRequest ==
    /\ At("msg", "request") /\ At("dbus", "poll")
    /\ pc' = [pc EXCEPT !["msg"] = "await", !["dbus"] = "wait"]
    /\ needsReconnect' = TRUE
    /\ UNCHANGED <<extVars, sigChan, sig, authorized, serverCred, eventVars,
                   estChan, conn, reader, cancelVars>>

PollTimeout ==
    /\ At("dbus", "poll")
    /\ Goto("dbus", "wait")
    /\ UNCHANGED <<extVars, dbusVars, eventVars, estChan, conn, reader,
                   cancelVars>>

\* WaitForJwtTokenStateChange returns a signal, or nothing after its timeout.
WaitSignal ==
    /\ At("dbus", "wait") /\ sigChan # <<>>
    /\ sig' = Head(sigChan) /\ sigChan' = <<>>
    /\ Goto("dbus", "process")
    /\ UNCHANGED <<extVars, needsReconnect, authorized, serverCred, eventVars,
                   estChan, conn, reader, cancelVars>>

WaitTimeout ==
    /\ At("dbus", "wait") /\ sigChan = <<>>
    /\ Goto("dbus", "decide")
    /\ UNCHANGED <<extVars, dbusVars, eventVars, estChan, conn, reader,
                   cancelVars>>

\* processJwtTokenStateChange up to its call of Close: every change of
\* d.authorized closes, and so does a repeated loss.
ProcessSignal ==
    /\ At("dbus", "process")
    /\ Goto("dbus", IF sig # NoToken /\ authorized THEN "processed"
                                                  ELSE "closeCheck")
    /\ UNCHANGED <<extVars, dbusVars, eventVars, estChan, conn, reader,
                   cancelVars>>

\* Mutant: d.serverJwt keeps the token that was lost.
SignalProcessedKeepToken ==
    /\ At("dbus", "processed")
    /\ authorized' = (sig # NoToken)
    /\ UNCHANGED serverCred
    /\ IF sig # NoToken /\ sig # serverCred
         THEN needsReconnect' = TRUE /\ Goto("dbus", "drain")
         ELSE UNCHANGED needsReconnect /\ Goto("dbus", "decide")
    /\ UNCHANGED <<extVars, sigChan, sig, eventVars, estChan, conn, reader,
                   cancelVars>>

\* The rest of it, and the comparison with the credential in use.
SignalProcessed ==
    /\ At("dbus", "processed")
    /\ authorized' = (sig # NoToken)
    /\ serverCred' = IF sig = NoToken THEN NoToken ELSE serverCred
    /\ IF sig # NoToken /\ sig # serverCred
         THEN needsReconnect' = TRUE /\ Goto("dbus", "drain")
         ELSE UNCHANGED needsReconnect /\ Goto("dbus", "decide")
    /\ UNCHANGED <<extVars, sigChan, sig, eventVars, estChan, conn, reader,
                   cancelVars>>

\* The second needsReconnect() swallows a request that came with the signal.
DrainRequest ==
    /\ At("dbus", "drain") /\ At("msg", "request")
    /\ pc' = [pc EXCEPT !["msg"] = "await", !["dbus"] = "decide"]
    /\ serverCred' = sig
    /\ UNCHANGED <<extVars, sigChan, sig, needsReconnect, authorized, eventVars,
                   estChan, conn, reader, cancelVars>>

DrainTimeout ==
    /\ At("dbus", "drain")
    /\ Goto("dbus", "decide")
    /\ serverCred' = sig
    /\ UNCHANGED <<extVars, sigChan, sig, needsReconnect, authorized, eventVars,
                   estChan, conn, reader, cancelVars>>

\* Mutant: d.authorized is not looked at.
DecideUnauthorized ==
    /\ At("dbus", "decide")
    /\ IF needsReconnect
         THEN Goto("dbus", "post") /\ serverCred' = token
         ELSE Goto("dbus", "poll") /\ UNCHANGED serverCred
    /\ UNCHANGED <<extVars, sigChan, sig, needsReconnect, authorized,
                   eventVars, estChan, conn, reader, cancelVars>>

\* Mutant: without work to do the loop goes back to waiting for a signal.
DecideWaitAgain ==
    /\ At("dbus", "decide")
    /\ IF needsReconnect /\ authorized
         THEN Goto("dbus", "post") /\ serverCred' = token
         ELSE Goto("dbus", "wait") /\ UNCHANGED serverCred
    /\ UNCHANGED <<extVars, sigChan, sig, needsReconnect, authorized,
                   eventVars, estChan, conn, reader, cancelVars>>

\* GetJWTToken answers the credential of the moment; a failed call answers an
\* empty one, and its error is ignored.
Decide ==
    /\ At("dbus", "decide")
    /\ IF needsReconnect /\ authorized
         THEN /\ Goto("dbus", "post")
              /\ \/ serverCred' = token /\ UNCHANGED faults
                 \/ /\ faults < MaxFaults /\ faults' = faults + 1
                    /\ serverCred' = NoToken
         ELSE Goto("dbus", "poll") /\ UNCHANGED <<serverCred, faults>>
    /\ UNCHANGED <<token, signals, sigChan, sig, needsReconnect, authorized,
                   eventVars, estChan, conn, reader, cancelVars>>

\* Mutant: needsReconnect is not reset.
PostEventNoReset ==
    /\ At("dbus", "post") /\ At("event", "readEvent")
    /\ pc' = [pc EXCEPT !["dbus"] = "poll", !["event"] = "reconnect"]
    /\ event' = serverCred
    /\ UNCHANGED <<extVars, sigChan, sig, needsReconnect, authorized,
                   serverCred, result, backedOff, estChan, conn, reader,
                   cancelVars>>

\* postEvent meets readEvent.
PostEvent ==
    /\ At("dbus", "post") /\ At("event", "readEvent")
    /\ pc' = [pc EXCEPT !["dbus"] = "poll", !["event"] = "reconnect"]
    /\ event' = serverCred
    /\ needsReconnect' = FALSE
    /\ UNCHANGED <<extVars, sigChan, sig, authorized, serverCred, result,
                   backedOff, estChan, conn, reader, cancelVars>>

DbusEventLoop ==
    \/ PollTimeout \/ WaitSignal \/ WaitTimeout \/ ProcessSignal
    \/ SignalProcessed \/ DrainTimeout \/ Decide \/ PostEvent \/ Close("dbus")

-----------------------------------------------------------------------------
(* eventLoop and connectionmanager.Reconnect.                              *)

\* Reconnect locks, closes and forgets the registered connection; connect
\* makes a new cancelReconnectChan and sets reconnecting.  A reader of the old
\* connection keeps it, closed.
StartReconnect ==
    /\ At("event", "reconnect")
    /\ conn' = "none"
    /\ reader' = IF reader = "registered" THEN Closed(conn) ELSE reader
    /\ reconnecting' = TRUE /\ cancelSent' = FALSE
    /\ Goto("event", "backoff")
    /\ UNCHANGED <<extVars, dbusVars, eventVars, estChan>>

\* Mutant: eventLoop does not reply to an event it cannot handle.
BadServerUrlSilently ==
    /\ At("event", "reconnect")
    /\ faults < MaxFaults /\ faults' = faults + 1
    /\ conn' = "none"
    /\ reader' = IF reader = "registered" THEN Closed(conn) ELSE reader
    /\ result' = "error"
    /\ Goto("event", "readEvent")
    /\ UNCHANGED <<token, signals, dbusVars, event, backedOff, estChan,
                   cancelVars>>

\* The server URL does not parse: connect returns before it touches anything.
BadServerUrl ==
    /\ At("event", "reconnect")
    /\ faults < MaxFaults /\ faults' = faults + 1
    /\ conn' = "none"
    /\ reader' = IF reader = "registered" THEN Closed(conn) ELSE reader
    /\ result' = "error"
    /\ Goto("event", "drainReply")
    /\ UNCHANGED <<token, signals, dbusVars, event, backedOff, estChan,
                   cancelVars>>

\* WaitForBackoff: the first attempt does not wait, the others sleep.
BackoffOver ==
    /\ At("event", "backoff")
    /\ backedOff' = TRUE
    /\ Goto("event", "dial")
    /\ UNCHANGED <<extVars, dbusVars, event, result, estChan, conn, reader,
                   cancelVars>>

\* A sleeping backoff takes the value CancelReconnection offers.
BackoffCancelled ==
    /\ At("event", "backoff") /\ backedOff /\ cancelSent
    /\ cancelSent' = FALSE /\ reconnecting' = FALSE
    /\ result' = "error"
    /\ Goto("event", "drainReply")
    /\ UNCHANGED <<extVars, dbusVars, event, backedOff, estChan, conn, reader>>

\* External: the server accepts a complete credential.  connect registers the
\* connection, resets the backoff and drains an unprocessed cancellation.
DialSucceeds ==
    /\ At("event", "dial") /\ event # NoToken
    /\ conn' = "open"
    /\ backedOff' = FALSE
    /\ cancelSent' = FALSE /\ reconnecting' = FALSE
    /\ result' = "established"
    /\ Goto("event", "drainReply")
    /\ UNCHANGED <<extVars, dbusVars, event, estChan, reader>>

\* External: it refuses an empty credential; it may refuse one that is not
\* the current one (d.serverUrl is read when eventLoop gets there, so the URL
\* may already belong to another token); any other dial fails by a fault.
DialFails ==
    /\ At("event", "dial")
    /\ \/ /\ event = NoToken \/ event # token \/ event # serverCred
          /\ UNCHANGED faults
       \/ faults < MaxFaults /\ faults' = faults + 1
    /\ reconnecting' = FALSE
    /\ result' = "error"
    /\ Goto("event", "drainReply")
    /\ UNCHANGED <<token, signals, dbusVars, event, backedOff, estChan, conn,
                   reader, cancelSent>>

\* eventLoop throws an unread reply away ...
DrainReply ==
    /\ At("event", "drainReply")
    /\ estChan' = <<>>
    /\ Goto("event", "sendReply")
    /\ UNCHANGED <<extVars, dbusVars, eventVars, conn, reader, cancelVars>>

\* ... and sends its own, which blocks while the one slot is taken.
SendReply ==
    /\ At("event", "sendReply") /\ estChan = <<>>
    /\ estChan' = <<result>>
    /\ Goto("event", "readEvent")
    /\ UNCHANGED <<extVars, dbusVars, eventVars, conn, reader, cancelVars>>

EventLoop == \/ StartReconnect \/ BackoffOver \/ BackoffCancelled
             \/ DialSucceeds \/ DialFails \/ DrainReply \/ SendReply

-----------------------------------------------------------------------------
Next == \/ JwtTokenStateChange \/ PeerDrop \/ ReceiveMessage
        \/ UndecodableMessage \/ BadServerUrl
        \/ MessageLoop \/ ReconnectRequest \/ DrainRequest
        \/ DbusEventLoop \/ EventLoop

Spec == Init /\ [][Next]_vars

(***************************************************************************)
(* Every goroutine that can run does run, a timer that is set fires, a     *)
(* dial returns.  needsReconnect() listens for a second every time round   *)
(* the loop, so a request that stays pending is taken: strong fairness.    *)
(***************************************************************************)
Fairness == /\ WF_vars(MessageLoop) /\ WF_vars(DbusEventLoop)
            /\ WF_vars(EventLoop)
            /\ SF_vars(ReconnectRequest \/ DrainRequest)

FairSpec == Spec /\ Fairness

-----------------------------------------------------------------------------
(* Safety.                                                                 *)

\* Every variable has its type; both channels hold at most one element.
TypeOK ==
    /\ pc \in [{"msg", "dbus", "event"} -> MsgPCs \cup DbusPCs \cup EventPCs]
    /\ pc["msg"] \in MsgPCs /\ pc["dbus"] \in DbusPCs
    /\ pc["event"] \in EventPCs
    /\ token \in Credentials /\ sig \in Credentials
    /\ serverCred \in Credentials /\ event \in Credentials
    /\ sigChan \in {<<>>} \cup {<<t>> : t \in Credentials}
    /\ estChan \in {<<>>, <<"established">>, <<"error">>}
    /\ result \in {"established", "error"}
    /\ conn \in ConnStates \cup {"none"}
    /\ reader \in ClosedStates \cup {"none", "registered"}
    /\ needsReconnect \in BOOLEAN /\ authorized \in BOOLEAN
    /\ backedOff \in BOOLEAN /\ reconnecting \in BOOLEAN
    /\ cancelSent \in BOOLEAN
    /\ signals \in Nat /\ faults \in Nat

\* dbusEventLoop is about to record that the credential is gone.
LosingAuthorization == pc["dbus"] = "processed" /\ sig = NoToken

\* Something that ends in a reply to messageLoop is under way, or will be as
\* soon as the device is authorized again.
ReplyDue ==
    \/ estChan # <<>>
    \/ pc["event"] # "readEvent"
    \/ needsReconnect
    \/ ~authorized
    \/ LosingAuthorization

\* messageLoop never waits on connectionEstChan for a reply nobody is going to
\* send: when a local close made it wait without a request of its own, the one
\* who closed (daemon.go:242-245) owes it a reconnect.
NoOrphanWait == pc["msg"] = "await" => ReplyDue

\* The next token after a loss of authorization counts as new, even when it is
\* the old one (daemon.go:297-299), whatever happened since.
LostTokenCountsAsNew == ~authorized => serverCred = NoToken

\* A closed connection stays in handlersByType only while its replacement is
\* on the way: no read can find it there and be stranded.
ClosedIsReplaced ==
    conn \in ClosedStates =>
        \/ pc["msg"] = "request"
        \/ pc["event"] = "reconnect"
        \/ needsReconnect
        \/ ~authorized
        \/ LosingAuthorization

\* A read of a connection that Reconnect replaced finds a reply in
\* connectionEstChan, or eventLoop still has to send it.
ReplacedReaderIsAnswered ==
    reader \in ClosedStates => estChan # <<>> \/ pc["event"] # "readEvent"

\* "Losing authorization closes the connection" (app/daemon_test.go:1222):
\* once dbusEventLoop has dealt with the loss and no reconnect is under way,
\* an unauthorized daemon has no open connection.
UnauthorizedIsDisconnected ==
    ~authorized /\ pc["dbus"] \in {"poll", "wait", "decide"}
        /\ pc["event"] = "readEvent" => conn # "open"

-----------------------------------------------------------------------------
(* Liveness.                                                               *)

Connected == /\ pc["msg"] \in {"read", "reading"}
             /\ conn = "open"
             /\ reader \in {"none", "registered"}

\* When faults have ceased and the daemon knows it is authorized, messageLoop
\* ends up, for good, reading from an open connection: no sequence of stale
\* replies, drained requests and cancelled dials keeps it from it, and no
\* reconnect storm goes on for ever.
EventuallyConnected ==
    <>[](authorized /\ token # NoToken) => <>[]Connected

\* A request for a reconnect is always taken (TestOrphanReconnectReplyDoes-
\* NotDeadlock: "Later token changes and reconnect requests must still go
\* through").
RequestIsTaken == pc["msg"] = "request" ~> pc["msg"] = "await"

\* What TestReauthorizeWithSameTokenReconnects says of a token that comes
\* back: the daemon reconnects.
TokenBackReconnects ==
    <>[](token # NoToken) => <>[]Connected
=============================================================================
