--------------------------- MODULE RouterSession ---------------------------
(***************************************************************************)
(* The router of protocol messages and the sessions it creates             *)
(* (session/router.go, session/session.go).                                *)
(*                                                                         *)
(* messageLoop is the only caller of RouteMessage.  It looks the session   *)
(* up by id, creates it and starts its goroutine if there is none, and     *)
(* then waits until the session takes the message or is done.  A session   *)
(* serves one message at a time, pings a silent peer and ends when the     *)
(* peer stays silent, when a control message says so, when a write fails   *)
(* or when a handler panics.  It then closes its handlers, closes done and *)
(* is deleted from the map, in this order.                                 *)
(*                                                                         *)
(* The module asks for Go 1.22 (go.mod), so the channel of a timer has one *)
(* slot and Reset does not take a tick out of it.  Time is abstracted: an  *)
(* armed timer may expire at any moment.  Handlers are opaque: serving a   *)
(* message ends or panics.  msgChan is never closed, and LoadOrStore finds *)
(* no other caller's session.                                              *)
(***************************************************************************)
EXTENDS Naturals, Sequences

CONSTANTS Sessions,    \* Session objects, created at most once each
          SessionIds,
          Protos,      \* the protocols of ProtoRoutes
          None,
          MaxMessages  \* bound: messages of a behaviour

ASSUME NoneAssumption == None \notin Sessions \cup SessionIds \cup Protos
ASSUME BoundAssumption == MaxMessages \in Nat

ControlTypes == {"ping", "pong", "open", "refusedOpen", "accept", "refusedAccept",
                 "close", "error", "closingError", "unknown"}

ASSUME ProtoAssumption == (Protos \cup {None}) \cap (ControlTypes \cup {"unrouted"}) = {}

Messages == ControlTypes \cup Protos \cup {"unrouted"}

VARIABLES sessions,  \* router.sessions: session id -> session or None
          sid,       \* sess.ID
          phase,     \* where ListenAndServe of each session is
          cur,       \* msg: the message a session serves
          sessIdle,
          timer,     \* what timerPing is armed with: pingWait, pongWait
          tick,      \* timerPing.C; its element says what the timer was armed with
          handlers,  \* sess.handlers in the order of their deferred Close
          target,    \* the session that RouteMessage is handing to, or None
          msg,       \* the message RouteMessage is handing over
          messages   \* messages routed so far

vars == <<sessions, sid, phase, cur, sessIdle, timer, tick, handlers,
          target, msg, messages>>

Phases == {"free", "start", "listen", "pinging", "serve", "unwind", "done", "gone"}

Init ==
    /\ sessions = [i \in SessionIds |-> None]
    /\ sid = [s \in Sessions |-> None]
    /\ phase = [s \in Sessions |-> "free"]
    /\ cur = [s \in Sessions |-> None]
    /\ sessIdle = [s \in Sessions |-> FALSE]
    /\ timer = [s \in Sessions |-> "off"]
    /\ tick = [s \in Sessions |-> <<>>]
    /\ handlers = [s \in Sessions |-> <<>>]
    /\ target = None /\ msg = None /\ messages = 0

Goto(s, p) == phase' = [phase EXCEPT ![s] = p]

-----------------------------------------------------------------------------
(* RouteMessage, called by messageLoop.                                    *)

Receive(m) ==
    /\ target = None /\ messages < MaxMessages
    /\ msg' = m /\ messages' = messages + 1

RouteNew(i, m, s) ==
    /\ Receive(m)
    /\ sessions[i] = None /\ phase[s] = "free"
    /\ sessions' = [sessions EXCEPT ![i] = s]
    /\ sid' = [sid EXCEPT ![s] = i]
    /\ Goto(s, "start")
    /\ target' = s
    /\ UNCHANGED <<cur, sessIdle, timer, tick, handlers>>

RouteExisting(i, m) ==
    /\ Receive(m)
    /\ sessions[i] # None
    /\ target' = sessions[i]
    /\ UNCHANGED <<sessions, sid, phase, cur, sessIdle, timer, tick, handlers>>

\* The send on msgChan meets the session's receive, which rearms the timer and
\* leaves a tick that is already in the channel.
Handoff ==
    /\ target # None
    /\ phase[target] = "listen"
    /\ cur' = [cur EXCEPT ![target] = msg]
    /\ sessIdle' = [sessIdle EXCEPT ![target] = FALSE]
    /\ timer' = [timer EXCEPT ![target] = "ping"]
    /\ Goto(target, "serve")
    /\ target' = None /\ msg' = None
    /\ UNCHANGED <<sessions, sid, tick, handlers, messages>>

\* Mutant: a message is refused as soon as the session begins to end.
HandoffRefusedEarly ==
    /\ target # None
    /\ phase[target] \in {"unwind", "done", "gone"}
    /\ target' = None /\ msg' = None
    /\ UNCHANGED <<sessions, sid, phase, cur, sessIdle, timer, tick, handlers, messages>>

\* Mutant: RouteMessage does not watch done.
HandoffRefusedNever == FALSE /\ UNCHANGED vars

\* "session completed before message handoff"
HandoffRefused ==
    /\ target # None
    /\ phase[target] \in {"done", "gone"}
    /\ target' = None /\ msg' = None
    /\ UNCHANGED <<sessions, sid, phase, cur, sessIdle, timer, tick, handlers, messages>>

-----------------------------------------------------------------------------
(* ListenAndServe and its timer.                                           *)

Start(s) ==
    /\ phase[s] = "start"
    /\ Goto(s, "listen")
    /\ timer' = [timer EXCEPT ![s] = "ping"]
    /\ UNCHANGED <<sessions, sid, cur, sessIdle, tick, handlers, target, msg, messages>>

\* Mutant: the timer's channel has no limit.
TimerFiresQueued(s) ==
    /\ timer[s] # "off"
    /\ timer' = [timer EXCEPT ![s] = "off"]
    /\ tick' = [tick EXCEPT ![s] = Append(@, timer[s])]
    /\ UNCHANGED <<sessions, sid, phase, cur, sessIdle, handlers, target, msg, messages>>

\* time.Timer: the tick is dropped when the previous one has not been received.
TimerFires(s) ==
    /\ timer[s] # "off"
    /\ timer' = [timer EXCEPT ![s] = "off"]
    /\ tick' = [tick EXCEPT ![s] = IF @ = <<>> THEN <<timer[s]>> ELSE @]
    /\ UNCHANGED <<sessions, sid, phase, cur, sessIdle, handlers, target, msg, messages>>

Tick(s) ==
    /\ phase[s] = "listen" /\ tick[s] # <<>>
    /\ tick' = [tick EXCEPT ![s] = <<>>]
    /\ Goto(s, IF sessIdle[s] THEN "unwind" ELSE "pinging")
    /\ UNCHANGED <<sessions, sid, cur, sessIdle, timer, handlers, target, msg, messages>>

\* Mutant: the session forgets that it has pinged the peer.
PingSentForgotten(s) ==
    /\ phase[s] = "pinging"
    /\ Goto(s, "listen")
    /\ timer' = [timer EXCEPT ![s] = "pong"]
    /\ UNCHANGED <<sessions, sid, cur, sessIdle, tick, handlers, target, msg, messages>>

PingSent(s) ==
    /\ phase[s] = "pinging"
    /\ Goto(s, "listen")
    /\ sessIdle' = [sessIdle EXCEPT ![s] = TRUE]
    /\ timer' = [timer EXCEPT ![s] = "pong"]
    /\ UNCHANGED <<sessions, sid, cur, tick, handlers, target, msg, messages>>

PingFails(s) ==
    /\ phase[s] = "pinging"
    /\ Goto(s, "unwind")
    /\ UNCHANGED <<sessions, sid, cur, sessIdle, timer, tick, handlers, target, msg, messages>>

\* HandleControl: whether this control message may be answered with close.
MayClose(m) == m \in {"refusedOpen", "refusedAccept", "close", "closingError",
                      "ping", "open"}  \* the last two when the reply cannot be written
MayContinue(m) == m \in {"ping", "pong", "open", "accept", "error", "unknown"}

Served(s, p) ==
    /\ Goto(s, p)
    /\ cur' = [cur EXCEPT ![s] = None]
    /\ UNCHANGED <<sessions, sid, sessIdle, timer, tick, target, msg, messages>>

ServeControl(s) ==
    /\ phase[s] = "serve" /\ cur[s] \in ControlTypes
    /\ \/ MayClose(cur[s]) /\ Served(s, "unwind")
       \/ MayContinue(cur[s]) /\ Served(s, "listen")
    /\ UNCHANGED handlers

\* No route: an error reply, whose failure is only logged.
ServeUnrouted(s) ==
    /\ phase[s] = "serve" /\ cur[s] = "unrouted"
    /\ Served(s, "listen") /\ UNCHANGED handlers

HasHandler(s, p) == \E k \in 1..Len(handlers[s]) : handlers[s][k] = p

\* The constructor, unless the session has a handler for the protocol, and
\* ServeProtoMsg, which returns or panics.
ServeHandler(s) ==
    /\ phase[s] = "serve" /\ cur[s] \in Protos
    /\ handlers' = IF HasHandler(s, cur[s]) THEN handlers
                   ELSE [handlers EXCEPT ![s] = Append(@, cur[s])]
    /\ Served(s, "listen") \/ Served(s, "unwind")

\* The deferred Close of the handlers, last first.
CloseHandler(s) ==
    /\ phase[s] = "unwind" /\ handlers[s] # <<>>
    /\ handlers' = [handlers EXCEPT ![s] = SubSeq(@, 1, Len(@) - 1)]
    /\ UNCHANGED <<sessions, sid, phase, cur, sessIdle, timer, tick, target, msg, messages>>

\* Mutant: a panic skips the handlers' Close.
CloseDoneAtOnce(s) ==
    /\ phase[s] = "unwind"
    /\ Goto(s, "done")
    /\ UNCHANGED <<sessions, sid, cur, sessIdle, timer, tick, handlers, target, msg, messages>>

\* handlePanic, deferred first and run last: it recovers and closes done.
CloseDone(s) ==
    /\ phase[s] = "unwind" /\ handlers[s] = <<>>
    /\ Goto(s, "done")
    /\ UNCHANGED <<sessions, sid, cur, sessIdle, timer, tick, handlers, target, msg, messages>>

\* Mutant: the entry is deleted when the session starts to end.
DeleteEarly(s) ==
    /\ \/ phase[s] = "unwind" /\ UNCHANGED phase
       \/ phase[s] = "done" /\ Goto(s, "gone")
    /\ sessions' = [sessions EXCEPT ![sid[s]] = None]
    /\ UNCHANGED <<sid, cur, sessIdle, timer, tick, handlers, target, msg, messages>>

\* startSession's deferred Delete, by id.
Delete(s) ==
    /\ phase[s] = "done"
    /\ Goto(s, "gone")
    /\ sessions' = [sessions EXCEPT ![sid[s]] = None]
    /\ UNCHANGED <<sid, cur, sessIdle, timer, tick, handlers, target, msg, messages>>

-----------------------------------------------------------------------------
Route == \E i \in SessionIds, m \in Messages :
            RouteExisting(i, m) \/ \E s \in Sessions : RouteNew(i, m, s)

SessionStep(s) ==
    \/ Start(s) \/ Tick(s) \/ PingSent(s) \/ PingFails(s)
    \/ ServeControl(s) \/ ServeUnrouted(s) \/ ServeHandler(s)
    \/ CloseHandler(s) \/ CloseDone(s) \/ Delete(s)

Next == \/ Route \/ Handoff \/ HandoffRefused
        \/ \E s \in Sessions : SessionStep(s) \/ TimerFires(s)

Spec == Init /\ [][Next]_vars

\* Goroutines that can run do run, armed timers expire, handlers return.
FairSpec == /\ Spec
            /\ WF_vars(Handoff) /\ WF_vars(HandoffRefused)
            /\ \A s \in Sessions : WF_vars(SessionStep(s)) /\ WF_vars(TimerFires(s))

-----------------------------------------------------------------------------
\* Every variable has its type; in particular the channel of a session's timer
\* never holds a second tick, whatever Reset leaves in it.
TypeOK ==
    /\ sessions \in [SessionIds -> Sessions \cup {None}]
    /\ sid \in [Sessions -> SessionIds \cup {None}]
    /\ phase \in [Sessions -> Phases]
    /\ cur \in [Sessions -> Messages \cup {None}]
    /\ sessIdle \in [Sessions -> BOOLEAN]
    /\ timer \in [Sessions -> {"off", "ping", "pong"}]
    /\ tick \in [Sessions -> {<<>>, <<"ping">>, <<"pong">>}]
    /\ handlers \in [Sessions -> Seq(Protos)]
    /\ target \in Sessions \cup {None}
    /\ msg \in Messages \cup {None}
    /\ messages \in 0..MaxMessages

Live(s) == phase[s] \notin {"free", "gone"}

\* Two sessions of one id never coexist: a new one is created only after the
\* old one has closed its handlers, closed done and left the map, whatever ends
\* the old one (RouteMessage and startSession, router.go).
OneSessionPerId ==
    \A s, t \in Sessions : Live(s) /\ Live(t) /\ sid[s] = sid[t] => s = t

\* Each handler that was created has its Close called before done is closed, panics
\* included (ListenAndServe).  What Close leaves to a handler's own goroutines may
\* take longer: a transfer, or the reader of a forwarded connection.
HandlersFreed ==
    \A s \in Sessions : phase[s] \in {"free", "start", "done", "gone"}
                          => handlers[s] = <<>>

\* RouteMessage returns, also when the session it hands to ends meanwhile or
\* has ended and is still in the map (the race of TestRouterRace).
RouteReturns == target # None ~> target = None

\* A session that gets no more messages ends and leaves the map, whatever it
\* served before and however its timer and its pings interleave.
SilentSessionEnds == \A s \in Sessions : phase[s] = "start" ~> phase[s] = "gone"

Ended == {"free", "done", "gone"}

\* A session is live until it closes done; it serves the message in cur.
LiveIds == {i \in SessionIds : \E s \in Sessions : sid[s] = i /\ phase[s] \notin Ended}
ServingIds == {i \in SessionIds : \E s \in Sessions : sid[s] = i /\ cur[s] # None}
PendingId == IF target = None THEN None ELSE sid[target]

Service == INSTANCE SessionService
             WITH live <- LiveIds, serving <- ServingIds, pending <- PendingId

\* For messageLoop the map, the goroutines and the timers are what SessionService
\* says: a message is refused only if the session of its id has ended, a session
\* takes one at a time and does not end with it unserved, and none comes to be,
\* or comes back, without a message for it (RouteMessage, ListenAndServe).
IsSessionService == Service!Spec

=============================================================================
