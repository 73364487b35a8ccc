------------------------ MODULE ForwardedConnections ------------------------
(***************************************************************************)
(* What port forwarding promises to a client that uses each connection id  *)
(* once: a connection opens at most once, one at a time, and never comes   *)
(* back; the client has at most one message of each to acknowledge, of a   *)
(* connection that was open; and when the session has ended none is open   *)
(* and none opens.                                                         *)
(***************************************************************************)
EXTENDS Naturals

CONSTANT ConnectionIds

VARIABLES stage,   \* of each id: "unused", "opening", "open", "over"
          unacked, \* of each id: messages that wait for the client's answer
          ended    \* the session has closed the handler

connectionVars == <<stage, unacked, ended>>

Init == /\ stage = [c \in ConnectionIds |-> "unused"]
        /\ unacked = [c \in ConnectionIds |-> 0]
        /\ ended = FALSE

Become(c, l) == stage' = [stage EXCEPT ![c] = l] /\ UNCHANGED <<unacked, ended>>

\* The session serves no other message while it opens a connection.
Open(c) == /\ ~ended /\ stage[c] = "unused"
           /\ \A d \in ConnectionIds : stage[d] # "opening"
           /\ Become(c, "opening")

Established(c) == stage[c] = "opening" /\ Become(c, "open")
Fails(c) == stage[c] = "opening" /\ Become(c, "over")
Close(c) == stage[c] = "open" /\ Become(c, "over")

\* A chunk that was read before the connection was closed is still sent.
Send(c) == /\ stage[c] \in {"open", "over"} /\ unacked[c] = 0
           /\ unacked' = [unacked EXCEPT ![c] = 1]
           /\ UNCHANGED <<stage, ended>>

Acknowledge(c) == /\ unacked[c] = 1
                  /\ unacked' = [unacked EXCEPT ![c] = 0]
                  /\ UNCHANGED <<stage, ended>>

End == /\ ~ended
       /\ \A c \in ConnectionIds : stage[c] \in {"unused", "over"}
       /\ ended' = TRUE
       /\ UNCHANGED <<stage, unacked>>

Next == \/ \E c \in ConnectionIds : \/ Open(c) \/ Established(c) \/ Fails(c)
                                    \/ Close(c) \/ Send(c) \/ Acknowledge(c)
        \/ End

Spec == Init /\ [][Next]_connectionVars

=============================================================================
