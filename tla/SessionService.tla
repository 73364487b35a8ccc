--------------------------- MODULE SessionService ---------------------------
(***************************************************************************)
(* What the router promises to messageLoop, its only caller: a message is  *)
(* accepted by a live session of its id, one at a time, or refused, but    *)
(* only when that session has ended; a session begins with a message for   *)
(* it and never otherwise, and does not end while it serves a message.     *)
(***************************************************************************)
CONSTANTS SessionIds, None

VARIABLES live,    \* the ids that have a session which has not ended
          serving, \* the ids whose session serves a message
          pending  \* the id of the message that RouteMessage hands over, or None

serviceVars == <<live, serving, pending>>

Init == live = {} /\ serving = {} /\ pending = None

\* The session of the id may be new, live, or one that has just ended.
Call(i) == /\ pending = None
           /\ pending' = i
           /\ live' \in {live, live \cup {i}}
           /\ UNCHANGED serving

Accept == /\ pending # None
          /\ pending \in live \ serving
          /\ serving' = serving \cup {pending}
          /\ pending' = None /\ UNCHANGED live

Refuse == /\ pending # None
          /\ pending \notin live
          /\ pending' = None /\ UNCHANGED <<live, serving>>

Finish(i) == /\ i \in serving
             /\ serving' = serving \ {i} /\ UNCHANGED <<live, pending>>

End(i) == /\ i \in live \ serving
          /\ live' = live \ {i} /\ UNCHANGED <<serving, pending>>

Next == Accept \/ Refuse \/ \E i \in SessionIds : Call(i) \/ Finish(i) \/ End(i)

Spec == Init /\ [][Next]_serviceVars

=============================================================================
