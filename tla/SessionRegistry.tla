-------------------------- MODULE SessionRegistry --------------------------
(***************************************************************************)
(* What the shell registry promises: one table of sessions.  A session is  *)
(* entered once, under an id that is free, for a user below the limit; it  *)
(* keeps its user, leaves with any set of others, and never comes back.    *)
(***************************************************************************)
EXTENDS Naturals, FiniteSets

CONSTANTS Sessions, SessionIds, UserIds, None, MaxUserSessions

VARIABLES registered, \* session id -> session or None
          owner       \* session -> its user, None before it is created

registryVars == <<registered, owner>>

Init == /\ registered = [i \in SessionIds |-> None]
        /\ owner = [s \in Sessions |-> None]

\* The sessions of user u that can be found by their id.
Owned(u) == {s \in Sessions : owner[s] = u /\ \E i \in SessionIds : registered[i] = s}

Create(i, u, s) ==
    /\ registered[i] = None /\ owner[s] = None
    /\ Cardinality(Owned(u)) < MaxUserSessions
    /\ registered' = [registered EXCEPT ![i] = s]
    /\ owner' = [owner EXCEPT ![s] = u]

Remove(ids) ==
    /\ registered' = [i \in SessionIds |-> IF i \in ids THEN None ELSE registered[i]]
    /\ UNCHANGED owner

Next == \/ \E i \in SessionIds, u \in UserIds, s \in Sessions : Create(i, u, s)
        \/ \E ids \in SUBSET SessionIds : Remove(ids)

Spec == Init /\ [][Next]_registryVars
=============================================================================
