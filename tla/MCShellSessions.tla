-------------------------- MODULE MCShellSessions --------------------------
EXTENDS ShellSessions, TLC

\* Sessions, ids and users are interchangeable: no property is about liveness.
Symmetry == Permutations(Sessions) \cup Permutations(SessionIds)
              \cup Permutations(UserIds)

\* Pongs and a failure not in one behaviour: no step looks at the effects of both.
PongOrFault == pongs = 0 \/ faults = 0
=============================================================================
