-------------------------- MODULE MCRouterSession --------------------------
EXTENDS RouterSession, TLC

\* Sessions, ids and protocols are interchangeable (safety only).
Symmetry == Permutations(Sessions) \cup Permutations(SessionIds)
              \cup Permutations(Protos)
=============================================================================
