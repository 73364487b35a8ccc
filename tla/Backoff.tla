------------------------------ MODULE Backoff ------------------------------
(***************************************************************************)
(* The pause before a reconnect (connectionmanager/exponentialbackoff.go). *)
(*                                                                         *)
(* Durations are 64-bit integers of nanoseconds, written here as the set   *)
(* of the positions of their one bits: bit 63 is the sign, and a shift     *)
(* drops what it moves past it.  randomInterval, up to five smallestUnits  *)
(* on top of every result, is left out.                                    *)
(***************************************************************************)
EXTENDS Naturals, FiniteSetsExt

CONSTANTS smallestUnit, maxBackoff, \* positive durations
          MaxAttempts               \* bound: failed attempts in a row

VARIABLES attempts, interval

vars == <<attempts, interval>>

Init == attempts = 0 /\ interval = {}

ShiftLeft(d, k) == {b + k : b \in d} \cap 0..63

Negative(d) == 63 \in d

\* d > e for a duration e that is not negative.
Greater(d, e) ==
    /\ ~Negative(d) /\ d # e
    /\ Max((d \ e) \cup (e \ d)) \in d

GetExponentialBackoffTime(n) ==
    LET nextInterval == ShiftLeft(smallestUnit, n \div 3)
    IN IF Greater(nextInterval, maxBackoff) THEN maxBackoff ELSE nextInterval

\* A connect that waits and then fails, or is cancelled while it waits.
WaitForBackoff ==
    /\ attempts < MaxAttempts
    /\ attempts' = attempts + 1
    /\ interval' = GetExponentialBackoffTime(attempts + 1)

\* The dial succeeds.
resetBackoff ==
    /\ attempts > 0
    /\ attempts' = 0 /\ UNCHANGED interval

Next == WaitForBackoff \/ resetBackoff

Spec == Init /\ [][Next]_vars

\* The loops of the daemon go on reconnecting.
FairSpec == Spec /\ WF_vars(WaitForBackoff)

-----------------------------------------------------------------------------
\* exponentialbackoff.go:38 "double interval until maxBackoff is reached and
\* keep retrying with the maxBackoff interval": the pause never gets shorter
\* from one failure to the next.
NeverShrinks ==
    [][attempts > 0 /\ attempts' > attempts
         => ~Negative(interval') /\ ~Greater(interval, interval')]_vars

=============================================================================
