----------------------------- MODULE AtomicFile -----------------------------
(***************************************************************************)
(* What file transfer promises of the file that uploads are put at: it is  *)
(* replaced by a whole upload, at once, and by each upload at most once;   *)
(* nothing else ever changes it or takes it away.                          *)
(***************************************************************************)
EXTENDS Naturals, Sequences

CONSTANTS Sizes, \* the sizes a file may have
          None

VARIABLES uploads, \* the sizes of the uploads asked for
          file,    \* the content of the file, or None
          commits  \* the uploads that have replaced it

fileVars == <<uploads, file, commits>>

Whole(u) == [k \in 1..uploads[u] |-> <<u, k>>]

Init == /\ \E n \in Sizes : uploads = <<n>>
        /\ file \in {None, Whole(1)}
        /\ commits = {}

Ask == /\ \E n \in Sizes : uploads' = Append(uploads, n)
       /\ UNCHANGED <<file, commits>>

Commit == /\ \E u \in 2..Len(uploads) : /\ u \notin commits
                                        /\ file' = Whole(u)
                                        /\ commits' = commits \cup {u}
          /\ UNCHANGED uploads

Next == Ask \/ Commit

Spec == Init /\ [][Next]_fileVars

=============================================================================
