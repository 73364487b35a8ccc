--------------------------- MODULE MCFileTransfer ---------------------------
(* FileTransfer for TLC: without limits, with a limit on the rate, with     *)
(* limits that refuse to overwrite, and with those that overwrite the files *)
(* of one owner.                                                            *)
EXTENDS FileTransfer

Off == [Enabled |-> FALSE, AllowOverwrite |-> FALSE, OwnerPut |-> FALSE,
        OwnerGet |-> FALSE, RegularFilesOnly |-> FALSE, Rated |-> FALSE,
        DirOwned |-> FALSE, MaxFileSize |-> 0]
Strict == [Off EXCEPT !.Enabled = TRUE, !.RegularFilesOnly = TRUE,
                      !.MaxFileSize = 2]
Slow == [Off EXCEPT !.Enabled = TRUE, !.AllowOverwrite = TRUE, !.Rated = TRUE]
Owned == [Off EXCEPT !.Enabled = TRUE, !.AllowOverwrite = TRUE, !.OwnerPut = TRUE,
                     !.OwnerGet = TRUE, !.DirOwned = TRUE]
MCLimitChoices == {Off, Strict, Slow, Owned}

First == CHOOSE h \in Handlers : TRUE

Plain == target # None => target.regular /\ target.owner = "put"

\* One handler with failures, of one request and any file or of MaxRequests
\* with a limit on the rate; or two without failures, of which the second has
\* version 1.
One == /\ faults = MaxFaults
       /\ sess = [h \in Handlers |-> IF h = First THEN "serve" ELSE "closed"]
       /\ requests = IF limits = Slow THEN MaxRequests ELSE 1
       /\ limits \in {Off, Slow} => Plain
       /\ limits = Slow => target # None /\ uploads = <<3>>
Two == /\ faults = 0 /\ sess = [h \in Handlers |-> "serve"]
       /\ requests = MaxRequests /\ limits = Owned
       /\ Plain /\ (target # None => Len(target.data) = 3)

MCInit == /\ Init /\ v2 \subseteq {First}
          /\ target = None => uploads = <<0>>
          /\ One \/ Two
MCSpec == MCInit /\ [][Next]_vars /\ Fairness

=============================================================================
