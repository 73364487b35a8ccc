----------------------------- MODULE MCBackoff -----------------------------
EXTENDS Backoff

\* time.Second and 1800 * time.Second (connectionmanager.go).
Second == {9, 11, 14, 15, 17, 19, 20, 23, 24, 25, 27, 28, 29}
HalfAnHour == {12, 14, 18, 19, 20, 22, 27, 28, 32, 33, 37, 39, 40}
=============================================================================
