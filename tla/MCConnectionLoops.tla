------------------------- MODULE MCConnectionLoops -------------------------
EXTENDS ConnectionLoops
=============================================================================
