--------------------------- MODULE MCPortForward ---------------------------
EXTENDS PortForward, TLC

\* Forwarders and connection ids are interchangeable (safety only).
Symmetry == Permutations(Forwarders) \cup Permutations(ConnectionIds)

\* The same without a symmetry set, for liveness: forwarders and ids are numbers
\* and the client uses them in their order.  It opens any but the last one only
\* when at most one chunk and no forward message is left of the bounds, so that
\* one connection has all of them and two have little.  Only New is restrained,
\* which is under no fairness.
InOrder ==
    \A f \in Forwarders : cid'[f] # cid[f] =>
        /\ cid'[f] = f
        /\ \A g \in Forwarders : g > f => cid[g] = None
        /\ f < Cardinality(Forwarders) => data + 1 >= MaxData /\ forwards = MaxForwards
=============================================================================
