----------------------------- MODULE MCNeighbor -----------------------------
EXTENDS Neighbor

\* MAC address 10n + k is the k-th one of engine n.
MCMacOf == [x \in Mac |-> x \div 10]
MCFirstMac == [n \in Node |-> 10 * n]
=============================================================================
