--------------------------- MODULE MCLeaseCluster ---------------------------
(* LeaseCluster for TLC: interchangeable nodes, and a bound on what happens  *)
(* in one behaviour: a late commit or a departure.                           *)
EXTENDS LeaseCluster, TLC

NodeSymmetry == Permutations(Nodes)

OneMishap == lateCount + departures <= 1
=============================================================================
