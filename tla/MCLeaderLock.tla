---------------------------- MODULE MCLeaderLock ----------------------------
(* LeaderLock with two nodes and short leases.                             *)
EXTENDS LeaderLock, TLC

MCSymmetry == Permutations(Nodes)
=============================================================================
