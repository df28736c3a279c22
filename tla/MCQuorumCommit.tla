--------------------------- MODULE MCQuorumCommit ---------------------------
(* QuorumCommit with three nodes and logs of a few records.                *)
EXTENDS QuorumCommit
=============================================================================
