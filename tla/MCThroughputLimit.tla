-------------------------- MODULE MCThroughputLimit --------------------------
(* The instance of MCThroughput, with the record of what was fulfilled.      *)
EXTENDS MCThroughput, ThroughputLimit
=============================================================================
