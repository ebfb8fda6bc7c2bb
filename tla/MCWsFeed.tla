------------------------------ MODULE MCWsFeed ------------------------------
(* Model-checking instance of WsFeed.                                       *)
EXTENDS WsFeed, TLC

CONSTANTS o1, o2, k1, k2, rival

MCUnlockAuthorities == <<k1, k2>>

(* One order is ours to unlock, the other a rival's.                        *)
MCTaker == (o1 :> k2) @@ (o2 :> rival)
=============================================================================
