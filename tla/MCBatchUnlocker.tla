--------------------------- MODULE MCBatchUnlocker ---------------------------
(* Model-checking instances of BatchUnlocker.                               *)
EXTENDS BatchUnlocker, TLC

CONSTANTS o1, o2, o3, o4, c1, c2

(* Three orders from a chain unlocked in pairs, one from a chain unlocked    *)
(* order by order.                                                          *)
MCGiveChain == (o1 :> c1) @@ (o2 :> c1) @@ (o3 :> c1) @@ (o4 :> c2)
MCBatchSize == (c1 :> 2) @@ (c2 :> 1)

(* Both chains unlocked in pairs.                                           *)
MCBatchSizePairs == (c1 :> 2) @@ (c2 :> 2)

(* The orders of a chain are alike.                                         *)
Symmetry == Permutations({o1, o2, o3})
=============================================================================
