---------------------------- MODULE MCThroughput ----------------------------
(* Model-checking instances of Throughput.                                  *)
EXTENDS Throughput, TLC

CONSTANTS p1, p2, o1, o2, o3

(* Two limited ranges, and one for finalized orders whose limit lacks its    *)
(* window and is none.                                                      *)
Early == [minBlockConfirmations |-> 1, maxFulfillThroughputUSD |-> 2,
          throughputTimeWindowSec |-> 2]
Late == [minBlockConfirmations |-> 3, maxFulfillThroughputUSD |-> 3,
         throughputTimeWindowSec |-> 1]
Final == [minBlockConfirmations |-> 5, maxFulfillThroughputUSD |-> 1,
          throughputTimeWindowSec |-> 0]

MCThreshold == {Early, Late, Final}
MCConfirmations == {0, 1, 4, 5}
MCUsdValue == (o1 :> 2) @@ (o2 :> 1) @@ (o3 :> 2)

(* The orders of one give chain go to two take chains.                      *)
MCTakeChain == (o1 :> p1) @@ (o2 :> p1) @@ (o3 :> p2)

(* The same orders, all to one take chain.                                  *)
MCOneTakeChain == (o1 :> p1) @@ (o2 :> p1) @@ (o3 :> p1)
=============================================================================
