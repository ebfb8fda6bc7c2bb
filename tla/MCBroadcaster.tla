---------------------------- MODULE MCBroadcaster ----------------------------
(* Model-checking instances of Broadcaster.                                 *)
EXTENDS Broadcaster

CONSTANTS c1, c2

MCEip1559Compatible == {"Ethereum", "Polygon"}
MCInputOpts == [ch \in {"Ethereum", "Polygon", "BSC"} |->
                  IF ch = "Ethereum" THEN [overcappingAllowance |-> 15000] ELSE <<>>]

(* The tips of the last blocks; a quiet market, a busy one, and one in      *)
(* which no tips were paid.                                                 *)
Tips(lowest, median, upper) ==
  (11250 :> lowest) @@ (500000 :> median) @@ (750000 :> upper)

Quiet == [gasPrice |-> 250, baseFee |-> <<100, 120, 110>>,
          reward |-> Tips(<<0, 12, 20>>, <<20, 30, 0, 40>>, <<60, 50>>)]
Busy == [gasPrice |-> 450, baseFee |-> <<120, 200, 210>>,
         reward |-> Tips(<<20>>, <<40, 90, 300, 100>>, <<100, 900>>)]

NoTips == [Quiet EXCEPT !.reward = Tips(<<0, 0>>, <<0, 0>>, <<>>)]

MCMarkets == {Quiet, Busy, NoTips}

(* Two calls of one authority, and one call on chains with other rules of   *)
(* pricing, while the market rises and while it falls.                      *)
MCScenarios ==
  {[chain |-> "Ethereum", calls |-> {c1, c2}, trend |-> <<Quiet>>],
   [chain |-> "BSC", calls |-> {c1}, trend |-> <<Quiet, Busy>>],
   [chain |-> "BSC", calls |-> {c1}, trend |-> <<Busy, Quiet>>],
   [chain |-> "Polygon", calls |-> {c1}, trend |-> <<Busy, Quiet>>],
   [chain |-> "Ethereum", calls |-> {c1}, trend |-> <<Busy, Quiet>>],
   [chain |-> "Ethereum", calls |-> {c1}, trend |-> <<NoTips, Quiet>>]}

=============================================================================
