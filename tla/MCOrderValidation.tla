------------------------- MODULE MCOrderValidation --------------------------
(* Model-checking instances of OrderValidation.                             *)
EXTENDS OrderValidation, TLC

CONSTANTS Avalanche, k1, k2, k3, usdcA, usdcO, usdcS, eth, o1, o2

NoConstraints ==
  [TVLBudget |-> 0, minProfitabilityBps |-> 0, batchUnlockSize |-> 0, fulfillmentDelay |-> 0,
   throughputTimeWindowSec |-> 0, maxFulfillThroughputUSD |-> 0,
   requiredConfirmationsThresholds |-> <<>>]

Plain ==
  [disabled |-> FALSE, takerPrivateKey |-> None, fulfillAuthority |-> k1,
   unlockAuthorityPrivateKey |-> None, unlockAuthority |-> None, beneficiary |-> k1,
   constraints |-> NoConstraints,
   dstConstraints |-> [fulfillmentDelay |-> 0, perOrderValueUpperThreshold |-> <<>>],
   srcFilters |-> {}, dstFilters |-> {}]

(* Orders come from Avalanche: under $2 at one confirmation, under $5 at    *)
(* six, with a TVL budget and an unlock beneficiary of its own.             *)
MCAvalanche ==
  [Plain EXCEPT
     !.beneficiary = k2,
     !.srcFilters = {[kind |-> "giveAmountUsdEquivalentBetween", min |-> 500, max |-> 9000]},
     !.constraints = [NoConstraints EXCEPT
        !.TVLBudget = 8,
        !.fulfillmentDelay = 1,
        !.maxFulfillThroughputUSD = 50,
        !.throughputTimeWindowSec = 1,
        !.requiredConfirmationsThresholds =
          <<[thresholdAmountInUSD |-> 5, minBlockConfirmations |-> 6, fulfillmentDelay |-> 0,
             throughputTimeWindowSec |-> 0, maxFulfillThroughputUSD |-> 0],
            [thresholdAmountInUSD |-> 2, minBlockConfirmations |-> 1, fulfillmentDelay |-> 1,
             throughputTimeWindowSec |-> 0, maxFulfillThroughputUSD |-> 0]>>]]

MCOptimism ==
  [Plain EXCEPT !.fulfillAuthority = None, !.takerPrivateKey = k1, !.unlockAuthority = k2,
     !.dstFilters = {[kind |-> "blacklistedTakeToken", list |-> {usdcO}]}]

MCSolana ==
  [Plain EXCEPT !.dstConstraints = [fulfillmentDelay |-> 0, perOrderValueUpperThreshold |->
     <<[minBlockConfirmations |-> 12, fulfillmentDelay |-> 1]>>]]

MCDefinition == (Avalanche :> MCAvalanche) @@ (Optimism :> MCOptimism) @@ (Solana :> MCSolana)

MCBuckets ==
  {(Avalanche :> {usdcA}) @@ (Optimism :> {usdcO}) @@ (Solana :> {usdcS})
     @@ (Polygon :> {}) @@ (Linea :> {}) @@ (Neon :> {})}

(* $1 a unit of USDC, and $0.502 a unit of ETH.                             *)
MCPrice == (usdcA :> 1000) @@ (usdcO :> 1000) @@ (usdcS :> 1000) @@ (eth :> 502)
MCDecimals == (usdcA :> 0) @@ (usdcO :> 1) @@ (usdcS :> 0) @@ (eth :> 0)

Order(amount, chain, token, required) ==
  [give |-> [chainId |-> Avalanche, token |-> usdcA, amount |-> amount],
   take |-> [chainId |-> chain, token |-> token, amount |-> required],
   maker |-> k3, receiver |-> k3, allowedTaker |-> None, subsidy |-> 0, wellFormed |-> TRUE]

(* o1 needs a swap on Optimism, where only k2 may take it; o2 needs none.   *)
MCOrderData ==
  (o1 :> [Order(2, Optimism, eth, 3) EXCEPT !.allowedTaker = k2])
    @@ (o2 :> Order(4, Solana, usdcS, 3))

MCFilters ==
  {[kind |-> "whitelistedReceiver", list |-> {k3}], [kind |-> "whitelistedMaker", list |-> {k3}],
   [kind |-> "whitelistedOrderId", list |-> {o1, o2}],
   [kind |-> "whitelistedGiveToken", list |-> {usdcA}],
   [kind |-> "whitelistedTakeToken", list |-> {eth, usdcS}],
   [kind |-> "takeAmountUsdEquivalentBetween", min |-> 1000, max |-> 9000]}

MCShared == [batchUnlockSize |-> 10, minProfitabilityBps |-> 4]
MCReserve == (Avalanche :> 300) @@ (Optimism :> 0) @@ (Solana :> 0)
MCFinalization == {1, Finalized}
=============================================================================
