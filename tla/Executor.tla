------------------------------ MODULE Executor ------------------------------
(***************************************************************************)
(* What the executor makes of its configuration (executor.ts, config.ts)   *)
(* and what an order finds there: the constraints of its chains, its       *)
(* filters (filters/), its route and the amount that may be spent on it    *)
(* (chain-common/order.ts).                                                *)
(*                                                                         *)
(* A missing number of the configuration is 0, which the code's `||`       *)
(* treats alike.  A key stands for its authority and its address.          *)
(*                                                                         *)
(* External: the prices and decimals of tokens, the subsidy of an order    *)
(* and the choice of its reserve token (legacy-dln-profitability).         *)
(***************************************************************************)
EXTENDS Integers, Sequences, FiniteSets, FiniteSetsExt

CONSTANTS
  ChainId,
  Solana, Polygon, Linea, Neon, Optimism,   (* chains the code singles out *)
  EvmChain,           (* the chains of the EVM engine                      *)
  Definition,         (* config.chains: of each configured chain           *)
  SharedConstraints,  (* config.srcConstraints                             *)
  GlobalFilters,      (* config.filters                                    *)
  Buckets,            (* each gives the tokens of every chain              *)
  Price,              (* of a token, in tenths of a cent                   *)
  Decimals,           (* of a token                                        *)
  OrderId,
  OrderData,          (* of each order                                     *)
  OpHorizonCampaign,  (* DISABLE_OP_HORIZON_CAMPAIGN is not set            *)
  Finalized,          (* the finalization that is not a number             *)
  None

Or(x, y) == IF x # 0 THEN x ELSE y

Configured == DOMAIN Definition

FinalizedBlockConfirmations ==
  [c \in ChainId |-> CASE c = Polygon -> 256 [] c = Solana -> 32 [] OTHER -> 12]

DexlessChains == {Linea, Neon}

ASSUME ExecutorAssumption ==
  \A c \in Configured :
    LET raw == Definition[c].constraints.requiredConfirmationsThresholds
    IN \A i \in DOMAIN raw : raw[i].minBlockConfirmations \in Nat /\ raw[i].thresholdAmountInUSD \in Nat

-----------------------------------------------------------------------------
(* The initialization of a chain.                                           *)

FulfillAuthority(c) ==
  IF Definition[c].takerPrivateKey # None THEN Definition[c].takerPrivateKey
  ELSE Definition[c].fulfillAuthority

(* Its own key when there is one, else the one that fulfils; equal keys     *)
(* share one object.                                                        *)
UnlockAuthority(c) ==
  LET own == {Definition[c].unlockAuthorityPrivateKey, Definition[c].unlockAuthority} \ {None}
  IN IF own = {} THEN FulfillAuthority(c) ELSE CHOOSE key \in own : TRUE

BatchSize(c) ==
  Or(Definition[c].constraints.batchUnlockSize, Or(SharedConstraints.batchUnlockSize, 10))

SrcConstraints(c) ==
  LET own == Definition[c].constraints
  IN [profitability |-> Or(own.minProfitabilityBps, Or(SharedConstraints.minProfitabilityBps, 4)),
      batchUnlockSize |-> IF c = Solana THEN Min({BatchSize(c), 7}) ELSE BatchSize(c),
      fulfillmentDelay |-> own.fulfillmentDelay,
      throughputTimeWindowSec |-> own.throughputTimeWindowSec,
      maxFulfillThroughputUSD |-> own.maxFulfillThroughputUSD]

(* The controller of the TVL does not look at the shared constraints.       *)
TVLBudget(c) == Definition[c].constraints.TVLBudget

(* A range does not inherit what it leaves out.                             *)
SrcRanges(c) ==
  LET raw == Definition[c].constraints.requiredConfirmationsThresholds
  IN [i \in DOMAIN raw |->
        [upperThreshold |-> raw[i].thresholdAmountInUSD,
         minBlockConfirmations |-> raw[i].minBlockConfirmations,
         fulfillmentDelay |-> raw[i].fulfillmentDelay,
         throughputTimeWindowSec |-> raw[i].throughputTimeWindowSec,
         maxFulfillThroughputUSD |-> raw[i].maxFulfillThroughputUSD]]

DstRanges(c) ==
  LET raw == Definition[c].dstConstraints.perOrderValueUpperThreshold
  IN [i \in DOMAIN raw |->
        [minBlockConfirmations |-> raw[i].minBlockConfirmations,
         fulfillmentDelay |->
           Or(raw[i].fulfillmentDelay, Definition[c].dstConstraints.fulfillmentDelay)]]

(* What the ThroughputController of the chain is constructed with: the      *)
(* ranges, and a final one for finalized orders.                            *)
ThroughputThresholds(c) ==
  LET threshold(confirmations, constraints) ==
        [minBlockConfirmations |-> confirmations,
         maxFulfillThroughputUSD |-> constraints.maxFulfillThroughputUSD,
         throughputTimeWindowSec |-> constraints.throughputTimeWindowSec]
  IN {threshold(SrcRanges(c)[i].minBlockConfirmations, SrcRanges(c)[i]) : i \in DOMAIN SrcRanges(c)}
       \cup {threshold(FinalizedBlockConfirmations[c], SrcConstraints(c))}

DstFilters(c) ==
  Definition[c].dstFilters \cup GlobalFilters
    \cup (IF Definition[c].disabled THEN {[kind |-> "disableFulfill"]} ELSE {})

(* init() throws otherwise, and nothing runs.                               *)
Starts(c) ==
  /\ Cardinality({Definition[c].takerPrivateKey, Definition[c].fulfillAuthority} \ {None}) = 1
  /\ Cardinality({Definition[c].unlockAuthorityPrivateKey,
                  Definition[c].unlockAuthority} \ {None}) <= 1
  /\ BatchSize(c) \in 1..10
  /\ \A i \in DOMAIN SrcRanges(c) :
       SrcRanges(c)[i].minBlockConfirmations < FinalizedBlockConfirmations[c]

(* execute: an order of a chain that is not configured is dropped.          *)
Dispatched(o) ==
  OrderData[o].take.chainId \in Configured /\ OrderData[o].give.chainId \in Configured

-----------------------------------------------------------------------------
(* An order, CreatedOrder.                                                  *)

Give(o) == OrderData[o].give
Take(o) == OrderData[o].take

Resync(amount, tokenIn, tokenOut) ==
  IF Decimals[tokenIn] > Decimals[tokenOut]
  THEN amount \div 10 ^ (Decimals[tokenIn] - Decimals[tokenOut])
  ELSE amount * 10 ^ (Decimals[tokenOut] - Decimals[tokenIn])

(* In tenths of a cent, as the price is.                                    *)
UsdValueOfAsset(offer) == (offer.amount * Price[offer.token]) \div 10 ^ Decimals[offer.token]

(* In cents: rounded to the nearest.                                        *)
GetUsdValue(o) == (UsdValueOfAsset(Give(o)) + 5) \div 10

IsRoutedBy(bucket, o) ==
  Give(o).token \in bucket[Give(o).chainId] /\ bucket[Take(o).chainId] # {}

ReserveDstToken(o) ==
  LET tokens == UNION {b[Take(o).chainId] : b \in {x \in Buckets : IsRoutedBy(x, o)}}
  IN IF Take(o).token \in tokens THEN Take(o).token ELSE CHOOSE token \in tokens : TRUE

RequiresSwap(o) == ReserveDstToken(o) # Take(o).token

RequiredMargin(o) ==
  LET margin == SrcConstraints(Give(o).chainId).profitability
      rebate == CASE ~OpHorizonCampaign -> 0
                  [] Take(o).chainId = Optimism -> 4
                  [] Give(o).chainId = Optimism -> 2
                  [] OTHER -> 0
  IN Max({margin - rebate, 0})

(* getMaxProfitableReserveAmountWithoutOperatingExpenses                    *)
MaxProfitableReserveAmount(o) ==
  (Resync(Give(o).amount, Give(o).token, ReserveDstToken(o)) * (10000 - RequiredMargin(o)))
    \div 10000 + OrderData[o].subsidy

BlockConfirmations(o, finalization) ==
  IF finalization = Finalized THEN FinalizedBlockConfirmations[Give(o).chainId]
  ELSE finalization

(* Of the ranges reached, the one of the most confirmations; the ranges of  *)
(* a source chain were sorted by their upper thresholds before.             *)
SrcRange(o, finalization) ==
  LET ranges == SrcRanges(Give(o).chainId)
      reached == {i \in DOMAIN ranges :
                    ranges[i].minBlockConfirmations <= BlockConfirmations(o, finalization)}
      before(i, j) ==
        \/ ranges[i].minBlockConfirmations > ranges[j].minBlockConfirmations
        \/ /\ ranges[i].minBlockConfirmations = ranges[j].minBlockConfirmations
           /\ \/ ranges[i].upperThreshold < ranges[j].upperThreshold
              \/ ranges[i].upperThreshold = ranges[j].upperThreshold /\ i <= j
  IN {ranges[i] : i \in {i \in reached : \A j \in reached : before(i, j)}}

DstRange(o, finalization) ==
  LET ranges == DstRanges(Take(o).chainId)
      reached == {i \in DOMAIN ranges :
                    ranges[i].minBlockConfirmations <= BlockConfirmations(o, finalization)}
      before(i, j) ==
        \/ ranges[i].minBlockConfirmations > ranges[j].minBlockConfirmations
        \/ ranges[i].minBlockConfirmations = ranges[j].minBlockConfirmations /\ i <= j
  IN {ranges[i] : i \in {i \in reached : \A j \in reached : before(i, j)}}

(* The only element of the range, or the constraints of the chain.          *)
RangeOr(range, default) == IF range = {} THEN default ELSE CHOOSE r \in range : TRUE

FulfillmentDelay(o, finalization) ==
  LET src == RangeOr(SrcRange(o, finalization), SrcConstraints(Give(o).chainId))
      dst == RangeOr(DstRange(o, finalization), Definition[Take(o).chainId].dstConstraints)
  IN Or(dst.fulfillmentDelay, src.fulfillmentDelay)

-----------------------------------------------------------------------------
(* The filters, one a file of filters/.                                     *)

DisableFulfill(o) == FALSE

(* It approves exactly the tokens it lists.                                 *)
BlacklistedGiveToken(addresses, o) == Give(o).token \in addresses

WhitelistedGiveToken(addresses, o) == Give(o).token \in addresses
BlacklistedTakeToken(addresses, o) == Take(o).token \notin addresses
WhitelistedTakeToken(addresses, o) == Take(o).token \in addresses
WhitelistedMaker(addresses, o) == OrderData[o].maker \in addresses
WhitelistedReceiver(addresses, o) == OrderData[o].receiver \in addresses
WhitelistedOrderId(orderIds, o) == o \in orderIds

GiveAmountUsdEquivalentBetween(min, max, o) ==
  min <= UsdValueOfAsset(Give(o)) /\ UsdValueOfAsset(Give(o)) <= max

TakeAmountUsdEquivalentBetween(min, max, o) ==
  min <= UsdValueOfAsset(Take(o)) /\ UsdValueOfAsset(Take(o)) <= max

Approves(f, o) ==
  CASE f.kind = "disableFulfill" -> DisableFulfill(o)
    [] f.kind = "blacklistedGiveToken" -> BlacklistedGiveToken(f.list, o)
    [] f.kind = "whitelistedGiveToken" -> WhitelistedGiveToken(f.list, o)
    [] f.kind = "blacklistedTakeToken" -> BlacklistedTakeToken(f.list, o)
    [] f.kind = "whitelistedTakeToken" -> WhitelistedTakeToken(f.list, o)
    [] f.kind = "whitelistedMaker" -> WhitelistedMaker(f.list, o)
    [] f.kind = "whitelistedReceiver" -> WhitelistedReceiver(f.list, o)
    [] f.kind = "whitelistedOrderId" -> WhitelistedOrderId(f.list, o)
    [] f.kind = "giveAmountUsdEquivalentBetween" -> GiveAmountUsdEquivalentBetween(f.min, f.max, o)
    [] f.kind = "takeAmountUsdEquivalentBetween" -> TakeAmountUsdEquivalentBetween(f.min, f.max, o)

FiltersApprove(o) ==
  \A filter \in DstFilters(Take(o).chainId) \cup Definition[Give(o).chainId].srcFilters :
    Approves(filter, o)
=============================================================================
