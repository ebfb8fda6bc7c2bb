-------------------------- MODULE OrderValidation ---------------------------
(***************************************************************************)
(* An attempt to take an order: the checks of OrderValidator and           *)
(* EVMOrderValidator, the estimation, the fulfilment and what follows it   *)
(* (chain-common/order-validator.ts, order-estimator.ts, order-taker.ts,   *)
(* order-evaluation-context.ts and their counterparts in chain-evm/).      *)
(* Every take chain attempts one order at a time; the attempts share the   *)
(* TVL of their give chain.                                                *)
(*                                                                         *)
(* A rejected order waits to be announced with more confirmations, a       *)
(* postponed one is attempted again: OrderProcessor has the queues.        *)
(* The throughput check may throttle an order of a limited range:          *)
(* Throughput has the controller.                                          *)
(*                                                                         *)
(* External: the statuses of the order on chain, the balance, swaps, gas,  *)
(* the estimation and the outcome of the transaction are any.              *)
(***************************************************************************)
EXTENDS TvlBudget

CONSTANTS
  Finalization,   (* the finalizations orders are announced with           *)
  Balance,        (* the balances of the reserve token an attempt can find *)
  SwapOutcome,    (* the amounts the first swap can come out at            *)
  MaxTime

ASSUME ValidationAssumption ==
  /\ \A c \in Configured : Starts(c)
  /\ Finalization \subseteq Nat \cup {Finalized}
  /\ None \notin OrderId \cup Finalization
  /\ None \notin [arrivedAt: 0..MaxTime, finalization: Finalization, ready: BOOLEAN]
  /\ \A o \in OrderId : Dispatched(o) /\ UsdValueOfAsset(Give(o)) \in Nat
  /\ MaxTime \in Nat

VARIABLES
  now,
  announced,  (* of each order: how final the feed last said it is          *)
  reported,   (* the listed orders of which an event came: history          *)
  known,      (* #createdOrdersMetadata, and whether it is to be attempted  *)
  attempts,   (* of each take chain                                         *)
  broken      (* the assertion that failed                                  *)

vars == <<cache, promises, ledger, now, announced, reported, known, attempts, broken>>

(* The checks an attempt goes through, and what follows them.               *)
Stage == {"order", "status", "funds", "tvl", "await", "constraints", "rough", "evm",
          "recheck", "estimate", "fulfil", "record"}

Entry == {"validationPreFulfillSwap", "gasLimit", "estimatedGasPrice", "estimatedFee",
          "preFulfillSwap"}

(* Its reported is history: what was reported when it asked for the TVL.    *)
Attempt == [order: OrderId, finalization: Finalization, at: Stage,
            payload: SUBSET Entry, promise: PromiseId \cup {None}, reported: SUBSET OrderId]

Init ==
  /\ TvlInit
  /\ now = 0
  /\ announced = [o \in OrderId |-> None]
  /\ reported = {}
  /\ known = [o \in OrderId |-> None]
  /\ attempts = [p \in Configured |-> None]
  /\ broken = None

Awaited == {attempts[p].promise : p \in {x \in Configured : attempts[x] # None}}

At(p, stage) == attempts[p] # None /\ attempts[p].at = stage

Proceed(p, stage) == attempts' = [attempts EXCEPT ![p].at = stage]

(* sc.reject and sc.postpone end the attempt.                               *)
Reject(p) ==
  /\ attempts' = [attempts EXCEPT ![p] = None]
  /\ UNCHANGED known

Postpone(p) ==
  /\ attempts' = [attempts EXCEPT ![p] = None]
  /\ known' = [known EXCEPT ![attempts[p].order].ready = TRUE]

(* A failed assertion ends the process, and all it kept of orders is gone.  *)
FailAssertion(assertion) ==
  /\ broken' = assertion
  /\ attempts' = [p \in Configured |-> None]
  /\ known' = [o \in OrderId |-> None]

-----------------------------------------------------------------------------
(* The events of the feed.                                                  *)

Later(f, g) == g # None => g # Finalized /\ (f # Finalized => f > g)

(* The metadata after a Created event: a later one only brings its          *)
(* finalization, and arrivedAt remains the time of the first.               *)
Metadata_Fault(o, f) ==
  [arrivedAt |-> now, finalization |-> IF known[o] = None THEN f ELSE None, ready |-> TRUE]

Metadata(o, f) ==
  [arrivedAt |-> IF known[o] = None THEN now ELSE known[o].arrivedAt,
   finalization |-> f, ready |-> TRUE]

Created(o, f) ==
  /\ Later(f, announced[o])
  /\ announced' = [announced EXCEPT ![o] = f]
  /\ known' = [known EXCEPT ![o] = Metadata(o, f)]
  /\ UNCHANGED <<tvlVars, ledger, now, reported, attempts, broken>>

(* An event that closes an order waits for the attempt that runs.  An open  *)
(* order is lost by it: another taker has it, or its maker cancelled it.    *)
(* The attempt may have met that before: CheckStatus and Fulfil may fail.   *)
Closes(o) ==
  /\ attempts[Take(o).chainId] = None
  /\ known' = [known EXCEPT ![o] = None]
  /\ ledger' = [ledger EXCEPT ![o] = IF ledger[o] = "open" THEN "lost" ELSE ledger[o]]

(* A Fulfilled, UnlockSent or UnlockClaim event.  The API may not list the  *)
(* order yet: nothing orders the two.                                       *)
Fulfilled(o) ==
  /\ Closes(o)
  /\ reported' = reported \cup {x \in {o} : ledger[x] \in {"indexed", "claimed"}}
  /\ Flush({Give(o).chainId, Take(o).chainId}, Awaited)
  /\ UNCHANGED <<now, announced, attempts, broken>>

Cancelled(o) ==
  /\ ledger[o] \in {"open", "lost"}
  /\ Closes(o)
  /\ UNCHANGED <<tvlVars, now, announced, reported, attempts, broken>>

-----------------------------------------------------------------------------
(* The checks, in their order.                                              *)

TakeOrder(o) ==
  LET p == Take(o).chainId
  IN /\ attempts[p] = None
     /\ known[o] # None
     /\ known[o].ready
     /\ known' = [known EXCEPT ![o].ready = FALSE]
     /\ attempts' = [attempts EXCEPT ![p] =
          [order |-> o, finalization |-> known[o].finalization, at |-> "order",
           payload |-> {}, promise |-> None, reported |-> {}]]
     /\ UNCHANGED <<tvlVars, ledger, now, announced, reported, broken>>

untouched == <<tvlVars, ledger, now, announced, reported>>

(* checkOrderId, checkExternalCallHash, checkAllowedTaker, checkRouting,    *)
(* checkPrefulfillSwapAbility.                                              *)
Acceptable(o) ==
  /\ OrderData[o].wellFormed
  /\ OrderData[o].allowedTaker \in {None, UnlockAuthority(Take(o).chainId)}
  /\ \E bucket \in Buckets : IsRoutedBy(bucket, o)
  /\ Take(o).chainId \in DexlessChains => ~RequiresSwap(o)

CheckOrder(p) ==
  /\ At(p, "order")
  /\ IF Acceptable(attempts[p].order) THEN Proceed(p, "status") /\ UNCHANGED known
     ELSE Reject(p)
  /\ UNCHANGED <<untouched, broken>>

(* checkTakeStatus and, after the estimation, checkGiveStatus too, which    *)
(* may not find the order; or an error of a node, which postpones.          *)
CheckStatus(p, from, to) ==
  /\ At(p, from)
  /\ \/ ledger[attempts[p].order] = "open" /\ Proceed(p, to) /\ UNCHANGED known
     \/ Reject(p)
     \/ Postpone(p)
  /\ UNCHANGED <<untouched, broken>>

(* checkFilters and checkAccountBalance.                                    *)
CheckFunds(p, balance) ==
  LET o == attempts[p].order
  IN /\ At(p, "funds")
     /\ IF ~FiltersApprove(o) THEN Reject(p)
        ELSE IF balance < MaxProfitableReserveAmount(o) THEN Postpone(p)
        ELSE Proceed(p, IF TVLBudget(Give(o).chainId) > 0 THEN "tvl" ELSE "constraints")
             /\ UNCHANGED known
     /\ UNCHANGED <<untouched, broken>>

(* checkTVLBudget, up to and from the answer of getCurrentTVL.              *)
AskTvl(p) ==
  LET c == Give(attempts[p].order).chainId
  IN /\ At(p, "tvl")
     /\ Ask(c)
     /\ attempts' = [attempts EXCEPT ![p].at = "await", ![p].promise = cache'[c],
                                     ![p].reported = reported]
     /\ UNCHANGED <<ledger, now, announced, reported, known, broken>>

WithinBudget(p) ==
  LET o == attempts[p].order
  IN Tvl(attempts[p].promise) + GetUsdValue(o) <= 100 * TVLBudget(Give(o).chainId)

Answered_Fault(i) == promises[i].phase = "done"

Answered(i) == promises[i].phase \in {"done", "failed"}

(* An error of the computation is one of the attempt, which is postponed.   *)
AnswerTvl(p) ==
  LET i == attempts[p].promise
  IN /\ At(p, "await")
     /\ Answered(i)
     /\ IF promises[i].phase = "done" /\ WithinBudget(p)
        THEN /\ attempts' = [attempts EXCEPT ![p].at = "constraints", ![p].promise = None,
                                             ![p].reported = {}]
             /\ UNCHANGED known
        ELSE Postpone(p)
     /\ promises' = Drop(cache, {attempts'[q].promise : q \in {x \in Configured : attempts'[x] # None}},
                         promises)
     /\ UNCHANGED <<cache, ledger, now, announced, reported, broken>>

(* checkFinalization, checkFulfillmentDelay, checkThroughput.               *)
AcceptsUnfinalized_Fault(o, f) ==
  f = Finalized \/ \E r \in Range(SrcRanges(Give(o).chainId)) : GetUsdValue(o) <= 100 * r.upperThreshold

AcceptsUnfinalized(o, f) ==
  f = Finalized \/ \E r \in SrcRange(o, f) : GetUsdValue(o) <= 100 * r.upperThreshold

MayThrottle(o, f) ==
  \E t \in ThroughputThresholds(Give(o).chainId) :
    /\ t.minBlockConfirmations <= BlockConfirmations(o, f)
    /\ t.maxFulfillThroughputUSD > 0 /\ t.throughputTimeWindowSec > 0

CheckConstraints(p) ==
  LET o == attempts[p].order
      f == attempts[p].finalization
  IN /\ At(p, "constraints")
     /\ \/ ~AcceptsUnfinalized(o, f) /\ Reject(p)
        \/ /\ AcceptsUnfinalized(o, f)
           /\ \/ now < known[o].arrivedAt + FulfillmentDelay(o, f) /\ Postpone(p)
              \/ MayThrottle(o, f) /\ Postpone(p)
              \/ /\ now >= known[o].arrivedAt + FulfillmentDelay(o, f)
                 /\ Proceed(p, "rough")
                 /\ UNCHANGED known
     /\ UNCHANGED <<untouched, broken>>

-----------------------------------------------------------------------------
(* The payload, which the validator hands to the estimator.                 *)

Sets(p, entries, stage) ==
  IF entries \cap attempts[p].payload # {} THEN FailAssertion("overwrites an entry")
  ELSE /\ attempts' = [attempts EXCEPT ![p].payload = @ \cup entries, ![p].at = stage]
       /\ UNCHANGED <<known, broken>>

Evm(p) == p \in EvmChain

RoughSwap_Fault(o) == {}

RoughSwap(o) == IF RequiresSwap(o) THEN {"validationPreFulfillSwap"} ELSE {}

CheckRoughProfitability(p, outcome) ==
  LET o == attempts[p].order
      received == IF RequiresSwap(o) THEN outcome ELSE MaxProfitableReserveAmount(o)
  IN /\ At(p, "rough")
     /\ IF received < Take(o).amount THEN Postpone(p) /\ UNCHANGED broken
        ELSE Sets(p, RoughSwap(o), IF Evm(p) THEN "evm" ELSE "recheck")
     /\ UNCHANGED untouched

(* checkEvmEstimation: the transaction is built with the first swap and     *)
(* without a capped fee, and estimated.                                     *)
EvmEstimation(p) ==
  LET o == attempts[p].order
  IN /\ At(p, "evm")
     /\ IF RequiresSwap(o) /\ "validationPreFulfillSwap" \notin attempts[p].payload
        THEN FailAssertion("missing preFulfillSwap")
        ELSE \/ Sets(p, {"gasLimit"}, "recheck")
             \/ Postpone(p) /\ UNCHANGED broken
     /\ UNCHANGED untouched

(* getEstimation: with the gas price, the fee and the hint for the swap,    *)
(* and the swap the order is to be fulfilled with.                          *)
Estimate(p) ==
  LET o == attempts[p].order
      fee == IF Evm(p) THEN {"estimatedGasPrice", "estimatedFee"} ELSE {}
      swap == IF RequiresSwap(o) THEN {"preFulfillSwap"} ELSE {}
  IN /\ At(p, "estimate")
     /\ IF RequiresSwap(o) /\ "validationPreFulfillSwap" \notin attempts[p].payload
        THEN FailAssertion("missing validationPreFulfillSwap")
        ELSE \/ Sets(p, fee \cup swap, "fulfil")
             \/ Postpone(p) /\ UNCHANGED broken
     /\ UNCHANGED untouched

(* createOrderFullfillTx: the transaction has its swap and a capped fee.    *)
(* That the fee is not zero is abstracted: gas and its price never are.     *)
Buildable(p) ==
  /\ RequiresSwap(attempts[p].order) => "preFulfillSwap" \in attempts[p].payload
  /\ Evm(p) => {"gasLimit", "estimatedFee"} \subseteq attempts[p].payload

-----------------------------------------------------------------------------
(* The fulfilment.                                                          *)

(* attemptFulfil: a transaction that fails may still be included, and the   *)
(* order is postponed either way; one that comes after a rival's reverts.   *)
Fulfil(p) ==
  LET o == attempts[p].order
      included == [ledger EXCEPT ![o] = "fulfilled"]
  IN /\ At(p, "fulfil")
     /\ IF ~Buildable(p)
        THEN FailAssertion("expects a swap and a capped fee") /\ UNCHANGED ledger
        ELSE /\ \/ /\ ledger[o] = "open"
                   /\ ledger' = included
                   /\ \/ Proceed(p, "record") /\ UNCHANGED known
                      \/ Postpone(p)
                \/ UNCHANGED ledger /\ Postpone(p)
             /\ UNCHANGED broken
     /\ UNCHANGED <<tvlVars, now, announced, reported>>

(* After addOrder, flushCache; then markOrderAsFulfilled puts the order in  *)
(* the mempool, should the transaction get lost.                            *)
Record(p) ==
  /\ At(p, "record")
  /\ Flush({Give(attempts[p].order).chainId}, Awaited)
  /\ Postpone(p)
  /\ UNCHANGED <<ledger, now, announced, reported, broken>>

-----------------------------------------------------------------------------
(* The world.                                                               *)

Tick ==
  /\ now < MaxTime
  /\ now' = now + 1
  /\ UNCHANGED <<tvlVars, ledger, announced, reported, known, attempts, broken>>

(* The API lists an order that was fulfilled, and it is claimed.            *)
LedgerMoves(o) ==
  /\ \/ ledger[o] = "fulfilled" /\ ledger' = [ledger EXCEPT ![o] = "indexed"]
     \/ ledger[o] = "indexed" /\ ledger' = [ledger EXCEPT ![o] = "claimed"]
  /\ UNCHANGED <<tvlVars, now, announced, reported, known, attempts, broken>>

(* DEFAULT_TVL_CACHE_TTL has passed.                                        *)
CacheExpires(c) ==
  /\ cache[c] # None
  /\ Flush({c}, Awaited)
  /\ UNCHANGED <<ledger, now, announced, reported, known, attempts, broken>>

TvlStep(i) ==
  /\ \/ TakerAccountBalance(i)
     \/ UnlockBeneficiaryAccountBalance(i)
     \/ PendingUnlockOrders(i)
     \/ ReadFails(i)
  /\ UNCHANGED <<now, announced, reported, known, attempts, broken>>

AttemptStep(p) ==
  \/ CheckOrder(p)
  \/ CheckStatus(p, "status", "funds")
  \/ \E balance \in Balance : CheckFunds(p, balance)
  \/ AskTvl(p)
  \/ AnswerTvl(p)
  \/ CheckConstraints(p)
  \/ \E outcome \in SwapOutcome : CheckRoughProfitability(p, outcome)
  \/ EvmEstimation(p)
  \/ CheckStatus(p, "recheck", "estimate")
  \/ Estimate(p)
  \/ Fulfil(p)
  \/ Record(p)

Next ==
  \/ \E o \in OrderId :
       \/ \E f \in Finalization : Created(o, f)
       \/ Fulfilled(o) \/ Cancelled(o) \/ TakeOrder(o) \/ LedgerMoves(o)
  \/ \E p \in Configured : AttemptStep(p)
  \/ \E i \in PromiseId : TvlStep(i)
  \/ \E c \in Configured : CacheExpires(c)
  \/ Tick

Spec == Init /\ [][Next]_vars

(* An assumption on those who are asked, not a timeout of the code: every   *)
(* request ends.  node then runs what awaited it.                           *)
Fairness ==
  /\ \A p \in Configured : WF_vars(AttemptStep(p))
  /\ \A i \in PromiseId : WF_vars(TvlStep(i))

FairSpec == Spec /\ Fairness

-----------------------------------------------------------------------------
(* Properties.                                                              *)

TypeOK ==
  /\ cache \in [Configured -> PromiseId \cup {None}]
  /\ promises \in [PromiseId -> Promise \cup {None}]
  /\ ledger \in [OrderId -> {"open", "lost", "fulfilled", "indexed", "claimed"}]
  /\ now \in 0..MaxTime
  /\ announced \in [OrderId -> Finalization \cup {None}]
  /\ reported \subseteq OrderId
  /\ known \in [OrderId -> [arrivedAt: 0..MaxTime, finalization: Finalization, ready: BOOLEAN]
                          \cup {None}]
  /\ attempts \in [Configured -> Attempt \cup {None}]
  /\ \A p \in Configured : attempts[p] # None => Take(attempts[p].order).chainId = p

(* An order goes to fulfilment before it is final only where a configured   *)
(* range allows its worth at a number of confirmations the feed announced   *)
(* it with (order-validator.ts:202-234), but for the half cent that         *)
(* getUsdValue (order.ts:46-50) rounds away.                                *)
UnfinalizedWithinRange ==
  \A p \in Configured : At(p, "fulfil") =>
    LET o == attempts[p].order
        raw == Definition[Give(o).chainId].constraints.requiredConfirmationsThresholds
    IN \/ announced[o] = Finalized
       \/ \E i \in DOMAIN raw :
            /\ raw[i].minBlockConfirmations <= announced[o]
            /\ UsdValueOfAsset(Give(o)) < 1000 * raw[i].thresholdAmountInUSD + 5

(* The validator leaves in the payload what the estimator and the builders  *)
(* of transactions assert to find there, on every path and on every chain,  *)
(* and nobody overwrites an entry (order-evaluation-context.ts:22,          *)
(* order-estimator.ts:94, createOrderFullfillTx.ts:17 and 59).              *)
AssertionsHold == broken = None

(* The TVL an attempt is answered with includes every order that the API    *)
(* listed when an event of its fulfilment was handled, if that was before   *)
(* the attempt asked (TVLBudgetController.ts:10: "the cache is being        *)
(* flushed on every fulfilled order"), whoever else shares the computation; *)
(* but for an order claimed while the computation runs, after the balance   *)
(* is read and before the pending orders are.  Nothing is said of an order  *)
(* whose event came before the API listed it.                               *)
FlushedOrdersCounted ==
  \A p \in Configured : At(p, "await") =>
    LET promise == promises[attempts[p].promise]
    IN promise.phase = "done" =>
         attempts[p].reported \cap {o \in OrderId : Give(o).chainId = promise.chain}
           \subseteq promise.counted \cup (From(promise.chain, "claimed") \ promise.claimedBefore)

(* Take chains that ask at once share one computation                       *)
(* (TVLBudgetController.ts:62): of those that run for a chain, only one was *)
(* not let go of by a flush.                                                *)
SharedComputation ==
  \A i, j \in PromiseId :
    Running(i) /\ Running(j) /\ promises[i].chain = promises[j].chain
      /\ ~promises[i].flushed /\ ~promises[j].flushed => i = j

(* Every attempt ends, and the processor gets to its next order: none waits *)
(* for a computation that was flushed or failed (processor.ts:237).         *)
AttemptsEnd == \A p \in Configured : []<>(attempts[p] = None)

(* The budget of the README (README.md:237-239): orders that come at once   *)
(* from a chain to several chains are fulfilled while they fit in its       *)
(* budget.                                                                  *)
BudgetRespected ==
  \A c \in Configured : TVLBudget(c) > 0 =>
    Reserve[c] + MapThenSumSet(GetUsdValue, {o \in OrderId :
        Give(o).chainId = c /\ ledger[o] \notin {"open", "lost"}})
      <= 100 * TVLBudget(c)
=============================================================================
