# Verification of dln-taker

dln-taker fulfils cross-chain orders: it learns of orders from a websocket feed,
decides whether and when to fulfil one on its take chain, sends the transaction,
and later unlocks what it earned on the give chain. This directory holds TLA+
models of the parts of it whose correctness depends on the order in which things
happen, TLC runs on small instances, and TLAPS proofs for every instance.

- [The system](#the-system)
- [The models](#the-models)
- [The runs](#the-runs)
- [Fairness](#fairness)
- [The proofs](#the-proofs)
- [Findings](#findings)
- [Other observations](#other-observations)
- [What is not modelled](#what-is-not-modelled)
- [Plan](#plan)

Paths below are relative to the repository; `tlc -config X.cfg M` runs a model,
`tlapm M.tla` checks the proofs of a module. The runs, the code each definition
translates, the mutants that show a property can fail, and the hazards are in
`PROJECT.json`.

## The system

The process is single-threaded: node.js runs one callback at a time, and what
interleaves are the pieces of code between two `await`s. There is one
`OrderProcessor` and one `BatchUnlocker` per take chain, one `MempoolService` per
processor, one `ThroughputController` and one `TVLBudgetController` per give
chain, shared by the processors of all take chains. Nothing is persisted: after a
restart the feed replays the open orders and the fulfilled ones that are not
unlocked.

| Component | State | Operations | Hard behaviours | Correct when |
| --- | --- | --- | --- | --- |
| **OrderProcessor** `processor.ts` | `createdOrdersMetadata`, `priorityQueue`, `queue`, `eventsQueue`, `isLocked` | `handleEvent`, `process`, `takeOrder`, `postponeOrder`, `markOrderAsFulfilled`, `pickNextOrderId` | events and timeouts arrive during the await of an attempt; the continuation after the lock is a recursion | one attempt at a time; no lost wake-up; no known order is forgotten, no closed or revoked one is taken; metadata outlives its users |
| **MempoolService** `processors/mempool.service.ts` | `trackedOrders` and its timeouts | `addOrder`, `delete`, the timeout callback | re-adding races with an armed timeout | one timeout per tracked order, none for another |
| **BatchUnlocker** `processors/BatchUnlocker.ts` | `ordersDataMap`, `unlockBatchesOrderIdMap`, `isBatchUnlockLocked` | `unlockOrder`, `addOrder`, `tryUnlock`, `unlockAny`, `performBatchUnlock`, `unlockOrders`, `remove` | state read before an await; partial filtering; a failed transaction mined later; restart | one batch at a time; no fulfilled order lost; no full pool left behind |
| **ThroughputController** `processors/throughput.ts` | ranges with `currentlyLocked` and `orders`, the Map `orders`, timers | `isThrottled`, `addOrder`, `removeOrder`, the timer | check and update of several processors are far apart; timers are never cleared | totals exact; budget released; limit exceeded by a bounded amount only |
| **Order taking** `chain-common/order-taker.ts`, `order.ts`, `order-evaluation-context.ts` | the payload of an attempt | `take`: validate, estimate, fulfil, tell the controllers | each step is an await and may postpone | its effects on the controllers match what was sent; the payload has what is read from it |
| **Order validation** `*/order-validator.ts` | none | the checks before an attempt, in order | constraints depend on confirmations and value; statuses, balances and the TVL change between checks | an order is sent unfinalized only where its worth is allowed; no attempt waits for ever |
| **Order estimation** `*/order-estimator.ts` | none | profitability, slippage clamp | reads what the validator left in the payload | its assertions hold |
| **TVLBudgetController** `processors/TVLBudgetController.ts`, `DataStore.ts`, `StatsAPI.ts` | a cached promise | `getCurrentTVL`, `flushCache` | flush during a computation; a rejected promise; time to live | every fulfilled order that was listed and flushed for when the TVL was asked for is counted |
| **EvmTxBroadcaster** `chain-evm/networking/broadcaster.ts`, `signer.ts`, `tx-builder.ts` | the broadcasts made so far | publish, poll, replace, seek | a replaced transaction is mined; nonces of concurrent calls | no gap in the nonces, no inclusion after a success, and a reported receipt is the chain's |
| **EVM fees** `chain-evm/fees`, `chain-evm/preferences` | none | options, percentile, bump, cap | boundaries, rounding, zero prices | a replacement outbids |
| **Order feed** `orderFeeds/ws.order.feed.ts` | the socket, the heartbeat timer | connect, subscribe, replay, translate | silence, reconnection, late messages | what was missed comes back, and nothing goes backwards |
| **Executor and configuration** `executor.ts`, `config.ts`, `cli` | the chains, built once | dispatch of orders, selection of constraints | several levels of configuration | the constraint of the order's value range is used |
| **Filters** `filters/` | none | one predicate a file | - | - |
| Hooks, Solana and EVM transaction generators, prices and swaps, utilities | none that survives a call | notification, calls of the client libraries | - | - |

How they interact: the feed calls the executor, which drops orders of chains that are
not configured and calls `handleEvent` of the processor of the order's take chain.
The processor awaits
`CreatedOrder.getTaker().take()`, which validates (asking the throughput and TVL
controllers of the give chain), estimates, and sends through the broadcaster.
Fulfilment events make the processor call its `BatchUnlocker`. Delayed orders sit
in the mempool, whose timeouts call back into the processor.

## The models

### OrderProcessor, TakeSchedule

`OrderProcessor.tla` models `processor.ts` together with the mempool. The
variables have the names of the fields. `running` is the set of attempts whose
await is outstanding, a set so that a missing lock would show as two of them;
`draining` is true while the synchronous continuation of `process()` runs, during
which no other callback can run; `rejected` and `revoked` are history variables
and `out` records the calls a step makes to collaborators.

| Action | Code |
| --- | --- |
| `ReceiveCreation` | `handleEvent` of Created and ArchivalCreated, and `process` up to its await |
| `ReceiveEvent` | `handleEvent` of every other status: queued when locked, handled when not |
| `TimeoutFires` | the function `getTimeoutFunc` returns, then `handleOrder` |
| `FinishAttempt` | the end of the await: fulfilled, postponed or rejected; the lock is released |
| `DrainEvent`, `PickNextOrder`, `Return` | the rounds of lines 239-249: events first, then the next order, then back to the event loop |

Every action contains the whole handler: closing an order clears the two queues
and the mempool and deletes the metadata, and `BeginAttempt` clears the order at
once when its finalization is revoked. Abstracted are the content of orders, the
attempt counter and `arrivedAt`, which only decide the length of a delay, and the
length itself: an armed timeout fires at any time.

`TakeSchedule.tla` is what the processor promises: orders are known, scheduled or
being taken; at most one is taken; only an idle scheduler forgets one. The
processor implements it under the mapping `Schedule` (`ImplementsTakeSchedule`).

### BatchUnlocker, UnlockLots

One action per piece of code between two awaits, and the take chain as
environment: `Fulfill` and `StrayMined` (a transaction reported as failed is mined
later). `UnlockOrder` is the call up to the answer about the order's state,
`AddOrder` its rest with `addOrder` and `tryUnlock`; `ReadOrderState`, `SendBatch`,
`SendSucceeds`, `SendFails` are the awaits of `performBatchUnlock`; `ReadFails` is
a rejected read; `Restart` ends the process and starts it with empty pools. A
batch is any `BatchSize` orders of any full pool, since the iteration order of
Map and Set carries no promise.

`UnlockLots.tla` is what the unlocker promises: an order it holds is let go only
once it is unlocked or the process ends; orders are unlocked in lots of one give
chain, one lot at a time; a lot that was given up may still be mined, as a whole.
The unlocker implements it (`ImplementsUnlockLots`): the orders held are those of
`ordersDataMap`, and the lot is what the outstanding batch has submitted.

### Throughput, ThroughputLimit

`Throughput.tla` models the controller of one give chain and the attempts of
several take chains that share it. `CheckThroughput` is the validator's question,
`Fulfill` the successful transaction, `Record` the call of `addOrder` after the
price was awaited again, `GiveUp` every way an attempt ends before that. Windows
are counted in ticks; a timer fires when its time has come and before the next
tick. Amounts are integers and an order has one worth: that the code adds and
subtracts floating-point numbers, with a price that is looked up again before
`addOrder`, so that `currentlyLocked` may drift by roundings, is not modelled.
`Topmost`/`GetMetric` translate the search through the sorted thresholds: a
topmost range without a limit hides the limited ones below it. The model assumes that
no two ranges start at the same number of confirmations, which a configuration
could break but has no use for.

`ThroughputLimit.tla` adds a history of what was really fulfilled, also when the
broadcaster gave up and the transaction was mined later.

### Fees, Broadcaster

`Fees.tla` holds the arithmetic of `chain-evm/fees` and `chain-evm/preferences`
as operators: the options a chain ends up with (what the operator gives, before
what the chain suggests, before the defaults), the two fee fetchers, and
`PopulateTx`, `PopulateReplacementTx`, `CheckCapping` of `EvmFeeManager`. Integers
are computed as the code computes its bigints, truncating; tips are sorted as
decimal strings, because the code's `sort()` has no comparator. Amounts are small
numbers instead of wei.

`Broadcaster.tla` runs several broadcasters of one authority against one node.
A broadcaster is a machine whose label `pc[c]` names what it awaits, and its
variables have the names of the fields (`broadcasts`, `polls`).

| Action | Code |
| --- | --- |
| `SendTransaction` | `EvmTxSigner.sendTransaction`: a broadcaster of its own for the call, and the capped fee the estimator found |
| `GetTransactionTemplate`, `TemplateFails` | `getTransactionTemplate`: nonce and gas estimation, and its failure, which at first ends the call and later starts the search |
| `PushTransaction`, `PushReplacementTransaction`, `PricingFails` | pricing, the cap, and `initiateBroadcast` with its count of attempts |
| `Publish`, `PublishAnswerLost`, `NonceTooLow`, `TransactionUnderpriced`, `OtherError` | `broadcast()` and `handleBroadcastRejection`, by the answer of the node |
| `PollFinds`, `PollMisses` | a poll for the receipt of the latest broadcast |
| `SeekSuccessfulBroadcast`, `SeekUnanswered` | the look at the other broadcasts before giving up |
| `Mine`, `Evict`, `MarketMoves` | external: the node includes a transaction, which may revert, or forgets it; prices move |

The node follows go-ethereum: it refuses a spent nonce and a replacement that does
not raise both prices by a tenth, and it may answer any question with an error. A
replaced transaction stays in the pool, for another node may still include it. An
inclusion may revert for a passing reason (gas, slippage, balance), and the next
estimation of the same call pass; only a call that succeeded and cannot be repeated
(`MaySucceed`), as a fulfilment, is never estimated successfully again.

### Executor, TvlBudget, OrderValidation

`Executor.tla` holds what the executor makes of its configuration, as functions of
it (`SrcConstraints`, `SrcRanges`, `DstRanges`, `UnlockAuthority`, `DstFilters`,
`Starts`), the getters of `CreatedOrder` (`GetUsdValue`, `ReserveDstToken`,
`MaxProfitableReserveAmount`, `SrcRange`), and one operator for each filter.

`TvlBudget.tla` has the promises of `getCurrentTVL` and what is cached of them. A
promise is a record of how far its three requests have come and which orders they
found; several attempts may hold the same one. `ledger` is external: an order is
open, fulfilled, listed by the API, or claimed, and its worth is then in the
account of the beneficiary; or it is lost, fulfilled by a rival or cancelled. Nothing
relates it to the feed: the API and the websocket are two services, and an order's
event may be handled before or after the API lists the order. `reported` is a history
of the orders that were listed, or claimed, when an event of them was handled.

`OrderValidation.tla` has one attempt per take chain; `at` is the check it is
about to make.

| Action | Code |
| --- | --- |
| `Created`, `Fulfilled`, `Cancelled` | the events, as far as an attempt sees their effects: metadata, flushes; UnlockSent and UnlockClaim are `Fulfilled`, too |
| `TakeOrder` | the start of an attempt; it copies the finalization |
| `CheckOrder` | order id, external call, allowed taker, route, ability to swap |
| `CheckStatus` | the status on the take chain, before the funds; and again at the end, with that on the give chain; each can fail to be read |
| `CheckFunds` | filters, then the balance of the reserve token |
| `AskTvl`, `AnswerTvl` | `checkTVLBudget`, before and after its await |
| `CheckConstraints` | finalization, fulfilment delay, throughput |
| `CheckRoughProfitability`, `EvmEstimation` | the first swap, the gas estimation of EVM chains |
| `Estimate`, `Fulfil`, `Record` | the estimator, the transaction, the calls of the controllers afterwards |

Each ends the attempt where the code calls `sc.reject` or `sc.postpone`. The
payload is the set of its entries. A failed assertion ends the process
(`FailAssertion`) and `broken` records it. After a success `Record` leaves the order
in the mempool, as `markOrderAsFulfilled` does, until its event closes it.
An attempt is rejected or postponed without touching what it did not read, so
what the validator asks of external services (balances, swaps, gas, statuses) is
any value of a small set. `OrderProcessor` has the queues and `Throughput` the
controller behind the throughput check; here the check may postpone any order that
falls in a limited range. Of the capped fee only the presence is modelled: that it is
positive (`createOrderFullfillTx.ts:60`) holds because gas and its price are.

### WsFeed

The socket, the socket before it as long as it may still emit, the timer, and the
server. `Stale` is the callback of the timer (terminate, connect again),
`SocketOpen` sends the subscription and the requests for the open orders and, for
each unlock authority, the fulfilled ones. A terminated socket may still deliver
what it had received (`LateMessage`) and its pings restart the timer of the next
one (`LatePing`). The server answers commands in order (`Serve`), tells subscribers
what happens to orders (`OrderMoves`), goes silent or drops connections
(`GoesSilent`, `Drops`), `MaxFaults` times in all. That a terminated socket is
silent before its successor opens is an assumption on the library: closing is
local and opening takes two round trips.

Small helpers of these modules (a label's update, a field's selection, the types of
records) have no entry of their own in the map of `PROJECT.json`; the lines they
stand for belong to the definition that uses them.

## The runs

| Run | Instance | What it shows |
| --- | --- | --- |
| `processor_safety` | two orders, statuses Cancelled, Fulfilled, ArchivalFulfilled, at most two waiting events | type invariant; `MetadataPresent`, `MutualExclusion`, `NoLostWakeup`, `NoOrderForgotten`, `OneTimeoutPerOrder`; the action properties `NoAttemptOfClosedOrder`, `RevokedLiveOrderNotTaken`; the refinement of `TakeSchedule` |
| `processor_liveness` | two orders, UnlockSent, two waiting events | `QueuedEventsHandled`, `PriorityOrdersServed`, `RevocationHandled` |
| `revoke_honoured` | as above | violation: see Findings |
| `unlocker_safety` | four orders, a give chain unlocked in pairs and one unlocked singly | type invariant; `OneBatchAtATime`, `BatchesUnlockable`, `PoolsMatchData`, `FulfilledOrdersPooled`, `NoFullBatchForgotten`; the refinement of `UnlockLots` |
| `unlocker_empty_batch` | both chains in pairs | violation: see Findings |
| `throughput_safety` | three orders, two take chains, ranges with limits 2 and 3 and windows of 2 and 1 ticks, and one whose limit has no window and is none | type invariant; `LockedIsTotal`, `BudgetReleased`, `OvershootBounded` |
| `throughput_limit` | one take chain | violation: see Findings |
| `broadcaster_safety` | two calls of one authority on Ethereum, and one call on Ethereum, BSC and Polygon while the market rises or falls, or when no tips were paid; three attempts, one poll each | type invariant; `NoNonceGap`, `NothingAfterSuccess`, `ReportsTheChain`, `ReplacementOutbids`; the action property `RefusalIsSought`; `CallsSettle` |
| `broadcaster_seek` | as above | violation: see Findings |
| `order_validation_safety` | two orders from Avalanche, one to Optimism with a swap, one to Solana without, each of which may be lost to others; ranges of one and six confirmations, delays, a TVL budget | type invariant; `UnfinalizedWithinRange`, `AssertionsHold`, `FlushedOrdersCounted`, `SharedComputation`; `AttemptsEnd` |
| `order_validation_budget` | as above | violation: see Findings |
| `ws_feed_safety` | an order fulfilled by us and one by a rival, two unlock authorities, two faults | type invariant; `InSync`, `NeverBackwards`, `OrdersHanded` |

Why the bounds are enough to be interesting:

- Two orders let one be attempted while the other is queued, postponed, revoked
  or closed, and let two events wait in either order. `MaxEvents` bounds
  `eventsQueue`; the safety proofs hold for every bound. The three statuses are one
  per kind of effect (closing without unlock, closing with unlock, neither).
- Three orders of a chain unlocked in pairs leave one behind, so that a pool can
  fill again while a batch is away; the second chain fills while the first is
  being sent. `MaxChecks = 1` allows one `unlockOrder` call per order at a time,
  and a later one may follow, also after the order was unlocked.
- The worths 2, 1 and 2 against the limits 2 and 3: some orders fit a range
  together and others do not, and all three together exceed the bound of
  `OvershootBounded` for the first range, so the limits and the bound bind;
  confirmations 0, 1, 4 and 5 hit no range, each limited range and the unlimited
  one; an order may be added again in another range while the timer of its first
  entry is armed.
- Two calls are enough for a nonce to be spent by the other one, and three attempts
  for a replacement of a replacement, which is the aggressive last one, and for a
  call that moves to a second nonce with an earlier broadcast still known. One poll
  is enough, since a poll that misses only counts. The markets make the cap of a
  fulfilment bind, tips sort differently as strings than as numbers, and the BSC
  price leave its range after a bump.
- The orders to Optimism and Solana take every path of the validator: swap or not,
  EVM or not, a fulfilment delay of the give chain and one of the take chain, worth
  at the limits of both ranges. The worths 2 and 4 fit the budget of 8 over a
  reserve of 3 one at a time, not together. One tick of time (`MaxTime`) passes both
  delays. Two take chains share one give chain's computation, and a flush or a
  failure can fall between any two of its requests.
- Two faults let the connection fail again while the first recovery is under way;
  two ticks (`PingTimeout`) let a late ping postpone the timer.

`SYMMETRY` is used in two runs that check no liveness: over the two orders in
`processor_safety` and over the three alike orders in `unlocker_safety`. Deadlock is checked in
every run but those of `OrderValidation`, where every order may be closed and
nothing be left to do. Each property has a mutant in `PROJECT.json`: a variant of a
definition with a plausible bug (the `..._Fault` operators beside the definitions)
under which TLC finds the property violated.

## Fairness

`OrderProcessor`:

- weak fairness of `DrainEvent`, `PickNextOrder`, `Return`: they are one
  synchronous call, which runs to its end;
- weak fairness of the end of an attempt: what `take()` awaits are requests and the
  broadcaster. That they end is what `CallsSettle` and `AttemptsEnd` show, if every
  request does;
- strong fairness of each armed timeout: node fires it although other callbacks
  keep coming, and it is only now and then that `draining` disables it.

Nothing is assumed of the feed. The secondary queue is looked at only when the
priority queue is empty, so an archival order may wait for ever while live orders
keep coming; no liveness is claimed for it, and `RevocationHandled` excludes it.

`Broadcaster`: weak fairness of the steps of a call that runs. It assumes of the
provider that every request ends, with an answer or an error: `rpcCall` sets no
timeout (`broadcaster.ts:363-390`), and a request that never ended would hang the
call. That the node includes or accepts anything, or answers other than with errors,
is not assumed: `CallsSettle` rests on the two counters alone.

`OrderValidation` (`FairSpec`): weak fairness of the steps of each attempt and of each
computation of a TVL, on the same assumption about those who are asked. The answers
are not assumed to be good.

`WsFeed`: weak fairness of the timer, of its callback, of the library (a message that
was received is emitted, a terminated socket is closed), and of a server that is up
(a socket opens, commands are answered), and that a silent server comes back.
Faults are bounded; without an end to them nothing can be promised.

## The proofs

TLAPS proves, for any constants that satisfy the named assumptions of each module
(`OrderProcessorAssumption`, `BatchUnlockerAssumption`, `ThroughputAssumption`;
`FeesAssumption`, `BroadcasterAssumption`; `ExecutorAssumption`, `TvlAssumption`,
`ValidationAssumption`; `WsFeedAssumption`). They type the constants and say that
sets that are summed or counted are finite. No theorem has a hypothesis besides:

- **OrderProcessorProofs** - all safety invariants of `processor_safety`, the two
  action properties, and the refinement of `TakeSchedule`. The inductive invariant
  adds to them that the two Sets, modelled as sequences, have no duplicates
  (otherwise removing an element would leave a copy), that the lock is
  free while the continuation runs, and that the stored finalization of a live
  order agrees with the latest announcement (`revoked`), from which
  `RevokedLiveOrderNotTaken` follows. `SetAddLemma` and `SetDeleteLemma` say what
  adding and deleting do.
- **BatchUnlockerProofs** - all safety invariants of `unlocker_safety`. The
  inductive invariant adds that whatever passed the check of `unlockOrder` or was
  pooled was fulfilled by this taker (`ChecksOwned`) and that what a batch has read
  as unlocked is unlocked (`BatchesRead`). Both are facts learned before an await
  and used after it; they survive because the chain moves one way only, which
  `ChainLemma` states. `LotsRefined` is the refinement of `UnlockLots`, action by
  action: `AddOrder` holds an order, `SendBatch` sends a lot, `SendSucceeds` confirms
  it, `SendFails` gives it up, and reads do nothing. It needs one fact more
  (`SentIsRead`): what was sent is read, and not empty.
- **ThroughputProofs** - all invariants of `throughput_safety`. With the types,
  `LockedIsTotal` is inductive as it stands: adding, jumping and releasing each move a worth between
  the total and the sum it has to equal. `OvershootBounded` is not. It follows from
  `CommittedBounded`: the same bound holds of the total together with the worth of all
  attempts that have passed the check and are still to be recorded. When an attempt
  passes the check, the total with its own worth is within the limit, and each of the
  other processors has at most one order under way; recording moves a worth from one
  summand to the other, and every other step lowers the sum or keeps it.
- **SumTheorems** - what the sums of those proofs need: the sum over a finite set
  (the fold of the community modules) exists, is a natural number, and changes as it
  should when an element is added or removed or one weight changes, and a bound on
  the weights bounds it. An induction over sets is out of the provers' reach, so
  each is proved from a smallest counterexample: strict inclusion of finite sets is
  well-founded (`LeastSubset`).
- **BroadcasterProofs** - the type invariant, `NoNonceGap`, `NothingAfterSuccess`,
  `ReportsTheChain`, `RefusalIsSought` and `ReplacementOutbids`, for any number of
  concurrent calls and attempts. The inductive invariant says when a call has
  broadcasts (`Pushed`), that whatever is pending has the next nonce (`NoNonceGap`),
  that no call holds a nonce above that one and asks for a further template only
  when the nonce of its latest broadcast is spent (`NoncesReached`), and that a call
  that succeeded has nothing pending and holds spent nonces only
  (`SucceededIsOver`), from which `NothingAfterSuccess` follows: the estimation
  keeps such a call from taking another nonce. A call that was included and reverted
  is kept from nothing; its next estimation may pass and it be included again.
  `ReplacementOutbids` speaks of prices the bump can raise by a tenth
  (`Bumpable`): the division truncates, and with the multiplier of 1.3 a fee below
  five units, above all the tip of zero that the fetcher finds when no tips were paid
  (`fetcher-eip1559.ts:20`), is raised by less. `ReplacementEscalates` shows that a
  replacement of a price that can be bumped outbids it and can be bumped again, and
  the invariant (`PriceInv`) that what a call pushed under one nonce escalates in this
  sense, that a new nonce is a later one, and that what the node holds of a call
  is one of its broadcasts, and an earlier one while the next is being published.
- **OrderValidationProofs** - the type invariant, `UnfinalizedWithinRange`,
  `AssertionsHold`, `FlushedOrdersCounted` and `SharedComputation`, for any
  configuration, orders and number of chains. The invariant has three parts. `Base`
  is about attempts: at each stage the payload has exactly what was set on the way,
  the range accepts the order, and the order is known, since its events wait for
  the attempt; from it follows that no step comes to a failed assertion, and how each
  leaves those that wait alone (`Moves`). `TvlOK`: each promise is cached or awaited,
  so that by counting there always is an unused one (`FreshExists`), and one that was
  not flushed is the cached one. `CountOK`: a reported order is listed or claimed, and
  a promise that is done has counted every order reported when it was asked for, but
  for one claimed meanwhile. It rests on `LedgerGrows`, that a listed order stays
  listed or is claimed, and not on the order in which the feed and the API learn of a
  fulfilment: an order whose event came before it was listed is not in `reported`.
- **WsFeedProofs** - the type invariant, `InSync` and `NeverBackwards`, for any
  number of orders, authorities and faults. The invariant says in which order a
  socket hands out what it received (`HandedInOrder`), that a terminated socket and
  its successor never both deliver (`OneDelivers`), that until its
  subscription is acted on a socket has everything still to ask (`SubscribedFirst`), and,
  for each order the processor
  does not know the stage of, where the news of it is: with the server, which is
  still to be asked, or among what the socket has received (`NothingMissed`).

Only model-checked: liveness, which is beyond the prover (`QueuedEventsHandled`,
`PriorityOrdersServed`, `RevocationHandled`, `CallsSettle`, `AttemptsEnd`,
`OrdersHanded`), and the violated properties. Every invariant, action property and
refinement of the passing runs is a theorem.

## Findings

1. **A revocation is lost for orders first seen in the archive**
   (`RevokeHonoured`, `processor.ts:334`). `getFinalizationInfo` treats every order
   stored as ArchivalCreated as finalized, and a later Created event, also one that
   says Revoked, never changes that status. The order is taken although the comment
   at line 345 describes how a revoked order is handled. For orders first seen live
   the property holds and is proved (`RevokedLiveOrderNotTaken`).
2. **An unlock of nothing ends the process** (`NoEmptyBatch`,
   `BatchUnlocker.ts:215`). A batch is reported as failed and mined afterwards; the
   next attempt finds all its orders unlocked, still builds a transaction, and the
   assertion "empty array of orders given for batch unlock" in
   `createBatchOrderUnlockTx.ts` fails. After the restart the orders are not offered
   again, so nothing is lost but the process.
3. **A fulfilment reported as failed is not counted** (`ThroughputNotExceeded`,
   `order-taker.ts:56`). The comment above the call says that the order is added to
   the controller right before it is broadcast and stays there on errors, because a
   stuck transaction may be mined later. The call stands after the awaited success,
   so such an order is never counted and the limit can be exceeded, by one processor
   alone.

4. **The broadcaster does not look for its last published transaction**
   (`AllBroadcastsSought`, `broadcaster.ts:282`). Before it gives up, a broadcaster
   asks for the receipts of all its broadcasts but the last, meant to be the one
   that was just refused. When a replacement fails before anything is pushed (no
   attempt is left, or the fee cannot be fetched or exceeds the cap) the last one is
   a published transaction. Included after its polls ran out, it is reported as
   failed, although a test describes the search as one over "all previous
   unconfirmed broadcasts" (`broadcaster.test.ts:185-186`). When the last attempt
   was refused the search is complete, which `RefusalIsSought` states and is
   proved.
5. **The TVL budget can be exceeded by orders that come at once**
   (`BudgetRespected`, `order-validator.ts:192`). Two take chains are answered with
   the same TVL before either has fulfilled its order. The README of the program
   (lines 237-239) promises for such orders that only as many as fit are fulfilled.

## Other observations

- Several processors can pass the throughput check before any of them has called
  `addOrder`. `OvershootBounded` shows that the excess is at most the worth of one
  order for each other take chain.
- When an order is added to the throughput controller again, the timer of its first
  entry releases the second one early. No document promises otherwise, and the
  totals stay right.
- `unlocker.remove()` is called for UnlockSent and UnlockClaim with the id of the
  take chain, in a Map keyed by give chains (`processor.ts:219`): the call changes
  nothing, and an unlocked order leaves its pool only when its batch is read.
- A failing state read in `unlockOrders` rejects `tryUnlock`, which nobody awaits,
  with the lock held. Without a handler node ends the process; with Sentry's handler
  the unlocker of that chain stays locked until a restart (`ReadFails`).
- A failed batch is retried when another order of its give chain is pooled, or
  after a success in another direction, not by a timer (the exception in
  `NoFullBatchForgotten`).
- *Fees.* A tip of zero stays zero when it is bumped, so that its replacement does
  not outbid it, whatever `defaults.ts:51` and `manager.ts:283` say of the bump: the
  node refuses every replacement until no attempt is left, and `ReplacementOutbids`
  leaves such a price out. The model and its market without tips have it.
  For aggressive fees the percentile asked for
  is the multiplier of the base fee, 1.125 (`manager.ts:109`). The tips are sorted
  as strings (`fetcher-eip1559.ts:18`; line 23 takes differences for increases). A
  bump can lead the gas price of BNB above its maximum.
- Fulfilments and unlocks of one authority contend for nonces (the TODO at
  `signer.ts:48`); `NoNonceGap` and `NothingAfterSuccess` show that this costs attempts
  but neither leaves a gap nor repeats a call that succeeded. A call that was included
  and reverted for a passing reason after its polls ran out is another matter: its
  replacement is answered with a spent nonce (`broadcaster.ts:263-266`), its
  estimation passes, and it is sent again under the next nonce.
- `blacklistedGiveToken` approves exactly the tokens it lists
  (`black.listed.give.token.ts:22-24`, the other blacklist negates).
- *TVL.* The budget is read from the constraints of the chain only, the one in the
  shared constraints is ignored (`executor.ts:519`, compare line 677). A rejected
  promise stays cached up to 30 minutes, although the comment at
  `TVLBudgetController.ts:60-64` has it erased once resolved; until then every
  attempt with that give chain is postponed. An order that is claimed between the
  request for the balance and the one for the pending orders is counted by neither
  (the exception in `FlushedOrdersCounted`). The flush comes with the event of a
  fulfilment (`processor.ts:223-231`), but the orders are read from the API
  (`DataStore.ts:31-49`), which may not list that order yet: a TVL computed in between
  misses it and, without a further event, stays cached for up to 30 minutes
  (`TVLBudgetController.ts:10`). `FlushedOrdersCounted` says nothing of such an order.
  `DataStore.ts:31-49` pages by offset
  through a list that shrinks.
- *Configuration.* A range that gives no fulfilment delay has none
  (`executor.ts:727-733`; `README.md:309` lets it inherit), and a finalized order has
  the delay of the highest range (compare `README.md:287`). The example of
  `dstConstraints` in `README.md:329-335` is by value, the code compares
  confirmations (`config.ts:234-242`). The delay applies to archival orders, too
  (`config.ts:153-154`), and an order that exceeds the TVL is postponed, not rejected
  (`config.ts:124`).
- *Comments and assertions.* The assertion in `getPayloadEntry` compares `typeof`
  with `undefined` and can never fire (`order-evaluation-context.ts:27`; the models
  check what it means). `getUsdValue` rounds to the nearest cent, not up
  (`order.ts:48-49`), which is the half cent in `UnfinalizedWithinRange`;
  `takeTokenAsString` returns the give token (`order.ts:56-58`). The slippage passed
  to the final swap is computed from the evaluated amount, not from that swap.
- *Feed.* The handler of `close` only logs (`ws.order.feed.ts:213-217`): a dropped
  connection is noticed by the timer alone. Cancellations, fulfilments by rivals and
  unlocks that happen without a connection never come back, since only open and
  fulfilled orders are asked for; `checkTakeStatus` catches a stale order when it is
  attempted.

## What is not modelled

- **Hooks, Sentry, logging**: nothing reads a result back from them.
- **Solana transactions**: one transaction sent through a library, without attempts
  or replacements of its own; to the other models a fulfilment or an unlock
  succeeds, fails, or fails and is included later.
- **EVM transaction generators**: straight-line calls of the client library; their
  assertions are modelled (`Buildable`, `SendBatch`).
- **Prices and swaps, HTTP APIs, shared utilities**: requests to external services,
  whose answers are any.
- **Profitability**: arithmetic of an external library on external prices, hence the
  result of `Estimate` is any. The clamp of the slippage is arithmetic on its
  result that no other component reads.
- **Pages** of the list of pending orders: one request stands for them.
- **Start-up**: construction of clients and connections, environment and command
  line. `Starts` has the assertions that decide whether a chain starts.
- **Delay lengths of the mempool**: the formula is arithmetic on dates; every
  firing time is covered instead. Poll intervals have no length either.
- **The two microtasks** between the last look of `unlockAny` and the release of the
  lock: pooling follows the answer of a network request, and the model takes the
  two as one step.

## Plan

Done, in this order: `OrderProcessor` with `TakeSchedule`; `BatchUnlocker`;
`Throughput` with `ThroughputLimit`; `Fees` and `Broadcaster`; `Executor`, `TvlBudget`
and `OrderValidation`; `WsFeed`; with proofs of each; the refinement of `UnlockLots`.

| Next | What | Properties |
| --- | --- | --- |
| 1 | `Taker`: processor, unlocker and feed composed, with restarts | a fulfilled order is unlocked or pooled or offered again |
| 2 | `OrderValidation` with the controller of `Throughput` in place of the check that may postpone | budget and throughput together |
| 3 | lemmas on `Executor`: which range an order gets, monotonicity of the rounding | the bounds behind `UnfinalizedWithinRange` |

The order followed the money: first the code that decides whether an order is taken
and unlocked, then whether a transaction is sent twice, then the limits on what is
sent, and the feed.
