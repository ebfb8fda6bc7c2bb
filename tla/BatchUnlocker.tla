---------------------------- MODULE BatchUnlocker ----------------------------
(***************************************************************************)
(* The BatchUnlocker of one take chain (processors/BatchUnlocker.ts): it   *)
(* pools the orders this taker fulfilled, one pool per give chain, and     *)
(* sends an unlock transaction for every BatchSize of them, one            *)
(* transaction at a time.                                                  *)
(*                                                                         *)
(* A step is a piece of code between two awaits.  What is awaited is the   *)
(* state of an order on the take chain, read once before an order is       *)
(* pooled and once more before its batch is sent, and the unlock           *)
(* transaction.  The chain moves on its own: orders are fulfilled, and a   *)
(* transaction that was reported as failed may still be mined.  The        *)
(* process may end at any time and starts again with empty pools.          *)
(*                                                                         *)
(* Abstracted: the order in which the Map yields its give chains and a     *)
(* pool its orders, so that a batch is any BatchSize orders of any full    *)
(* pool.  remove() is no action: it looks for the pool of the TAKE chain   *)
(* in a Map keyed by give chains (processor.ts:219) and changes nothing.   *)
(***************************************************************************)
EXTENDS Naturals, FiniteSets

CONSTANTS
  OrderId,
  Chain,       (* the give chains                                          *)
  GiveChain,   (* of each order                                            *)
  BatchSize,   (* srcConstraints.batchUnlockSize of each give chain        *)
  MaxChecks    (* bound on the unlockOrder calls of one order that overlap *)

OrderState == {"Open", "Ours", "Theirs", "UnlockSent"}

ASSUME BatchUnlockerAssumption ==
  /\ GiveChain \in [OrderId -> Chain]
  /\ BatchSize \in [Chain -> Nat \ {0}]
  /\ MaxChecks \in Nat

VARIABLES
  takeState,      (* the chain: state of each order, and who fulfilled it  *)
  stray,          (* the chain: batches reported as failed that may be mined *)
  approved,       (* unlockOrder calls whose check has passed, per order   *)
  ordersDataMap,  (* the orders whose data the Map holds                   *)
  unlockBatches,  (* unlockBatchesOrderIdMap: the pool of each give chain  *)
  isBatchUnlockLocked,
  batches,        (* the outstanding calls of performBatchUnlock           *)
  failed,         (* history: the last batch of this process failed        *)
  added           (* history: the orders this process has pooled           *)

chainVars == <<takeState, stray>>
poolVars == <<ordersDataMap, unlockBatches>>
vars == <<takeState, stray, approved, ordersDataMap, unlockBatches,
          isBatchUnlockLocked, batches, failed, added>>

(* A call of performBatchUnlock: the orders whose state is still to be read *)
(* and those already read as no longer fulfilled; then the sending.         *)
Batch == [giveChain: Chain, orderIds: SUBSET OrderId, unread: SUBSET OrderId,
          unlocked: SUBSET OrderId, sending: BOOLEAN]

Submitted(b) == b.orderIds \ b.unlocked

-----------------------------------------------------------------------------
EmptyMemory ==
  [approved |-> [o \in OrderId |-> 0], ordersDataMap |-> {},
   unlockBatches |-> [c \in Chain |-> {}], isBatchUnlockLocked |-> FALSE,
   batches |-> {}, failed |-> FALSE, added |-> {}]

Init ==
  /\ takeState = [o \in OrderId |-> "Open"]
  /\ stray = {}
  /\ approved = EmptyMemory.approved
  /\ ordersDataMap = EmptyMemory.ordersDataMap
  /\ unlockBatches = EmptyMemory.unlockBatches
  /\ isBatchUnlockLocked = EmptyMemory.isBatchUnlockLocked
  /\ batches = EmptyMemory.batches
  /\ failed = EmptyMemory.failed
  /\ added = EmptyMemory.added

(* The process ends, by a crash, by a failed assertion or by an unhandled   *)
(* rejection, and is started again.  A transaction on its way may be mined. *)
Restart ==
  /\ stray' \in {stray, stray \cup {Submitted(b) : b \in {x \in batches : x.sending}}}
  /\ approved' = EmptyMemory.approved
  /\ ordersDataMap' = EmptyMemory.ordersDataMap
  /\ unlockBatches' = EmptyMemory.unlockBatches
  /\ isBatchUnlockLocked' = EmptyMemory.isBatchUnlockLocked
  /\ batches' = EmptyMemory.batches
  /\ failed' = EmptyMemory.failed
  /\ added' = EmptyMemory.added
  /\ UNCHANGED takeState

-----------------------------------------------------------------------------
(* The take chain.                                                          *)

Fulfill(o) ==
  /\ takeState[o] = "Open"
  /\ \E s \in {"Ours", "Theirs"} : takeState' = [takeState EXCEPT ![o] = s]
  /\ UNCHANGED <<stray, approved, poolVars, isBatchUnlockLocked, batches, failed, added>>

(* The contract unlocks a batch only as a whole, and an order only once.    *)
Unlockable(ids) == \A o \in ids : takeState[o] = "Ours"

Unlocks(ids) ==
  takeState' = [o \in OrderId |-> IF o \in ids THEN "UnlockSent" ELSE takeState[o]]

StrayMined(ids) ==
  /\ Unlockable(ids)
  /\ Unlocks(ids)
  /\ stray' = stray \ {ids}
  /\ UNCHANGED <<approved, poolVars, isBatchUnlockLocked, batches, failed, added>>

-----------------------------------------------------------------------------
(* Filling the pools.                                                       *)

IsOurs_Fault(o) == takeState[o] \in {"Ours", "Theirs"}

IsOurs(o) == takeState[o] = "Ours"

(* unlockOrder, up to the answer of getTakeOrderState: the call ends unless *)
(* the order is fulfilled, and by this taker.  The feed may ask for an      *)
(* order more than once (ArchivalFulfilled and Fulfilled).                  *)
UnlockOrder(o) ==
  /\ IsOurs(o)
  /\ approved[o] < MaxChecks
  /\ approved' = [approved EXCEPT ![o] = @ + 1]
  /\ UNCHANGED <<chainVars, poolVars, isBatchUnlockLocked, batches, failed, added>>

Full(pools, c) == Cardinality(pools[c]) >= BatchSize[c]

(* performBatchUnlock of a give chain, up to its first await.               *)
StartBatch(pools, c, others) ==
  \E ids \in SUBSET pools[c] :
    /\ Cardinality(ids) = BatchSize[c]
    /\ batches' = others \cup {[giveChain |-> c, orderIds |-> ids, unread |-> ids,
                                unlocked |-> {}, sending |-> FALSE]}

(* tryUnlock of a give chain.                                               *)
TryUnlock_Fault(pools, c) ==
  IF ~Full(pools, c)
  THEN UNCHANGED <<isBatchUnlockLocked, batches, failed>>
  ELSE /\ isBatchUnlockLocked' = TRUE
       /\ StartBatch(pools, c, batches)
       /\ failed' = FALSE

TryUnlock(pools, c) ==
  IF isBatchUnlockLocked \/ ~Full(pools, c)
  THEN UNCHANGED <<isBatchUnlockLocked, batches, failed>>
  ELSE /\ isBatchUnlockLocked' = TRUE
       /\ StartBatch(pools, c, batches)
       /\ failed' = FALSE

(* The answer of getTakeOrderState has been awaited.                        *)
CheckPassed_Fault(o) == TRUE

CheckPassed(o) == approved[o] > 0

(* The rest of unlockOrder, with addOrder and tryUnlock up to its await.    *)
AddOrder(o) ==
  LET c == GiveChain[o]
      pools == [unlockBatches EXCEPT ![c] = @ \cup {o}]
  IN /\ CheckPassed(o)
     /\ approved' = [approved EXCEPT ![o] = @ - 1]
     /\ unlockBatches' = pools
     /\ ordersDataMap' = ordersDataMap \cup {o}
     /\ added' = added \cup {o}
     /\ TryUnlock(pools, c)
     /\ UNCHANGED chainVars

-----------------------------------------------------------------------------
(* A batch.                                                                 *)

(* One of the reads of Promise.all in unlockOrders is answered.             *)
ReadOrderState(b, o) ==
  /\ o \in b.unread
  /\ batches' = (batches \ {b}) \cup
       {[b EXCEPT !.unread = @ \ {o},
                  !.unlocked = IF takeState[o] \in {"Ours", "Theirs"} THEN @ ELSE @ \cup {o}]}
  /\ UNCHANGED <<chainVars, approved, poolVars, isBatchUnlockLocked, failed, added>>

(* One of the reads fails, and with it Promise.all and tryUnlock, which     *)
(* leaves the lock as it is.  Nobody awaits tryUnlock: if the unhandled     *)
(* rejection ends the process this is a Restart, but Sentry's handler,      *)
(* present when SENTRY_DSN is set, keeps it alive.                          *)
ReadFails(b) ==
  /\ b.unread # {}
  /\ batches' = batches \ {b}
  /\ failed' = TRUE
  /\ UNCHANGED <<chainVars, approved, poolVars, isBatchUnlockLocked, added>>

(* All reads are answered: the orders still fulfilled go into a transaction. *)
(* For an empty list its construction fails an assertion, which ends the    *)
(* process (createBatchOrderUnlockTx.ts:18).                                *)
SendBatch_Fault(b) ==
  /\ ~b.sending
  /\ batches' = (batches \ {b}) \cup {[b EXCEPT !.sending = TRUE]}
  /\ UNCHANGED <<chainVars, approved, poolVars, isBatchUnlockLocked, failed, added>>

SendBatch(b) ==
  /\ b.unread = {}
  /\ ~b.sending
  /\ \/ /\ Submitted(b) # {}
        /\ batches' = (batches \ {b}) \cup {[b EXCEPT !.sending = TRUE]}
        /\ UNCHANGED <<chainVars, approved, poolVars, isBatchUnlockLocked, failed, added>>
     \/ /\ Submitted(b) = {}
        /\ Restart

(* The tail of performBatchUnlock: orders leave the pool and the data Map.  *)
Clean_Fault(b, ids) ==
  /\ unlockBatches' = [unlockBatches EXCEPT ![b.giveChain] = @ \ ids]
  /\ UNCHANGED ordersDataMap

Clean(b, ids) ==
  /\ unlockBatches' = [unlockBatches EXCEPT ![b.giveChain] = @ \ ids]
  /\ ordersDataMap' = ordersDataMap \ ids

(* unlockAny after a success: on with any pool that is full; without one,   *)
(* the lock is released.                                                    *)
NextBatch_Fault(b, pools) ==
  /\ batches' = batches \ {b}
  /\ isBatchUnlockLocked' = FALSE

NextBatch(b, pools) ==
  \/ /\ \E c \in Chain : Full(pools, c) /\ StartBatch(pools, c, batches \ {b})
     /\ UNCHANGED isBatchUnlockLocked
  \/ /\ \A c \in Chain : ~Full(pools, c)
     /\ batches' = batches \ {b}
     /\ isBatchUnlockLocked' = FALSE

SendSucceeds(b) ==
  /\ b.sending
  /\ Unlockable(Submitted(b))
  /\ Unlocks(Submitted(b))
  /\ Clean(b, b.orderIds)
  /\ NextBatch(b, unlockBatches')
  /\ UNCHANGED <<stray, approved, failed, added>>

(* The transaction is reported as failed: only the orders that were already *)
(* unlocked leave the pool, and everything stops until the next addOrder.   *)
Leaving_Fault(b) == b.orderIds

Leaving(b) == b.unlocked

SendFails(b) ==
  /\ b.sending
  /\ stray' \in {stray, stray \cup {Submitted(b)}}
  /\ Clean(b, Leaving(b))
  /\ batches' = batches \ {b}
  /\ isBatchUnlockLocked' = FALSE
  /\ failed' = TRUE
  /\ UNCHANGED <<takeState, approved, added>>

-----------------------------------------------------------------------------
Next ==
  \/ \E o \in OrderId : Fulfill(o) \/ UnlockOrder(o) \/ AddOrder(o)
  \/ \E ids \in stray : StrayMined(ids)
  \/ \E b \in batches :
       \/ \E o \in b.unread : ReadOrderState(b, o)
       \/ ReadFails(b)
       \/ SendBatch(b)
       \/ SendSucceeds(b)
       \/ SendFails(b)
  \/ Restart

Spec == Init /\ [][Next]_vars

-----------------------------------------------------------------------------
(* Properties.                                                              *)

TypeOK ==
  /\ takeState \in [OrderId -> OrderState]
  /\ stray \subseteq SUBSET OrderId
  /\ approved \in [OrderId -> 0..MaxChecks]
  /\ ordersDataMap \subseteq OrderId
  /\ unlockBatches \in [Chain -> SUBSET OrderId]
  /\ isBatchUnlockLocked \in BOOLEAN
  /\ batches \subseteq Batch
  /\ failed \in BOOLEAN
  /\ added \subseteq OrderId

(* The lock serialises the unlock transactions of the take chain, across    *)
(* all give chains, although tryUnlock runs whenever an order is pooled.    *)
OneBatchAtATime ==
  /\ \A a, b \in batches : a = b
  /\ batches # {} => isBatchUnlockLocked

(* Every order of an outstanding batch belongs to the batch's give chain,   *)
(* still has its data when the transaction is built, and was fulfilled by   *)
(* this taker: one foreign order would make the whole batch revert.         *)
BatchesUnlockable ==
  \A b \in batches : \A o \in b.orderIds :
    /\ GiveChain[o] = b.giveChain
    /\ o \in ordersDataMap
    /\ takeState[o] \in {"Ours", "UnlockSent"}

(* The pools and the data Map hold the same orders, whatever fails between  *)
(* their updates: no entry is lost, and none is left behind.                *)
PoolsMatchData ==
  \A o \in OrderId, c \in Chain :
    o \in unlockBatches[c] <=> o \in ordersDataMap /\ c = GiveChain[o]

(* A pooled order leaves its pool only once it is unlocked on the chain: a  *)
(* failed or partly filtered batch loses nobody's funds.                    *)
FulfilledOrdersPooled ==
  \A o \in added : takeState[o] = "Ours" => o \in unlockBatches[GiveChain[o]]

(* When the lock is free no pool is full, unless the last batch failed:     *)
(* what became full during a batch is sent after it, in every direction.    *)
NoFullBatchForgotten ==
  ~isBatchUnlockLocked /\ ~failed => \A c \in Chain : ~Full(unlockBatches, c)

(* The assertion of createBatchOrderUnlockTx: a batch that is about to be   *)
(* sent has an order left to unlock.                                        *)
NoEmptyBatch == \A b \in batches : b.unread = {} => Submitted(b) # {}

(* The orders of the transaction on its way.                                *)
Lot == UNION {Submitted(b) : b \in {x \in batches : x.sending}}

Lots == INSTANCE UnlockLots WITH
  state <- takeState, held <- ordersDataMap, lot <- Lot, late <- stray

(* The unlocker implements UnlockLots: whatever is read, refused or mined   *)
(* late on the way, an order is let go only once it is unlocked, and what   *)
(* is sent is one non-empty lot of held orders of one give chain, which     *)
(* does not change any more (BatchUnlocker.ts:102-126, :161-245).           *)
ImplementsUnlockLots == Lots!Spec
=============================================================================
