------------------------- MODULE BatchUnlockerProofs -------------------------
(***************************************************************************)
(* Proofs about BatchUnlocker, for any orders, give chains, batch sizes    *)
(* and number of overlapping checks.                                       *)
(***************************************************************************)
EXTENDS BatchUnlocker, FiniteSetTheorems, TLAPS

-----------------------------------------------------------------------------
(* The inductive invariant: the properties, and the facts about the chain   *)
(* that the unlocker relies on without reading them again.                  *)

Owned(o) == takeState[o] \in {"Ours", "UnlockSent"}

(* What a check once established stays true, so a late continuation of      *)
(* unlockOrder pools no foreign order.                                      *)
ChecksOwned ==
  \A o \in OrderId : approved[o] > 0 \/ o \in ordersDataMap \cup added => Owned(o)

(* What a batch has read as unlocked is unlocked.                           *)
BatchesRead ==
  \A b \in batches :
    /\ b.unread \subseteq b.orderIds
    /\ b.unlocked \subseteq b.orderIds
    /\ \A o \in b.unlocked : takeState[o] = "UnlockSent"

IInv ==
  /\ TypeOK
  /\ OneBatchAtATime
  /\ BatchesUnlockable
  /\ PoolsMatchData
  /\ FulfilledOrdersPooled
  /\ NoFullBatchForgotten
  /\ ChecksOwned
  /\ BatchesRead

-----------------------------------------------------------------------------
(* Empty pools are not full.                                                *)
LEMMA EmptyNotFull ==
  ASSUME NEW pools, NEW c \in Chain, pools[c] = {}
  PROVE  ~Full(pools, c)
<1>1. Cardinality({}) = 0
  BY FS_EmptySet
<1>2. BatchSize[c] \in Nat \ {0}
  BY BatchUnlockerAssumption
<1>3. QED
  BY <1>1, <1>2 DEF Full

(* A batch is a set of orders of one pool, none of them read yet.           *)
LEMMA StartBatchLemma ==
  ASSUME NEW pools \in [Chain -> SUBSET OrderId], NEW c \in Chain,
         StartBatch(pools, c, {})
  PROVE  \E b \in Batch :
           /\ batches' = {b}
           /\ b.giveChain = c
           /\ b.orderIds \subseteq pools[c]
           /\ b.unread = b.orderIds
           /\ b.unlocked = {}
<1>1. PICK ids \in SUBSET pools[c] :
        batches' = {} \cup {[giveChain |-> c, orderIds |-> ids, unread |-> ids,
                             unlocked |-> {}, sending |-> FALSE]}
  BY DEF StartBatch
<1> DEFINE b == [giveChain |-> c, orderIds |-> ids, unread |-> ids,
                 unlocked |-> {}, sending |-> FALSE]
<1>2. ids \subseteq OrderId
  OBVIOUS
<1>3. b \in Batch
  BY <1>2 DEF Batch
<1>4. QED
  BY <1>1, <1>3

(* The invariant holds of a process that has just started.                  *)
LEMMA InitInv == Init => IInv
<1> SUFFICES ASSUME Init PROVE IInv
  OBVIOUS
<1>1. TypeOK
  BY BatchUnlockerAssumption DEF Init, EmptyMemory, TypeOK, OrderState
<1>2. NoFullBatchForgotten
  BY EmptyNotFull DEF Init, EmptyMemory, NoFullBatchForgotten
<1>3. QED
  BY <1>1, <1>2 DEF Init, EmptyMemory, IInv, OneBatchAtATime, BatchesUnlockable,
     PoolsMatchData, FulfilledOrdersPooled, ChecksOwned, BatchesRead

(* A restart forgets the pools and whatever was on its way.                 *)
LEMMA RestartStep == IInv /\ Restart => IInv'
<1> SUFFICES ASSUME IInv, Restart PROVE IInv'
  OBVIOUS
<1> USE DEF Restart, EmptyMemory
<1>1. TypeOK'
  <2>1. \A x \in batches : Submitted(x) \subseteq OrderId
    BY DEF IInv, TypeOK, Batch, Submitted
  <2>2. (stray \subseteq SUBSET OrderId)'
    BY <2>1 DEF IInv, TypeOK
  <2>3. QED
    BY <2>2, BatchUnlockerAssumption DEF IInv, TypeOK
<1>2. NoFullBatchForgotten'
  BY EmptyNotFull DEF NoFullBatchForgotten, Full
<1>3. QED
  BY <1>1, <1>2 DEF IInv, OneBatchAtATime, BatchesUnlockable,
     PoolsMatchData, FulfilledOrdersPooled, ChecksOwned, BatchesRead

-----------------------------------------------------------------------------
(* The chain moves: the state of an order changes from open to fulfilled or *)
(* from ours to unlocked, and the unlocker's memory stays as it is.         *)
LEMMA ChainLemma ==
  ASSUME IInv,
         takeState' \in [OrderId -> OrderState],
         stray' \subseteq SUBSET OrderId,
         \A o \in OrderId : \/ takeState'[o] = takeState[o]
                            \/ takeState[o] = "Open"
                            \/ takeState[o] = "Ours" /\ takeState'[o] = "UnlockSent",
         UNCHANGED <<approved, poolVars, isBatchUnlockLocked, batches, failed, added>>
  PROVE  IInv'
<1> USE DEF poolVars
<1>1. \A o \in OrderId : takeState[o] = "UnlockSent" => takeState'[o] = "UnlockSent"
  OBVIOUS
<1>2. \A o \in OrderId : Owned(o) => Owned(o)'
  BY DEF Owned
<1>3. \A o \in OrderId : Owned(o) /\ takeState'[o] = "Ours" => takeState[o] = "Ours"
  BY DEF Owned
<1>4. \A b \in batches : b.orderIds \subseteq OrderId /\ b.unlocked \subseteq OrderId
  BY DEF IInv, TypeOK, Batch
<1>5. TypeOK'
  BY DEF IInv, TypeOK
<1>6. BatchesUnlockable'
  BY <1>2, <1>4 DEF IInv, BatchesUnlockable, Owned
<1>7. FulfilledOrdersPooled'
  BY <1>3 DEF IInv, TypeOK, FulfilledOrdersPooled, ChecksOwned
<1>8. ChecksOwned'
  BY <1>2 DEF IInv, ChecksOwned
<1>9. BatchesRead'
  BY <1>1, <1>4 DEF IInv, BatchesRead
<1>10. QED
  BY <1>5, <1>6, <1>7, <1>8, <1>9 DEF IInv, OneBatchAtATime, PoolsMatchData,
     NoFullBatchForgotten, Full

(* An order is fulfilled, by this taker or by another.                      *)
LEMMA FulfillStep ==
  ASSUME IInv, NEW o \in OrderId, Fulfill(o)
  PROVE  IInv'
<1>1. PICK s \in {"Ours", "Theirs"} : takeState' = [takeState EXCEPT ![o] = s]
  BY DEF Fulfill
<1>2. takeState' \in [OrderId -> OrderState]
  BY <1>1 DEF IInv, TypeOK, OrderState
<1>3. QED
  BY <1>1, <1>2, ChainLemma DEF Fulfill, IInv, TypeOK

(* A transaction that was given up is mined after all.                      *)
LEMMA StrayMinedStep ==
  ASSUME IInv, NEW ids \in stray, StrayMined(ids)
  PROVE  IInv'
<1>1. takeState' = [x \in OrderId |-> IF x \in ids THEN "UnlockSent" ELSE takeState[x]]
  BY DEF StrayMined, Unlocks
<1>2. takeState' \in [OrderId -> OrderState]
  BY <1>1 DEF IInv, TypeOK, OrderState
<1>3. \A x \in ids : takeState[x] = "Ours"
  BY DEF StrayMined, Unlockable
<1>4. stray' \subseteq SUBSET OrderId
  BY DEF StrayMined, IInv, TypeOK
<1>5. QED
  BY <1>1, <1>2, <1>3, <1>4, ChainLemma DEF StrayMined

-----------------------------------------------------------------------------
(* The check before an order is pooled.                                     *)
LEMMA UnlockOrderStep ==
  ASSUME IInv, NEW o \in OrderId, UnlockOrder(o)
  PROVE  IInv'
<1> USE DEF UnlockOrder, chainVars, poolVars
<1>1. TypeOK'
  BY BatchUnlockerAssumption DEF IInv, TypeOK
<1>2. ChecksOwned'
  <2> SUFFICES ASSUME NEW x \in OrderId, approved'[x] > 0 \/ x \in ordersDataMap \cup added
               PROVE  Owned(x)
    BY DEF ChecksOwned, Owned
  <2>1. CASE x = o
    BY <2>1 DEF IsOurs, Owned
  <2>2. CASE x # o
    BY <2>2 DEF IInv, TypeOK, ChecksOwned
  <2>3. QED
    BY <2>1, <2>2
<1>3. QED
  BY <1>1, <1>2 DEF IInv, OneBatchAtATime, BatchesUnlockable, PoolsMatchData,
     FulfilledOrdersPooled, NoFullBatchForgotten, Full, BatchesRead

(* An order is pooled, and its pool may have become full.                   *)
LEMMA AddOrderStep ==
  ASSUME IInv, NEW o \in OrderId, AddOrder(o)
  PROVE  IInv'
<1> DEFINE c == GiveChain[o]
           pools == [unlockBatches EXCEPT ![c] = @ \cup {o}]
<1>1. /\ approved[o] > 0
      /\ approved' = [approved EXCEPT ![o] = @ - 1]
      /\ unlockBatches' = pools
      /\ ordersDataMap' = ordersDataMap \cup {o}
      /\ added' = added \cup {o}
      /\ TryUnlock(pools, c)
      /\ UNCHANGED chainVars
  BY DEF AddOrder, CheckPassed
<1>2. c \in Chain
  BY BatchUnlockerAssumption
<1>3. pools \in [Chain -> SUBSET OrderId]
  BY <1>2 DEF IInv, TypeOK
<1>4. /\ pools[c] = unlockBatches[c] \cup {o}
      /\ \A d \in Chain \ {c} : pools[d] = unlockBatches[d]
  BY <1>2 DEF IInv, TypeOK
<1>5. Owned(o)
  BY <1>1 DEF IInv, ChecksOwned
<1>6. approved' \in [OrderId -> 0..MaxChecks]
  BY <1>1, BatchUnlockerAssumption DEF IInv, TypeOK
<1>7. takeState' = takeState /\ stray' = stray
  BY <1>1 DEF chainVars
<1> HIDE DEF pools, c
<1>8. PoolsMatchData'
  <2> SUFFICES ASSUME NEW x \in OrderId, NEW d \in Chain
               PROVE  x \in pools[d] <=> x \in ordersDataMap \cup {o} /\ d = GiveChain[x]
    BY <1>1 DEF PoolsMatchData
  <2>1. CASE d = c
    BY <2>1, <1>2, <1>4 DEF IInv, PoolsMatchData, c
  <2>2. CASE d # c
    BY <2>2, <1>2, <1>4 DEF IInv, PoolsMatchData, c
  <2>3. QED
    BY <2>1, <2>2
<1>9. FulfilledOrdersPooled'
  <2> SUFFICES ASSUME NEW x \in added \cup {o}, takeState[x] = "Ours"
               PROVE  x \in pools[GiveChain[x]]
    BY <1>1, <1>7 DEF FulfilledOrdersPooled
  <2>1. CASE x = o
    BY <2>1, <1>4 DEF c
  <2>2. CASE x # o
    <3>1. x \in OrderId /\ x \in unlockBatches[GiveChain[x]]
      BY <2>2 DEF IInv, TypeOK, FulfilledOrdersPooled
    <3>2. GiveChain[x] \in Chain
      BY <3>1, BatchUnlockerAssumption
    <3>3. QED
      BY <3>1, <3>2, <1>4
  <2>3. QED
    BY <2>1, <2>2
<1>10. ChecksOwned'
  <2> SUFFICES ASSUME NEW x \in OrderId,
                      approved'[x] > 0 \/ x \in ordersDataMap \cup added \cup {o}
               PROVE  Owned(x)
    BY <1>1, <1>7 DEF ChecksOwned, Owned
  <2>1. CASE x = o
    BY <2>1, <1>5
  <2>2. CASE x # o
    BY <2>2, <1>1 DEF IInv, TypeOK, ChecksOwned
  <2>3. QED
    BY <2>1, <2>2
<1>11. CASE isBatchUnlockLocked \/ ~Full(pools, c)
  <2>1. UNCHANGED <<isBatchUnlockLocked, batches, failed>>
    BY <1>11, <1>1 DEF TryUnlock
  <2>2. TypeOK'
    BY <1>1, <1>3, <1>6, <1>7, <2>1 DEF IInv, TypeOK
  <2>3. NoFullBatchForgotten'
    <3> SUFFICES ASSUME ~isBatchUnlockLocked, ~failed, NEW d \in Chain
                 PROVE  ~Full(pools, d)
      BY <1>1, <2>1 DEF NoFullBatchForgotten
    <3>1. CASE d = c
      BY <3>1, <1>11
    <3>2. CASE d # c
      BY <3>2, <1>4 DEF IInv, NoFullBatchForgotten, Full
    <3>3. QED
      BY <3>1, <3>2
  <2>4. BatchesUnlockable' /\ BatchesRead' /\ OneBatchAtATime'
    BY <1>1, <1>7, <2>1 DEF IInv, BatchesUnlockable, BatchesRead, OneBatchAtATime
  <2>5. QED
    BY <1>8, <1>9, <1>10, <2>2, <2>3, <2>4 DEF IInv
<1>12. CASE ~isBatchUnlockLocked /\ Full(pools, c)
  <2>1. isBatchUnlockLocked' = TRUE /\ failed' = FALSE /\ StartBatch(pools, c, batches)
    BY <1>12, <1>1 DEF TryUnlock
  <2>2. batches = {}
    BY <1>12 DEF IInv, OneBatchAtATime
  <2>3. PICK b \in Batch : /\ batches' = {b}
                           /\ b.giveChain = c
                           /\ b.orderIds \subseteq pools[c]
                           /\ b.unread = b.orderIds
                           /\ b.unlocked = {}
    BY <2>1, <2>2, <1>2, <1>3, StartBatchLemma
  <2>4. TypeOK'
    BY <1>1, <1>3, <1>6, <1>7, <2>1, <2>3 DEF IInv, TypeOK
  <2>5. BatchesUnlockable'
    <3>1. \A x \in b.orderIds : x \in OrderId /\ x \in ordersDataMap' /\ GiveChain[x] = c
      BY <2>3, <1>1, <1>2, <1>3, <1>8 DEF PoolsMatchData
    <3>2. \A x \in b.orderIds : takeState'[x] \in {"Ours", "UnlockSent"}
      BY <3>1, <1>10 DEF ChecksOwned, Owned
    <3>3. QED
      BY <2>3, <3>1, <3>2 DEF BatchesUnlockable
  <2>6. BatchesRead' /\ OneBatchAtATime' /\ NoFullBatchForgotten'
    BY <2>1, <2>3 DEF BatchesRead, OneBatchAtATime, NoFullBatchForgotten
  <2>7. QED
    BY <1>8, <1>9, <1>10, <2>4, <2>5, <2>6 DEF IInv
<1>13. QED
  BY <1>11, <1>12

-----------------------------------------------------------------------------
(* Replacing the outstanding batch by one that has read or sent more of the *)
(* same orders.                                                             *)
LEMMA ProgressLemma ==
  ASSUME IInv, NEW b \in batches, NEW n \in Batch,
         n.giveChain = b.giveChain, n.orderIds = b.orderIds,
         n.unread \subseteq b.unread, n.unlocked \subseteq n.orderIds,
         \A o \in n.unlocked : takeState[o] = "UnlockSent",
         batches' = (batches \ {b}) \cup {n},
         UNCHANGED <<chainVars, approved, poolVars, isBatchUnlockLocked, failed, added>>
  PROVE  IInv'
<1> USE DEF chainVars, poolVars
<1>1. batches = {b}
  BY DEF IInv, OneBatchAtATime
<1>2. batches' = {n}
  BY <1>1
<1>3. TypeOK'
  BY <1>2 DEF IInv, TypeOK
<1>4. OneBatchAtATime' /\ BatchesUnlockable' /\ BatchesRead'
  BY <1>2 DEF IInv, OneBatchAtATime, BatchesUnlockable, BatchesRead
<1>5. QED
  BY <1>3, <1>4 DEF IInv, PoolsMatchData, FulfilledOrdersPooled,
     NoFullBatchForgotten, Full, ChecksOwned, Owned

(* An order of the batch is read.                                           *)
LEMMA ReadOrderStateStep ==
  ASSUME IInv, NEW b \in batches, NEW o \in b.unread, ReadOrderState(b, o)
  PROVE  IInv'
<1> DEFINE n == [b EXCEPT !.unread = @ \ {o},
                          !.unlocked = IF takeState[o] \in {"Ours", "Theirs"} THEN @ ELSE @ \cup {o}]
<1>1. b \in Batch /\ o \in b.orderIds /\ b.orderIds \subseteq OrderId
  BY DEF IInv, TypeOK, BatchesRead, Batch
<1>2. /\ n \in Batch /\ n.giveChain = b.giveChain /\ n.orderIds = b.orderIds
      /\ n.unread = b.unread \ {o}
      /\ n.unlocked = IF takeState[o] \in {"Ours", "Theirs"} THEN b.unlocked
                      ELSE b.unlocked \cup {o}
  BY <1>1 DEF Batch
<1>3. takeState[o] \in {"Ours", "UnlockSent"}
  BY <1>1 DEF IInv, BatchesUnlockable
<1>4. n.unlocked \subseteq n.orderIds /\ \A x \in n.unlocked : takeState[x] = "UnlockSent"
  BY <1>1, <1>2, <1>3 DEF IInv, BatchesRead
<1>5. /\ batches' = (batches \ {b}) \cup {n}
      /\ UNCHANGED <<chainVars, approved, poolVars, isBatchUnlockLocked, failed, added>>
  BY DEF ReadOrderState
<1> HIDE DEF n
<1>6. n.unread \subseteq b.unread
  BY <1>2
<1>7. QED
  BY <1>2, <1>4, <1>5, <1>6, ProgressLemma

(* A read fails: the batch is gone, the lock stays.                         *)
LEMMA ReadFailsStep ==
  ASSUME IInv, NEW b \in batches, ReadFails(b)
  PROVE  IInv'
<1> USE DEF ReadFails, chainVars, poolVars
<1>1. TypeOK'
  BY DEF IInv, TypeOK
<1>2. QED
  BY <1>1 DEF IInv, OneBatchAtATime, BatchesUnlockable, PoolsMatchData,
     FulfilledOrdersPooled, NoFullBatchForgotten, Full, ChecksOwned, Owned, BatchesRead

(* All orders of the batch are read: it is sent, or the process ends.       *)
LEMMA SendBatchStep ==
  ASSUME IInv, NEW b \in batches, SendBatch(b)
  PROVE  IInv'
<1>1. CASE Restart
  BY <1>1, RestartStep
<1>2. CASE /\ batches' = (batches \ {b}) \cup {[b EXCEPT !.sending = TRUE]}
           /\ UNCHANGED <<chainVars, approved, poolVars, isBatchUnlockLocked, failed, added>>
  <2> DEFINE n == [b EXCEPT !.sending = TRUE]
  <2>1. /\ n \in Batch /\ n.giveChain = b.giveChain /\ n.orderIds = b.orderIds
        /\ n.unread = b.unread /\ n.unlocked = b.unlocked
    BY DEF IInv, TypeOK, Batch
  <2>2. batches' = (batches \ {b}) \cup {n}
    BY <1>2
  <2> HIDE DEF n
  <2>3. n.unlocked \subseteq n.orderIds /\ \A x \in n.unlocked : takeState[x] = "UnlockSent"
    BY <2>1 DEF IInv, BatchesRead
  <2>4. QED
    BY <1>2, <2>1, <2>2, <2>3, ProgressLemma
<1>3. QED
  BY <1>1, <1>2 DEF SendBatch

(* Orders of the batch that are unlocked leave their pool and the data Map.  *)
LEMMA CleanLemma ==
  ASSUME IInv, NEW b \in batches, NEW ids, ids \subseteq b.orderIds, Clean(b, ids),
         takeState' \in [OrderId -> OrderState],
         \A o \in OrderId : Owned(o) => Owned(o)',
         \A o \in OrderId : takeState'[o] = "Ours" => takeState[o] = "Ours" /\ o \notin ids,
         UNCHANGED <<approved, added>>
  PROVE  /\ unlockBatches' \in [Chain -> SUBSET OrderId]
         /\ ordersDataMap' \subseteq OrderId
         /\ PoolsMatchData' /\ FulfilledOrdersPooled' /\ ChecksOwned'
<1> DEFINE c == b.giveChain
<1>1. c \in Chain /\ \A o \in ids : o \in OrderId /\ GiveChain[o] = c
  BY DEF IInv, TypeOK, Batch, BatchesUnlockable
<1>2. /\ unlockBatches' = [unlockBatches EXCEPT ![c] = @ \ ids]
      /\ ordersDataMap' = ordersDataMap \ ids
  BY DEF Clean
<1> HIDE DEF c
<1>3. /\ unlockBatches' \in [Chain -> SUBSET OrderId]
      /\ \A d \in Chain : unlockBatches'[d] =
            IF d = c THEN unlockBatches[d] \ ids ELSE unlockBatches[d]
  BY <1>1, <1>2 DEF IInv, TypeOK
<1>4. PoolsMatchData'
  <2> SUFFICES ASSUME NEW o \in OrderId, NEW d \in Chain
               PROVE  o \in unlockBatches'[d] <=> o \in ordersDataMap' /\ d = GiveChain[o]
    BY DEF PoolsMatchData
  <2>1. o \in unlockBatches[d] <=> o \in ordersDataMap /\ d = GiveChain[o]
    BY DEF IInv, PoolsMatchData
  <2>2. CASE d = c
    BY <2>1, <2>2, <1>2, <1>3
  <2>3. CASE d # c
    <3>1. o \in ids => d # GiveChain[o]
      BY <2>3, <1>1
    <3>2. QED
      BY <2>1, <2>3, <3>1, <1>2, <1>3
  <2>4. QED
    BY <2>2, <2>3
<1>5. FulfilledOrdersPooled'
  <2> SUFFICES ASSUME NEW o \in added, takeState'[o] = "Ours"
               PROVE  o \in unlockBatches'[GiveChain[o]]
    BY DEF FulfilledOrdersPooled
  <2>1. o \in OrderId
    BY DEF IInv, TypeOK
  <2>2. takeState[o] = "Ours" /\ o \notin ids
    BY <2>1
  <2>3. o \in unlockBatches[GiveChain[o]] /\ GiveChain[o] \in Chain
    BY <2>1, <2>2, BatchUnlockerAssumption DEF IInv, FulfilledOrdersPooled
  <2>4. QED
    BY <2>2, <2>3, <1>3
<1>6. ChecksOwned'
  BY <1>2 DEF IInv, ChecksOwned
<1>7. QED
  BY <1>2, <1>3, <1>4, <1>5, <1>6 DEF IInv, TypeOK

(* The transaction succeeds, and the next full pool follows.                *)
LEMMA SendSucceedsStep ==
  ASSUME IInv, NEW b \in batches, SendSucceeds(b)
  PROVE  IInv'
<1>1. /\ takeState' = [o \in OrderId |-> IF o \in Submitted(b) THEN "UnlockSent" ELSE takeState[o]]
      /\ \A o \in Submitted(b) : takeState[o] = "Ours"
      /\ Clean(b, b.orderIds)
      /\ NextBatch(b, unlockBatches')
      /\ UNCHANGED <<stray, approved, failed, added>>
  BY DEF SendSucceeds, Unlocks, Unlockable
<1>2. batches = {b}
  BY DEF IInv, OneBatchAtATime
<1>3. takeState' \in [OrderId -> OrderState]
  BY <1>1 DEF IInv, TypeOK, OrderState
<1>4. \A o \in OrderId : Owned(o) => Owned(o)'
  BY <1>1 DEF Owned
<1>5. \A o \in OrderId : takeState'[o] = "Ours" => takeState[o] = "Ours" /\ o \notin b.orderIds
  BY <1>1 DEF IInv, BatchesRead, Submitted
<1>6. /\ unlockBatches' \in [Chain -> SUBSET OrderId]
      /\ ordersDataMap' \subseteq OrderId
      /\ PoolsMatchData' /\ FulfilledOrdersPooled' /\ ChecksOwned'
  BY <1>1, <1>3, <1>4, <1>5, CleanLemma
<1>7. CASE /\ \E c \in Chain : Full(unlockBatches', c)
                               /\ StartBatch(unlockBatches', c, batches \ {b})
           /\ UNCHANGED isBatchUnlockLocked
  <2>1. PICK c \in Chain : StartBatch(unlockBatches', c, {})
    BY <1>7, <1>2
  <2>2. PICK n \in Batch : /\ batches' = {n}
                           /\ n.giveChain = c
                           /\ n.orderIds \subseteq unlockBatches'[c]
                           /\ n.unread = n.orderIds
                           /\ n.unlocked = {}
    <3> DEFINE pools == unlockBatches'
    <3>1. pools \in [Chain -> SUBSET OrderId] /\ StartBatch(pools, c, {})
      BY <1>6, <2>1
    <3> HIDE DEF pools
    <3>2. \E n \in Batch : /\ batches' = {n}
                           /\ n.giveChain = c
                           /\ n.orderIds \subseteq pools[c]
                           /\ n.unread = n.orderIds
                           /\ n.unlocked = {}
      BY <3>1, StartBatchLemma
    <3>3. QED
      BY <3>2 DEF pools
  <2>3. isBatchUnlockLocked' = TRUE
    BY <1>2, <1>7 DEF IInv, TypeOK, OneBatchAtATime
  <2>4. TypeOK'
    BY <1>1, <1>3, <1>6, <2>2, <2>3 DEF IInv, TypeOK
  <2>5. BatchesUnlockable'
    <3>1. \A x \in n.orderIds : x \in OrderId /\ x \in ordersDataMap' /\ GiveChain[x] = c
      BY <2>2, <1>6 DEF PoolsMatchData
    <3>2. \A x \in n.orderIds : takeState'[x] \in {"Ours", "UnlockSent"}
      BY <3>1, <1>6 DEF ChecksOwned, Owned
    <3>3. QED
      BY <2>2, <3>1, <3>2 DEF BatchesUnlockable
  <2>6. OneBatchAtATime' /\ BatchesRead' /\ NoFullBatchForgotten'
    BY <2>2, <2>3 DEF OneBatchAtATime, BatchesRead, NoFullBatchForgotten
  <2>7. QED
    BY <1>6, <2>4, <2>5, <2>6 DEF IInv
<1>8. CASE /\ \A c \in Chain : ~Full(unlockBatches', c)
           /\ batches' = batches \ {b}
           /\ isBatchUnlockLocked' = FALSE
  <2>1. TypeOK'
    BY <1>1, <1>2, <1>3, <1>6, <1>8 DEF IInv, TypeOK
  <2>2. NoFullBatchForgotten'
    BY <1>8 DEF NoFullBatchForgotten, Full
  <2>3. QED
    BY <1>2, <1>6, <1>8, <2>1, <2>2 DEF IInv, OneBatchAtATime, BatchesUnlockable, BatchesRead
<1>9. QED
  BY <1>1, <1>7, <1>8 DEF NextBatch

(* The transaction fails.                                                   *)
LEMMA SendFailsStep ==
  ASSUME IInv, NEW b \in batches, SendFails(b)
  PROVE  IInv'
<1>1. batches = {b}
  BY DEF IInv, OneBatchAtATime
<1>2. /\ b.unlocked \subseteq b.orderIds
      /\ \A o \in b.unlocked : takeState[o] = "UnlockSent"
      /\ Submitted(b) \in SUBSET OrderId
  BY DEF IInv, TypeOK, BatchesRead, Batch, Submitted
<1>3. Clean(b, b.unlocked) /\ UNCHANGED <<takeState, approved, added>>
  BY DEF SendFails, Leaving
<1>4. /\ unlockBatches' \in [Chain -> SUBSET OrderId]
      /\ ordersDataMap' \subseteq OrderId
      /\ PoolsMatchData' /\ FulfilledOrdersPooled' /\ ChecksOwned'
  <2>1. takeState' \in [OrderId -> OrderState]
    BY <1>3 DEF IInv, TypeOK
  <2>2. \A o \in OrderId : Owned(o) => Owned(o)'
    BY <1>3 DEF Owned
  <2>3. QED
    BY <1>2, <1>3, <2>1, <2>2, CleanLemma
<1>5. /\ batches' = {} /\ isBatchUnlockLocked' = FALSE /\ failed' = TRUE
      /\ stray' \subseteq SUBSET OrderId
  BY <1>1, <1>2 DEF SendFails, IInv, TypeOK
<1>6. TypeOK'
  BY <1>3, <1>4, <1>5 DEF IInv, TypeOK
<1>7. QED
  BY <1>4, <1>5, <1>6 DEF IInv, OneBatchAtATime, BatchesUnlockable,
     NoFullBatchForgotten, BatchesRead

-----------------------------------------------------------------------------
(* Every step keeps the invariant.                                          *)
LEMMA NextStep == IInv /\ [Next]_vars => IInv'
<1> SUFFICES ASSUME IInv, [Next]_vars PROVE IInv'
  OBVIOUS
<1>1. CASE \E o \in OrderId : Fulfill(o) \/ UnlockOrder(o) \/ AddOrder(o)
  BY <1>1, FulfillStep, UnlockOrderStep, AddOrderStep
<1>2. CASE \E ids \in stray : StrayMined(ids)
  BY <1>2, StrayMinedStep
<1>3. ASSUME NEW b \in batches,
             \/ \E o \in b.unread : ReadOrderState(b, o)
             \/ ReadFails(b) \/ SendBatch(b) \/ SendSucceeds(b) \/ SendFails(b)
      PROVE  IInv'
  BY <1>3, ReadOrderStateStep, ReadFailsStep, SendBatchStep, SendSucceedsStep, SendFailsStep
<1>4. CASE Restart
  BY <1>4, RestartStep
<1>5. CASE UNCHANGED vars
  BY <1>5 DEF vars, IInv, TypeOK, OneBatchAtATime, BatchesUnlockable, PoolsMatchData,
     FulfilledOrdersPooled, NoFullBatchForgotten, Full, ChecksOwned, Owned, BatchesRead
<1>6. QED
  BY <1>1, <1>2, <1>3, <1>4, <1>5 DEF Next

(* The inductive invariant holds of every behaviour.                        *)
THEOREM Invariance == Spec => []IInv
<1>1. QED
  BY InitInv, NextStep, PTL DEF Spec

(* Type correctness of the unlocker's state.                                *)
THEOREM TypeCorrect == Spec => []TypeOK
<1>1. IInv => TypeOK
  BY DEF IInv
<1>2. QED
  BY <1>1, Invariance, PTL

(* The lock serialises the batches of a take chain.                         *)
THEOREM BatchesExclusive == Spec => []OneBatchAtATime
<1>1. IInv => OneBatchAtATime
  BY DEF IInv
<1>2. QED
  BY <1>1, Invariance, PTL

(* A batch holds only orders of its give chain that this taker fulfilled,   *)
(* and their data.                                                          *)
THEOREM BatchesStayUnlockable == Spec => []BatchesUnlockable
<1>1. IInv => BatchesUnlockable
  BY DEF IInv
<1>2. QED
  BY <1>1, Invariance, PTL

(* The pools and the data Map agree.                                        *)
THEOREM PoolsAgree == Spec => []PoolsMatchData
<1>1. IInv => PoolsMatchData
  BY DEF IInv
<1>2. QED
  BY <1>1, Invariance, PTL

(* A pooled order stays pooled until it is unlocked on the chain.           *)
THEOREM OrdersStayPooled == Spec => []FulfilledOrdersPooled
<1>1. IInv => FulfilledOrdersPooled
  BY DEF IInv
<1>2. QED
  BY <1>1, Invariance, PTL

(* A full pool is not left behind by a batch that succeeded.                *)
THEOREM FullBatchesSent == Spec => []NoFullBatchForgotten
<1>1. IInv => NoFullBatchForgotten
  BY DEF IInv
<1>2. QED
  BY <1>1, Invariance, PTL

-----------------------------------------------------------------------------
(* The unlocker implements UnlockLots.  The one fact the mapping needs      *)
(* beyond the invariant: what was sent is read, and not empty.              *)

SentIsRead == \A b \in batches : b.sending => b.unread = {} /\ Submitted(b) # {}

LotInv == IInv /\ SentIsRead

LotOf(bs) == UNION {Submitted(b) : b \in {x \in bs : x.sending}}

LEMMA LotOfLemma ==
  ASSUME NEW bs
  PROVE  /\ (\A b \in bs : ~b.sending) => LotOf(bs) = {}
         /\ \A b : b.sending => LotOf({b}) = Submitted(b)
BY DEF LotOf

LEMMA LotIs == Lot = LotOf(batches) /\ Lot' = LotOf(batches')
BY DEF Lot, LotOf

(* A batch that has just started is not sent yet.                           *)
LEMMA StartedNotSent ==
  ASSUME NEW pools, NEW c, StartBatch(pools, c, {})
  PROVE  \A b \in batches' : ~b.sending
<1>1. PICK ids : batches' = {} \cup {[giveChain |-> c, orderIds |-> ids, unread |-> ids,
                                      unlocked |-> {}, sending |-> FALSE]}
  BY DEF StartBatch
<1>2. QED
  BY <1>1

(* What happens to the batches in a step, and thereby to the lot.           *)
LEMMA AddOrderLot ==
  ASSUME IInv, NEW o \in OrderId, AddOrder(o)
  PROVE  batches' = batches \/ (batches = {} /\ \A b \in batches' : ~b.sending)
<1> DEFINE pools == [unlockBatches EXCEPT ![GiveChain[o]] = @ \cup {o}]
<1>1. TryUnlock(pools, GiveChain[o])
  BY DEF AddOrder
<1> HIDE DEF pools
<1>2. CASE isBatchUnlockLocked \/ ~Full(pools, GiveChain[o])
  BY <1>1, <1>2 DEF TryUnlock
<1>3. CASE ~isBatchUnlockLocked /\ Full(pools, GiveChain[o])
  <2>1. batches = {} /\ StartBatch(pools, GiveChain[o], {})
    BY <1>1, <1>3 DEF TryUnlock, IInv, OneBatchAtATime
  <2>2. QED
    BY <2>1, StartedNotSent
<1>4. QED
  BY <1>2, <1>3

LEMMA SendSucceedsLot ==
  ASSUME IInv, NEW b \in batches, SendSucceeds(b)
  PROVE  \A x \in batches' : ~x.sending
<1>1. batches \ {b} = {}
  BY DEF IInv, OneBatchAtATime
<1>2. NextBatch(b, unlockBatches')
  BY DEF SendSucceeds
<1>3. CASE batches' = batches \ {b}
  BY <1>1, <1>3
<1>4. CASE \E c \in Chain : StartBatch(unlockBatches', c, batches \ {b})
  <2>1. PICK c \in Chain : StartBatch(unlockBatches', c, {})
    BY <1>1, <1>4
  <2>2. PICK pools : pools = unlockBatches'
    OBVIOUS
  <2>3. StartBatch(pools, c, {})
    BY <2>1, <2>2
  <2>4. QED
    BY <2>3, StartedNotSent
<1>5. QED
  BY <1>2, <1>3, <1>4 DEF NextBatch

(* What was sent stays read and not empty.                                  *)
LEMMA SentStep ==
  ASSUME LotInv, [Next]_vars
  PROVE  SentIsRead'
<1>1. CASE \E o \in OrderId : Fulfill(o) \/ UnlockOrder(o) \/ AddOrder(o)
  <2>1. batches' = batches \/ \A b \in batches' : ~b.sending
    BY <1>1, AddOrderLot DEF LotInv, Fulfill, UnlockOrder
  <2>2. QED
    BY <2>1 DEF LotInv, SentIsRead
<1>2. CASE \E ids \in stray : StrayMined(ids)
  BY <1>2 DEF StrayMined, LotInv, SentIsRead
<1>3. ASSUME NEW b \in batches, NEW o \in b.unread, ReadOrderState(b, o)
      PROVE  SentIsRead'
  <2> DEFINE n == [b EXCEPT !.unread = @ \ {o},
                            !.unlocked = IF takeState[o] \in {"Ours", "Theirs"} THEN @
                                         ELSE @ \cup {o}]
  <2>1. batches' = (batches \ {b}) \cup {n}
    BY <1>3 DEF ReadOrderState
  <2>2. ~b.sending
    BY DEF LotInv, SentIsRead
  <2>3. ~n.sending
    BY <2>2 DEF LotInv, IInv, TypeOK, Batch
  <2> HIDE DEF n
  <2>4. QED
    BY <2>1, <2>3 DEF LotInv, SentIsRead
<1>4. ASSUME NEW b \in batches, SendBatch(b)
      PROVE  SentIsRead'
  <2>1. CASE Restart
    BY <2>1 DEF Restart, EmptyMemory, SentIsRead
  <2>2. CASE /\ Submitted(b) # {}
             /\ batches' = (batches \ {b}) \cup {[b EXCEPT !.sending = TRUE]}
    <3> DEFINE n == [b EXCEPT !.sending = TRUE]
    <3>1. n.unread = {} /\ Submitted(n) = Submitted(b)
      BY <1>4 DEF LotInv, IInv, TypeOK, Batch, SendBatch, Submitted
    <3> HIDE DEF n
    <3>2. batches' = (batches \ {b}) \cup {n}
      BY <2>2 DEF n
    <3>3. QED
      BY <2>2, <3>1, <3>2 DEF LotInv, SentIsRead
  <2>3. QED
    BY <1>4, <2>1, <2>2 DEF SendBatch
<1>5. ASSUME NEW b \in batches, ReadFails(b) \/ SendFails(b)
      PROVE  SentIsRead'
  BY <1>5 DEF ReadFails, SendFails, LotInv, SentIsRead
<1>6. ASSUME NEW b \in batches, SendSucceeds(b)
      PROVE  SentIsRead'
  BY <1>6, SendSucceedsLot DEF LotInv, SentIsRead
<1>7. CASE Restart
  BY <1>7 DEF Restart, EmptyMemory, SentIsRead
<1>8. CASE UNCHANGED vars
  BY <1>8 DEF vars, LotInv, SentIsRead
<1>9. QED
  BY <1>1, <1>2, <1>3, <1>4, <1>5, <1>6, <1>7, <1>8 DEF Next

(* The orders of a batch are held, and of one give chain.                   *)
LEMMA BatchHeld ==
  ASSUME IInv, NEW b \in batches
  PROVE  /\ batches = {b}
         /\ b.orderIds \subseteq ordersDataMap /\ b.unlocked \subseteq b.orderIds
         /\ Submitted(b) \subseteq b.orderIds
         /\ b.orderIds = Submitted(b) \cup b.unlocked
         /\ \A o \in b.unlocked : takeState[o] = "UnlockSent"
         /\ \A o \in b.orderIds : \A p \in b.orderIds : GiveChain[o] = GiveChain[p]
BY DEF IInv, OneBatchAtATime, BatchesUnlockable, BatchesRead, Submitted

-----------------------------------------------------------------------------
(* Each step of the unlocker is one of UnlockLots, or none.                 *)

LEMMA RestartLot ==
  ASSUME LotInv, Restart
  PROVE  Lots!Forget
<1>1. ordersDataMap' = {} /\ takeState' = takeState /\ Lot' = {}
  BY LotIs, LotOfLemma DEF Restart, EmptyMemory
<1>2. CASE \E b \in batches : b.sending
  <2>1. PICK b \in batches : b.sending
    BY <1>2
  <2>2. batches = {b} /\ Lot = Submitted(b) /\ Lot # {}
    BY <2>1, BatchHeld, LotIs, LotOfLemma DEF LotInv, SentIsRead
  <2>3. {x \in batches : x.sending} = {b}
    BY <2>1, <2>2
  <2>4. {Submitted(x) : x \in {y \in batches : y.sending}} = {Lot}
    BY <2>2, <2>3
  <2>5. stray' \in {stray, stray \cup {Lot}}
    BY <2>4 DEF Restart
  <2>6. QED
    BY <1>1, <2>2, <2>5 DEF Lots!Forget, Lots!GiveUp
<1>3. CASE \A b \in batches : ~b.sending
  <2>1. Lot = {}
    BY <1>3, LotIs, LotOfLemma
  <2>2. {x \in batches : x.sending} = {}
    BY <1>3
  <2>3. {Submitted(x) : x \in {y \in batches : y.sending}} = {}
    BY <2>2
  <2>4. stray' = stray
    BY <2>3 DEF Restart
  <2>5. QED
    BY <1>1, <2>1, <2>4 DEF Lots!Forget
<1>4. QED
  BY <1>2, <1>3

LEMMA AddOrderHolds ==
  ASSUME LotInv, NEW o \in OrderId, AddOrder(o)
  PROVE  Lots!Hold(o)
<1>1. takeState[o] \in {"Ours", "UnlockSent"}
  BY DEF LotInv, IInv, ChecksOwned, Owned, AddOrder, CheckPassed
<1>2. Lot' = Lot
  <2>1. CASE batches' = batches
    BY <2>1, LotIs
  <2>2. CASE batches = {} /\ \A b \in batches' : ~b.sending
    BY <2>2, LotIs, LotOfLemma
  <2>3. QED
    BY <2>1, <2>2, AddOrderLot DEF LotInv
<1>3. QED
  BY <1>1, <1>2 DEF AddOrder, chainVars, Lots!Hold

LEMMA ReadOrderStateKeepsLot ==
  ASSUME LotInv, NEW b \in batches, NEW o \in b.unread, ReadOrderState(b, o)
  PROVE  UNCHANGED Lots!lotVars
<1> DEFINE n == [b EXCEPT !.unread = @ \ {o},
                          !.unlocked = IF takeState[o] \in {"Ours", "Theirs"} THEN @
                                       ELSE @ \cup {o}]
<1>1. batches' = (batches \ {b}) \cup {n}
  BY DEF ReadOrderState
<1>2. batches = {b} /\ ~b.sending
  BY BatchHeld DEF LotInv, SentIsRead
<1>3. ~n.sending
  BY <1>2 DEF LotInv, IInv, TypeOK, Batch
<1> HIDE DEF n
<1>4. Lot = {} /\ Lot' = {}
  BY <1>1, <1>2, <1>3, LotIs, LotOfLemma
<1>5. QED
  BY <1>4 DEF ReadOrderState, chainVars, poolVars, Lots!lotVars

LEMMA ReadFailsKeepsLot ==
  ASSUME LotInv, NEW b \in batches, ReadFails(b)
  PROVE  UNCHANGED Lots!lotVars
<1>1. batches = {b} /\ ~b.sending /\ batches' = {}
  BY BatchHeld DEF LotInv, SentIsRead, ReadFails
<1>2. Lot = {} /\ Lot' = {}
  BY <1>1, LotIs, LotOfLemma
<1>3. QED
  BY <1>2 DEF ReadFails, chainVars, poolVars, Lots!lotVars

LEMMA SendBatchSends ==
  ASSUME LotInv, NEW b \in batches, SendBatch(b)
  PROVE  (\E ids \in SUBSET ordersDataMap : Lots!Send(ids)) \/ Lots!Forget
<1>1. CASE Restart
  BY <1>1, RestartLot
<1>2. CASE /\ Submitted(b) # {}
           /\ batches' = (batches \ {b}) \cup {[b EXCEPT !.sending = TRUE]}
           /\ UNCHANGED <<chainVars, approved, poolVars, isBatchUnlockLocked, failed, added>>
  <2> DEFINE n == [b EXCEPT !.sending = TRUE]
             ids == Submitted(b)
  <2>1. n.sending /\ Submitted(n) = ids
    BY DEF LotInv, IInv, TypeOK, Batch, Submitted
  <2>2. ~b.sending /\ batches = {b}
    BY BatchHeld DEF SendBatch, LotInv
  <2> HIDE DEF n
  <2>3. batches' = {n}
    BY <1>2, <2>2 DEF n
  <2>4. Lot = {} /\ Lot' = ids
    BY <2>1, <2>2, <2>3, LotIs, LotOfLemma
  <2>5. ids \subseteq ordersDataMap /\ \A o \in ids : \A p \in ids : GiveChain[o] = GiveChain[p]
    BY BatchHeld DEF LotInv
  <2>6. Lots!Send(ids)
    BY <1>2, <2>4, <2>5 DEF chainVars, poolVars, Lots!Send
  <2>7. QED
    BY <2>5, <2>6
<1>3. QED
  BY <1>1, <1>2 DEF SendBatch

LEMMA SendSucceedsConfirms ==
  ASSUME LotInv, NEW b \in batches, SendSucceeds(b)
  PROVE  Lots!Confirm
<1>1. batches = {b} /\ b.sending /\ Lot = Submitted(b) /\ Lot # {}
  BY BatchHeld, LotIs, LotOfLemma DEF LotInv, SentIsRead, SendSucceeds
<1>2. Lot' = {}
  BY SendSucceedsLot, LotIs, LotOfLemma DEF LotInv
<1>3. Lots!Unlock(Lot)
  BY <1>1 DEF SendSucceeds, Unlockable, Unlocks, Lots!Unlock
<1>4. /\ b.orderIds \subseteq ordersDataMap /\ Lot \subseteq b.orderIds
      /\ b.orderIds = Lot \cup b.unlocked
      /\ \A o \in b.unlocked : takeState[o] = "UnlockSent"
  BY <1>1, BatchHeld DEF LotInv
<1>5. Lots!Release(b.orderIds)
  <2>1. \A o \in b.orderIds : o \in OrderId
    BY DEF LotInv, IInv, TypeOK, Batch
  <2>2. takeState' = [o \in OrderId |-> IF o \in Lot THEN "UnlockSent" ELSE takeState[o]]
    BY <1>1 DEF SendSucceeds, Unlocks
  <2>3. \A o \in b.orderIds : takeState'[o] = "UnlockSent"
    BY <1>4, <2>1, <2>2
  <2>4. ordersDataMap' = ordersDataMap \ b.orderIds
    BY DEF SendSucceeds, Clean
  <2>5. QED
    BY <2>3, <2>4 DEF Lots!Release
<1>6. stray' = stray
  BY DEF SendSucceeds
<1>7. QED
  BY <1>1, <1>2, <1>3, <1>4, <1>5, <1>6 DEF Lots!Confirm

LEMMA SendFailsFails ==
  ASSUME LotInv, NEW b \in batches, SendFails(b)
  PROVE  Lots!Fail
<1>1. batches = {b} /\ b.sending /\ Lot = Submitted(b) /\ Lot # {}
  BY BatchHeld, LotIs, LotOfLemma DEF LotInv, SentIsRead, SendFails
<1>2. batches' = {} /\ Lot' = {}
  BY <1>1, LotIs, LotOfLemma DEF SendFails
<1>3. Lots!GiveUp
  BY <1>1, <1>2 DEF SendFails, Lots!GiveUp
<1>4. b.unlocked \subseteq ordersDataMap /\ \A o \in b.unlocked : takeState[o] = "UnlockSent"
  BY BatchHeld DEF LotInv
<1>5. Lots!Release(b.unlocked)
  BY <1>4 DEF SendFails, Clean, Leaving, Lots!Release
<1>6. QED
  BY <1>3, <1>4, <1>5 DEF Lots!Fail

LEMMA LotStep ==
  ASSUME LotInv, [Next]_vars
  PROVE  [Lots!Next]_(Lots!lotVars)
<1>1. ASSUME NEW o \in OrderId, Fulfill(o) PROVE Lots!Next
  <2>1. Lot' = Lot
    BY <1>1, LotIs DEF Fulfill
  <2>2. Lots!Fulfill(o)
    BY <1>1, <2>1 DEF Fulfill, poolVars, Lots!Fulfill
  <2>3. QED
    BY <2>2 DEF Lots!Next
<1>2. ASSUME NEW o \in OrderId, UnlockOrder(o) PROVE UNCHANGED Lots!lotVars
  BY <1>2, LotIs DEF UnlockOrder, chainVars, poolVars, Lots!lotVars
<1>3. ASSUME NEW o \in OrderId, AddOrder(o) PROVE Lots!Next
  BY <1>3, AddOrderHolds DEF Lots!Next
<1>4. ASSUME NEW ids \in stray, StrayMined(ids) PROVE Lots!Next
  <2>1. Lot' = Lot
    BY <1>4, LotIs DEF StrayMined
  <2>2. Lots!MinedLate(ids)
    BY <1>4, <2>1 DEF StrayMined, Unlockable, Unlocks, poolVars, Lots!MinedLate, Lots!Unlock
  <2>3. QED
    BY <2>2 DEF Lots!Next
<1>5. ASSUME NEW b \in batches,
             (\E o \in b.unread : ReadOrderState(b, o)) \/ ReadFails(b)
      PROVE  UNCHANGED Lots!lotVars
  BY <1>5, ReadOrderStateKeepsLot, ReadFailsKeepsLot
<1>6. ASSUME NEW b \in batches, SendBatch(b) \/ SendSucceeds(b) \/ SendFails(b)
      PROVE  Lots!Next
  BY <1>6, SendBatchSends, SendSucceedsConfirms, SendFailsFails DEF Lots!Next
<1>7. CASE Restart
  BY <1>7, RestartLot DEF Lots!Next
<1>8. CASE UNCHANGED vars
  BY <1>8, LotIs DEF vars, Lots!lotVars
<1>9. QED
  BY <1>1, <1>2, <1>3, <1>4, <1>5, <1>6, <1>7, <1>8 DEF Next

LEMMA LotInit == Init => Lots!Init /\ SentIsRead
<1>1. Init => Lot = {}
  BY LotIs, LotOfLemma DEF Init, EmptyMemory
<1>2. QED
  BY <1>1 DEF Init, EmptyMemory, SentIsRead, Lots!Init

(* The unlocker implements UnlockLots: an order is let go only once it is   *)
(* unlocked, and what is sent is one non-empty lot of held orders of one    *)
(* give chain (BatchUnlocker.ts:102-126, :161-245).                         *)
THEOREM LotsRefined == Spec => ImplementsUnlockLots
<1>1. Init => LotInv
  BY InitInv, LotInit DEF LotInv
<1>2. LotInv /\ [Next]_vars => LotInv'
  BY NextStep, SentStep DEF LotInv
<1>3. Init => Lots!Init
  BY LotInit
<1>4. LotInv /\ [Next]_vars => [Lots!Next]_(Lots!lotVars)
  BY LotStep
<1>5. QED
  BY <1>1, <1>2, <1>3, <1>4, PTL DEF Spec, ImplementsUnlockLots, Lots!Spec
=============================================================================
