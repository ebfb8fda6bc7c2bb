------------------------ MODULE OrderProcessorProofs ------------------------
(***************************************************************************)
(* Proofs about OrderProcessor, for any set of orders, any statuses the    *)
(* feed delivers and any bound on the events that wait.                    *)
(***************************************************************************)
EXTENDS OrderProcessor, SequenceTheorems, TLAPS

-----------------------------------------------------------------------------
(* Insertion-ordered Sets as sequences without duplicates.                  *)

Distinct(s) == \A i, j \in 1..Len(s) : s[i] = s[j] => i = j

(* SetAdd adds exactly the given element, and adds it once.                 *)
LEMMA SetAddLemma ==
  ASSUME NEW S, NEW s \in Seq(S), NEW o \in S
  PROVE  /\ SetAdd(s, o) \in Seq(S)
         /\ ToSet(SetAdd(s, o)) = ToSet(s) \cup {o}
         /\ Distinct(s) => Distinct(SetAdd(s, o))
<1>1. CASE Contains(s, o)
  BY <1>1 DEF SetAdd, Contains, ToSet
<1>2. CASE ~Contains(s, o)
  <2>1. SetAdd(s, o) = Append(s, o)
    BY <1>2 DEF SetAdd
  <2> DEFINE t == Append(s, o)
  <2>2. /\ t \in Seq(S)
        /\ Len(t) = Len(s) + 1
        /\ \A i \in 1..Len(s) : t[i] = s[i]
        /\ t[Len(s) + 1] = o
    BY AppendProperties
  <2> HIDE DEF t
  <2>3. ToSet(t) = ToSet(s) \cup {o}
    <3>1. ToSet(t) \subseteq ToSet(s) \cup {o}
      BY <2>2 DEF ToSet
    <3>2. ToSet(s) \subseteq ToSet(t)
      BY <2>2 DEF ToSet
    <3>3. o \in ToSet(t)
      BY <2>2 DEF ToSet
    <3>4. QED
      BY <3>1, <3>2, <3>3
  <2>4. \A i \in 1..Len(s) : s[i] # o
    BY <1>2 DEF Contains
  <2>5. Distinct(s) => Distinct(t)
    BY <2>2, <2>4 DEF Distinct
  <2>6. QED
    BY <2>1, <2>2, <2>3, <2>5 DEF t
<1>3. QED
  BY <1>1, <1>2

(* SetDelete removes exactly the given element from a sequence without      *)
(* duplicates.                                                              *)
LEMMA SetDeleteLemma ==
  ASSUME NEW S, NEW s \in Seq(S), NEW o, Distinct(s)
  PROVE  /\ SetDelete(s, o) \in Seq(S)
         /\ ToSet(SetDelete(s, o)) = ToSet(s) \ {o}
         /\ Distinct(SetDelete(s, o))
<1>1. CASE \E i \in 1..Len(s) : s[i] = o
  <2>1. PICK i \in 1..Len(s) : s[i] = o
    BY <1>1
  <2>2. {k \in 1..Len(s) : s[k] = o} = {i}
    BY <2>1 DEF Distinct
  <2>3. Min({i}) = i
    BY DEF Min
  <2>4. SetDelete(s, o) = RemoveAt(s, i)
    BY <1>1, <2>2, <2>3 DEF SetDelete, RemoveFirst, SelectInSeq
  <2> DEFINE t == RemoveAt(s, i)
  <2>5. /\ t \in Seq(S)
        /\ Len(t) = Len(s) - 1
        /\ \A k \in 1..Len(t) : t[k] = IF k < i THEN s[k] ELSE s[k + 1]
    <3> DEFINE u == SubSeq(s, 1, i - 1)
               v == SubSeq(s, i + 1, Len(s))
    <3>1. /\ u \in Seq(S) /\ Len(u) = i - 1
          /\ \A k \in 1..(i - 1) : u[k] = s[k]
      BY <2>1, SubSeqProperties
    <3>2. /\ v \in Seq(S) /\ Len(v) = Len(s) - i
          /\ \A k \in 1..(Len(s) - i) : v[k] = s[k + i]
      BY <2>1, SubSeqProperties
    <3> HIDE DEF u, v
    <3>3. t = u \o v
      BY DEF t, u, v, RemoveAt
    <3> HIDE DEF t
    <3>4. /\ t \in Seq(S) /\ Len(t) = Len(u) + Len(v)
          /\ \A k \in 1..(Len(u) + Len(v)) :
               t[k] = IF k <= Len(u) THEN u[k] ELSE v[k - Len(u)]
      BY <3>1, <3>2, <3>3, ConcatProperties
    <3>5. Len(t) = Len(s) - 1
      BY <3>1, <3>2, <3>4
    <3>6. ASSUME NEW k \in 1..Len(t)
          PROVE  t[k] = IF k < i THEN s[k] ELSE s[k + 1]
      <4>1. CASE k < i
        BY <4>1, <3>1, <3>4, <3>5
      <4>2. CASE k >= i
        <5>1. t[k] = v[k - (i - 1)] /\ k - (i - 1) \in 1..(Len(s) - i)
          BY <4>2, <3>1, <3>2, <3>4, <3>5
        <5>2. QED
          BY <5>1, <3>2, <4>2
      <4>3. QED
        BY <4>1, <4>2
    <3>7. QED
      BY <3>4, <3>5, <3>6
  <2> HIDE DEF t
  <2>6. Distinct(t)
    BY <2>5, <2>1 DEF Distinct
  <2>7. ToSet(t) = ToSet(s) \ {o}
    <3>1. ASSUME NEW k \in 1..Len(t) PROVE t[k] \in ToSet(s) \ {o}
      BY <3>1, <2>5, <2>1 DEF ToSet, Distinct
    <3>2. ASSUME NEW k \in 1..Len(s), s[k] # o PROVE s[k] \in ToSet(t)
      <4>1. CASE k < i
        BY <4>1, <2>5, <2>1 DEF ToSet
      <4>2. CASE k > i
        <5>1. k - 1 \in 1..Len(t) /\ t[k - 1] = s[k]
          BY <4>2, <2>5, <2>1
        <5>2. QED
          BY <5>1, <2>5 DEF ToSet
      <4>3. QED
        BY <4>1, <4>2, <3>2, <2>1
    <3>3. QED
      BY <3>1, <3>2, <2>5 DEF ToSet
  <2>8. QED
    BY <2>4, <2>5, <2>6, <2>7 DEF t
<1>2. CASE ~\E i \in 1..Len(s) : s[i] = o
  BY <1>2 DEF SetDelete, RemoveFirst, ToSet
<1>3. QED
  BY <1>1, <1>2

-----------------------------------------------------------------------------
(* The inductive invariant: the checked invariants, and what makes them     *)
(* inductive - the queues hold no duplicates, the lock is free while the    *)
(* continuation drains, and the metadata records every revocation.          *)

QueueOK(s) == s \in Seq(OrderId) /\ Distinct(s)

MempoolOK(m) ==
  /\ m \in [trackedOrders: SUBSET OrderId, timeouts: [OrderId -> Nat]]
  /\ \A o \in OrderId : m.timeouts[o] = IF o \in m.trackedOrders THEN 1 ELSE 0

RevokedRecorded ==
  \A o \in OrderId : o \in revoked <=>
    Known(o) /\ createdOrdersMetadata[o].finalization = "Revoked"

IInv ==
  /\ TypeOK
  /\ QueueOK(priorityQueue)
  /\ QueueOK(queue)
  /\ MempoolOK(mempool)
  /\ MutualExclusion
  /\ ~(isLocked /\ draining)
  /\ NoLostWakeup
  /\ MetadataPresent
  /\ NoOrderForgotten
  /\ RevokedRecorded

(* A step of the abstract scheduler, or none.                               *)
KnownOrders == {o \in OrderId : Known(o)}
ScheduleStep == Schedule!Next \/ UNCHANGED <<KnownOrders, Scheduled, Taking>>

(* Arming clears what was armed before, so one timeout per order stays one. *)
LEMMA MempoolLemma ==
  ASSUME NEW m, MempoolOK(m), NEW o \in OrderId
  PROVE  /\ MempoolOK(MempoolAdd(m, o))
         /\ MempoolAdd(m, o).trackedOrders = m.trackedOrders \cup {o}
         /\ MempoolOK(MempoolDelete(m, o))
         /\ MempoolDelete(m, o).trackedOrders = m.trackedOrders \ {o}
BY DEF MempoolOK, MempoolAdd, MempoolDelete, ClearTimeout

(* What adding to and deleting from a Set does to the orders it holds.      *)
LEMMA QueueLemma ==
  ASSUME NEW s, QueueOK(s), NEW o \in OrderId
  PROVE  /\ QueueOK(SetAdd(s, o)) /\ ToSet(SetAdd(s, o)) = ToSet(s) \cup {o}
         /\ QueueOK(SetDelete(s, o)) /\ ToSet(SetDelete(s, o)) = ToSet(s) \ {o}
BY SetAddLemma, SetDeleteLemma DEF QueueOK

(* Starting an attempt, when none is outstanding: the order may leave the   *)
(* queues and the mempool only to become the one being taken.               *)
LEMMA BeginAttemptLemma ==
  ASSUME NEW o \in OrderId, NEW metadata \in CreatedOrderMetadata,
         NEW pq, QueueOK(pq), NEW q, QueueOK(q), NEW mp, MempoolOK(mp),
         running = {}, rejected \subseteq OrderId,
         BeginAttempt(o, metadata, pq, q, mp)
  PROVE  /\ isLocked' = TRUE
         /\ running' = {[order |-> o, finalization |-> FinalizationInfo(metadata)]}
         /\ running' \subseteq Attempt
         /\ Taking' = {o}
         /\ QueueOK(priorityQueue') /\ QueueOK(queue') /\ MempoolOK(mempool')
         /\ Scheduled' \cup {o} = ToSet(pq) \cup ToSet(q) \cup mp.trackedOrders \cup {o}
         /\ Scheduled' \subseteq ToSet(pq) \cup ToSet(q) \cup mp.trackedOrders
         /\ rejected' = rejected \ {o}
<1> DEFINE info == FinalizationInfo(metadata)
<1>1. info \in Finalization
  BY DEF FinalizationInfo, CreatedOrderMetadata, Finalization
<1> HIDE DEF info
<1>2. /\ isLocked' = TRUE
      /\ running' = {[order |-> o, finalization |-> info]}
      /\ rejected' = rejected \ {o}
  BY DEF BeginAttempt, info
<1>3. running' \subseteq Attempt /\ Taking' = {o}
  BY <1>1, <1>2 DEF Attempt, Taking
<1>4. CASE info = "Revoked"
  <2>1. /\ priorityQueue' = SetDelete(pq, o)
        /\ queue' = SetDelete(q, o)
        /\ mempool' = MempoolDelete(mp, o)
    BY <1>4 DEF BeginAttempt, info
  <2>2. QED
    BY <1>2, <1>3, <2>1, QueueLemma, MempoolLemma DEF Scheduled, Queued, info
<1>5. CASE info # "Revoked"
  <2>1. priorityQueue' = pq /\ queue' = q /\ mempool' = mp
    BY <1>5 DEF BeginAttempt, info
  <2>2. QED
    BY <1>2, <1>3, <2>1 DEF Scheduled, Queued, info
<1>6. QED
  BY <1>4, <1>5

(* Processing an order, whether the lock is free or held: the order joins   *)
(* those that are scheduled or taken, and none of them leaves.              *)
LEMMA ProcessOrderLemma ==
  ASSUME IInv, ~draining,
         NEW o \in OrderId, NEW status \in CreationStatus,
         NEW metadata \in CreatedOrderMetadata, NEW mp, MempoolOK(mp),
         ProcessOrder(o, status, metadata, mp)
  PROVE  /\ QueueOK(priorityQueue') /\ QueueOK(queue') /\ MempoolOK(mempool')
         /\ isLocked' = TRUE
         /\ running' \subseteq Attempt
         /\ MutualExclusion'
         /\ Scheduled' \cup Taking' = Queued \cup mp.trackedOrders \cup Taking \cup {o}
         /\ \/ /\ Taking # {} /\ Taking' = Taking
               /\ Scheduled' = Queued \cup mp.trackedOrders \cup {o}
            \/ /\ Taking = {} /\ Taking' = {o}
               /\ Scheduled' \subseteq Queued \cup mp.trackedOrders
         /\ rejected' \subseteq OrderId
         /\ rejected \subseteq rejected' \cup {o}
<1>1. CASE isLocked /\ Enqueue(o, status, mp)
  <2>1. /\ QueueOK(priorityQueue') /\ QueueOK(queue')
        /\ ToSet(priorityQueue') \cup ToSet(queue') = Queued \cup {o}
    <3>1. CASE status = "Created"
      BY <1>1, <3>1, QueueLemma DEF Enqueue, IInv, Queued
    <3>2. CASE status = "ArchivalCreated"
      BY <1>1, <3>2, QueueLemma DEF Enqueue, IInv, Queued
    <3>3. QED
      BY <3>1, <3>2 DEF CreationStatus
  <2>2. /\ mempool' = mp /\ isLocked' = isLocked /\ running' = running
        /\ rejected' = rejected
    BY <1>1 DEF Enqueue
  <2>3. Taking' = Taking /\ Taking # {}
    BY <1>1, <2>2 DEF Taking, IInv, MutualExclusion
  <2>4. QED
    BY <1>1, <2>1, <2>2, <2>3 DEF IInv, TypeOK, MutualExclusion, Scheduled, Queued
<1>2. CASE ~isLocked /\ BeginAttempt(o, metadata, priorityQueue, queue, mp)
  <2>1. running = {} /\ rejected \subseteq OrderId /\ Taking = {}
    BY <1>2 DEF IInv, TypeOK, MutualExclusion, Taking
  <2>2. QueueOK(priorityQueue) /\ QueueOK(queue)
    BY DEF IInv
  <2>3. /\ isLocked' = TRUE
        /\ running' = {[order |-> o, finalization |-> FinalizationInfo(metadata)]}
        /\ running' \subseteq Attempt
        /\ Taking' = {o}
        /\ QueueOK(priorityQueue') /\ QueueOK(queue') /\ MempoolOK(mempool')
        /\ Scheduled' \cup {o} = Queued \cup mp.trackedOrders \cup {o}
        /\ Scheduled' \subseteq Queued \cup mp.trackedOrders
        /\ rejected' = rejected \ {o}
    BY <1>2, <2>1, <2>2, BeginAttemptLemma DEF Queued
  <2>4. MutualExclusion'
    BY <2>3 DEF MutualExclusion
  <2>5. QED
    BY <2>1, <2>3, <2>4
<1>3. QED
  BY <1>1, <1>2 DEF ProcessOrder

-----------------------------------------------------------------------------
(* The invariant holds of a processor that has just been constructed.       *)
LEMMA InitInv == Init => IInv
<1> SUFFICES ASSUME Init PROVE IInv
  OBVIOUS
<1>1. TypeOK
  <2>1. createdOrdersMetadata \in [OrderId -> CreatedOrderMetadata \cup {None}]
    BY DEF Init
  <2>2. mempool \in [trackedOrders: SUBSET OrderId, timeouts: [OrderId -> Nat]]
    BY DEF Init
  <2>3. /\ priorityQueue \in Seq(OrderId) /\ queue \in Seq(OrderId) /\ eventsQueue \in Seq(Event)
        /\ isLocked \in BOOLEAN /\ draining \in BOOLEAN
        /\ running = {} /\ rejected = {} /\ revoked = {} /\ out = {}
    BY EmptySeq DEF Init
  <2>4. QED
    BY <2>1, <2>2, <2>3 DEF TypeOK
<1>2. QueueOK(priorityQueue) /\ QueueOK(queue) /\ MempoolOK(mempool)
  BY DEF Init, QueueOK, Distinct, MempoolOK
<1>3. Scheduled = {} /\ Queued = {} /\ Taking = {} /\ \A o \in OrderId : ~Known(o)
  BY DEF Init, Scheduled, Queued, Taking, Known, ToSet
<1>4. MutualExclusion /\ NoLostWakeup /\ ~(isLocked /\ draining)
  BY <1>3 DEF Init, MutualExclusion, NoLostWakeup
<1>5. MetadataPresent /\ NoOrderForgotten /\ RevokedRecorded
  BY <1>3 DEF Init, MetadataPresent, NoOrderForgotten, RevokedRecorded
<1>6. QED
  BY <1>1, <1>2, <1>4, <1>5 DEF IInv

(* The closing, or the passing over, of an order by an event.               *)
LEMMA ProcessEventLemma ==
  ASSUME IInv, running = {}, NEW e \in Event, ProcessEvent(e), UNCHANGED <<isLocked, running>>
  PROVE  /\ QueueOK(priorityQueue') /\ QueueOK(queue') /\ MempoolOK(mempool')
         /\ createdOrdersMetadata' \in [OrderId -> CreatedOrderMetadata \cup {None}]
         /\ draining' = TRUE
         /\ rejected' \subseteq OrderId /\ revoked' \subseteq OrderId /\ out' \subseteq Call
         /\ MetadataPresent' /\ NoOrderForgotten' /\ RevokedRecorded'
         /\ ScheduleStep
<1> DEFINE o == e.order
<1>1. o \in OrderId /\ e.status \in FeedStatus
  BY DEF Event
<1>2. out' \subseteq Call
  <2>1. {"flushCache", "remove"} \cup {"flushCache", "unlockOrder"} \cup {"unlockOrder"} \cup {}
          = {"unlockOrder", "remove", "flushCache"}
    OBVIOUS
  <2>2. QED
    BY <1>1, <2>1 DEF ProcessEvent, CallsOf, Call
<1>3. draining' = TRUE /\ Taking' = Taking /\ Taking = {}
  BY DEF ProcessEvent, Taking
<1> HIDE DEF o
<1>4. CASE e.status \in ClosingStatus
  <2>1. /\ priorityQueue' = SetDelete(priorityQueue, o)
        /\ queue' = SetDelete(queue, o)
        /\ mempool' = MempoolDelete(mempool, o)
        /\ createdOrdersMetadata' = [createdOrdersMetadata EXCEPT ![o] = None]
        /\ rejected' = rejected \ {o}
        /\ revoked' = revoked \ {o}
    BY <1>4 DEF ProcessEvent, ClearInternalQueues, o
  <2>2. /\ QueueOK(priorityQueue') /\ QueueOK(queue') /\ MempoolOK(mempool')
        /\ Scheduled' = Scheduled \ {o}
    BY <1>1, <2>1, QueueLemma, MempoolLemma DEF IInv, Scheduled, Queued
  <2>3. /\ createdOrdersMetadata' \in [OrderId -> CreatedOrderMetadata \cup {None}]
        /\ rejected' \subseteq OrderId /\ revoked' \subseteq OrderId
        /\ \A x \in OrderId : createdOrdersMetadata'[x] =
             IF x = o THEN None ELSE createdOrdersMetadata[x]
    BY <1>1, <2>1 DEF IInv, TypeOK
  <2>4. \A x \in OrderId : Known(x)' <=> Known(x) /\ x # o
    BY <2>3 DEF Known
  <2>5. Scheduled \subseteq OrderId
    BY DEF Scheduled, Queued, ToSet, IInv, QueueOK, MempoolOK
  <2>6. MetadataPresent'
    BY <1>3, <2>2, <2>4, <2>5 DEF IInv, MetadataPresent
  <2>7. NoOrderForgotten'
    BY <1>3, <2>1, <2>2, <2>4 DEF IInv, NoOrderForgotten
  <2>8. RevokedRecorded'
    BY <2>1, <2>3, <2>4 DEF IInv, RevokedRecorded
  <2>9. ScheduleStep
    <3>1. KnownOrders' = KnownOrders \ {o}
      BY <2>4 DEF KnownOrders
    <3>2. Schedule!Forget(o)
      BY <1>3, <2>2, <3>1 DEF Schedule!Forget, KnownOrders
    <3>3. QED
      BY <1>1, <3>2 DEF ScheduleStep, Schedule!Next
  <2>10. QED
    BY <1>2, <1>3, <2>2, <2>3, <2>6, <2>7, <2>8, <2>9
<1>5. CASE e.status \notin ClosingStatus
  <2>1. UNCHANGED <<priorityQueue, queue, mempool, createdOrdersMetadata, rejected, revoked>>
    BY <1>5 DEF ProcessEvent, orderQueues
  <2>2. QED
    BY <1>2, <1>3, <2>1
       DEF IInv, TypeOK, MetadataPresent, NoOrderForgotten, RevokedRecorded, Known,
           Scheduled, Queued, ScheduleStep, KnownOrders
<1>6. QED
  BY <1>4, <1>5

(* A creation event: recorded, then queued or attempted at once.            *)
LEMMA ReceiveCreationStep ==
  ASSUME IInv, NEW o \in OrderId, NEW status \in CreationStatus,
         NEW f \in Finalization \cup {"Absent"}, ReceiveCreation(o, status, f)
  PROVE  IInv' /\ ScheduleStep
<1> DEFINE md == RecordCreation(o, status, f)
<1>1. md \in CreatedOrderMetadata
  BY DEF IInv, TypeOK, ReceiveCreation, RecordCreation, CreatedOrderMetadata, CreationStatus,
         Finalization, Known
<1>2. /\ Known(o) => md.finalization = IF status = "Created" THEN f
                                       ELSE createdOrdersMetadata[o].finalization
      /\ ~Known(o) => md.finalization = f
      /\ md # None
  BY <1>1, OrderProcessorAssumption
     DEF IInv, TypeOK, RecordCreation, CreatedOrderMetadata, Known
<1>3. /\ ~draining
      /\ status = "ArchivalCreated" <=> f = "Absent"
      /\ createdOrdersMetadata' = [createdOrdersMetadata EXCEPT ![o] = md]
      /\ revoked' = CASE f = "Revoked" -> revoked \cup {o}
                      [] f = "Valid" -> revoked \ {o}
                      [] OTHER -> revoked
      /\ ProcessOrder(o, status, md, mempool)
      /\ out' = {}
      /\ UNCHANGED <<eventsQueue, draining>>
  BY DEF ReceiveCreation
<1> HIDE DEF md
<1>4. /\ QueueOK(priorityQueue') /\ QueueOK(queue') /\ MempoolOK(mempool')
      /\ isLocked' = TRUE
      /\ running' \subseteq Attempt
      /\ MutualExclusion'
      /\ Scheduled' \cup Taking' = Scheduled \cup Taking \cup {o}
      /\ \/ /\ Taking # {} /\ Taking' = Taking
            /\ Scheduled' = Scheduled \cup {o}
         \/ /\ Taking = {} /\ Taking' = {o}
            /\ Scheduled' \subseteq Scheduled
      /\ rejected' \subseteq OrderId
      /\ rejected \subseteq rejected' \cup {o}
  BY <1>1, <1>3, ProcessOrderLemma DEF IInv, Scheduled
<1>5. \A x \in OrderId : createdOrdersMetadata'[x] =
       IF x = o THEN md ELSE createdOrdersMetadata[x]
  BY <1>3 DEF IInv, TypeOK
<1>6. \A x \in OrderId : Known(x)' <=> Known(x) \/ x = o
  BY <1>2, <1>5 DEF Known
<1>7. TypeOK'
  <2>1. createdOrdersMetadata' \in [OrderId -> CreatedOrderMetadata \cup {None}]
    BY <1>1, <1>3 DEF IInv, TypeOK
  <2>2. revoked' \subseteq OrderId
    BY <1>3 DEF IInv, TypeOK
  <2>3. QED
    BY <1>3, <1>4, <2>1, <2>2 DEF IInv, TypeOK, QueueOK, MempoolOK
<1>8. Scheduled' \cup Taking' \subseteq OrderId
  BY <1>4 DEF Scheduled, Queued, ToSet, QueueOK, MempoolOK, Taking, Attempt
<1>9. MetadataPresent'
  BY <1>4, <1>6, <1>8 DEF IInv, MetadataPresent
<1>10. NoOrderForgotten'
  BY <1>4, <1>6 DEF IInv, NoOrderForgotten
<1>11. RevokedRecorded'
  BY <1>2, <1>3, <1>5, <1>6 DEF IInv, RevokedRecorded, Finalization, CreationStatus
<1>12. NoLostWakeup' /\ ~(isLocked' /\ draining')
  BY <1>3, <1>4 DEF NoLostWakeup
<1>13. ScheduleStep
  <2>1. KnownOrders' = KnownOrders \cup {o}
    BY <1>6 DEF KnownOrders
  <2>2. Schedule!Announce(o)
    BY <1>4, <2>1 DEF Schedule!Announce, KnownOrders
  <2>3. QED
    BY <2>2 DEF ScheduleStep, Schedule!Next
<1>14. QED
  BY <1>4, <1>7, <1>9, <1>10, <1>11, <1>12, <1>13 DEF IInv

(* Any other event: put aside while the lock is held, else handled.         *)
LEMMA ReceiveEventStep ==
  ASSUME IInv, NEW e \in Event, ReceiveEvent(e)
  PROVE  IInv' /\ ScheduleStep
<1>1. ~draining /\ UNCHANGED <<isLocked, running>>
  BY DEF ReceiveEvent
<1>2. CASE isLocked
  <2>1. /\ eventsQueue' = Append(eventsQueue, e)
        /\ out' = {}
        /\ UNCHANGED <<createdOrdersMetadata, priorityQueue, queue, draining, mempool,
                      rejected, revoked>>
    BY <1>2 DEF ReceiveEvent, orderQueues
  <2>2. eventsQueue' \in Seq(Event)
    BY <2>1, AppendProperties DEF IInv, TypeOK
  <2>3. QED
    BY <1>1, <1>2, <2>1, <2>2
       DEF IInv, TypeOK, MutualExclusion, NoLostWakeup, MetadataPresent, NoOrderForgotten,
           RevokedRecorded, Scheduled, Queued, Taking, Known, ScheduleStep, KnownOrders
<1>3. CASE ~isLocked
  <2>1. ProcessEvent(e) /\ eventsQueue' = eventsQueue /\ running = {}
    BY <1>3 DEF ReceiveEvent, IInv, MutualExclusion
  <2>2. /\ QueueOK(priorityQueue') /\ QueueOK(queue') /\ MempoolOK(mempool')
        /\ createdOrdersMetadata' \in [OrderId -> CreatedOrderMetadata \cup {None}]
        /\ draining' = TRUE
        /\ rejected' \subseteq OrderId /\ revoked' \subseteq OrderId /\ out' \subseteq Call
        /\ MetadataPresent' /\ NoOrderForgotten' /\ RevokedRecorded' /\ ScheduleStep
    BY <1>1, <2>1, ProcessEventLemma
  <2>3. QED
    BY <1>1, <1>3, <2>1, <2>2
       DEF IInv, TypeOK, QueueOK, MempoolOK, MutualExclusion, NoLostWakeup
<1>4. QED
  BY <1>2, <1>3

(* An event that had been put aside is handled once the lock is free.       *)
LEMMA DrainEventStep ==
  ASSUME IInv, DrainEvent
  PROVE  IInv' /\ ScheduleStep
<1>1. /\ draining /\ ~isLocked /\ running = {} /\ eventsQueue # <<>>
      /\ ProcessEvent(Head(eventsQueue))
      /\ eventsQueue' = Tail(eventsQueue)
      /\ UNCHANGED <<isLocked, running>>
  BY DEF DrainEvent, IInv, MutualExclusion
<1>2. Head(eventsQueue) \in Event /\ eventsQueue' \in Seq(Event)
  BY <1>1, HeadTailProperties DEF IInv, TypeOK
<1>3. /\ QueueOK(priorityQueue') /\ QueueOK(queue') /\ MempoolOK(mempool')
      /\ createdOrdersMetadata' \in [OrderId -> CreatedOrderMetadata \cup {None}]
      /\ draining' = TRUE
      /\ rejected' \subseteq OrderId /\ revoked' \subseteq OrderId /\ out' \subseteq Call
      /\ MetadataPresent' /\ NoOrderForgotten' /\ RevokedRecorded' /\ ScheduleStep
  BY <1>1, <1>2, ProcessEventLemma
<1>4. QED
  BY <1>1, <1>2, <1>3 DEF IInv, TypeOK, QueueOK, MempoolOK, MutualExclusion, NoLostWakeup

(* A mempool timeout: the order is queued or attempted under its metadata.  *)
LEMMA TimeoutFiresStep ==
  ASSUME IInv, NEW o \in OrderId, TimeoutFires(o)
  PROVE  IInv' /\ ScheduleStep
<1> DEFINE md == createdOrdersMetadata[o]
           mp == [trackedOrders |-> mempool.trackedOrders \ {o},
                  timeouts |-> [mempool.timeouts EXCEPT ![o] = @ - 1]]
<1>1. /\ ~draining
      /\ out' = {}
      /\ UNCHANGED <<createdOrdersMetadata, eventsQueue, draining, revoked>>
  BY DEF TimeoutFires
<1>2. o \in mempool.trackedOrders
  BY DEF TimeoutFires, IInv, MempoolOK
<1>3. ProcessOrder(o, md.status, md, mp)
  BY <1>2 DEF TimeoutFires
<1>4. MempoolOK(mp) /\ mp.trackedOrders = mempool.trackedOrders \ {o}
  BY <1>2 DEF IInv, MempoolOK
<1>5. Known(o)
  BY <1>2 DEF IInv, MetadataPresent, Scheduled
<1>6. md \in CreatedOrderMetadata /\ md.status \in CreationStatus
  BY <1>5 DEF Known, IInv, TypeOK, CreatedOrderMetadata, CreationStatus
<1> HIDE DEF md, mp
<1>7. /\ QueueOK(priorityQueue') /\ QueueOK(queue') /\ MempoolOK(mempool')
      /\ isLocked' = TRUE
      /\ running' \subseteq Attempt
      /\ MutualExclusion'
      /\ Scheduled' \cup Taking' = Queued \cup mp.trackedOrders \cup Taking \cup {o}
      /\ \/ /\ Taking # {} /\ Taking' = Taking
            /\ Scheduled' = Queued \cup mp.trackedOrders \cup {o}
         \/ /\ Taking = {} /\ Taking' = {o}
            /\ Scheduled' \subseteq Queued \cup mp.trackedOrders
      /\ rejected' \subseteq OrderId
      /\ rejected \subseteq rejected' \cup {o}
  BY <1>1, <1>3, <1>4, <1>6, ProcessOrderLemma
<1>8. Scheduled' \cup Taking' = Scheduled \cup Taking
  BY <1>2, <1>4, <1>7 DEF Scheduled
<1>9. TypeOK'
  BY <1>1, <1>7 DEF IInv, TypeOK, QueueOK, MempoolOK
<1>10. MetadataPresent' /\ RevokedRecorded'
  BY <1>1, <1>8 DEF IInv, MetadataPresent, RevokedRecorded, Known
<1>11. NoOrderForgotten'
  BY <1>1, <1>2, <1>7, <1>8 DEF IInv, NoOrderForgotten, Known, Scheduled
<1>12. ScheduleStep
  <2>1. KnownOrders' = KnownOrders
    BY <1>1 DEF KnownOrders, Known
  <2>2. CASE Taking # {} /\ Taking' = Taking
    BY <1>2, <1>4, <1>7, <2>1, <2>2 DEF ScheduleStep, Scheduled
  <2>3. CASE Taking = {} /\ Taking' = {o}
    <3>1. o \in Scheduled /\ Scheduled' \in {Scheduled, Scheduled \ {o}}
      BY <1>2, <1>4, <1>7, <2>3 DEF Scheduled
    <3>2. Schedule!Begin(o)
      BY <2>1, <2>3, <3>1 DEF Schedule!Begin, KnownOrders
    <3>3. QED
      BY <3>2 DEF ScheduleStep, Schedule!Next
  <2>4. QED
    BY <1>7, <2>2, <2>3
<1>13. QED
  BY <1>1, <1>7, <1>9, <1>10, <1>11, <1>12 DEF IInv, NoLostWakeup

(* The end of an attempt: fulfilled, postponed or rejected.                 *)
LEMMA FinishAttemptStep ==
  ASSUME IInv, NEW a \in running, FinishAttempt(a)
  PROVE  IInv' /\ ScheduleStep
<1> DEFINE o == a.order
<1>1. /\ running = {a} /\ Taking = {o} /\ o \in OrderId
  BY DEF IInv, TypeOK, MutualExclusion, Taking, Attempt
<1>2. /\ running' = {} /\ isLocked' = FALSE /\ draining' = TRUE /\ out' = {}
      /\ UNCHANGED <<createdOrdersMetadata, eventsQueue, revoked>>
  BY <1>1 DEF FinishAttempt
<1>3. Taking' = {}
  BY <1>2 DEF Taking
<1> HIDE DEF o
<1>4. /\ QueueOK(priorityQueue') /\ QueueOK(queue') /\ MempoolOK(mempool')
      /\ rejected' \subseteq OrderId
      /\ rejected \subseteq rejected'
      /\ Scheduled' \subseteq Scheduled \cup {o}
      /\ Scheduled \subseteq Scheduled'
      /\ o \in Scheduled' \cup rejected'
  <2>1. CASE MarkOrderAsFulfilled(o) /\ UNCHANGED rejected
    <3> DEFINE mp == MempoolDelete(mempool, o)
    <3>1. MempoolOK(mp) /\ mp.trackedOrders = mempool.trackedOrders \ {o}
      BY <1>1, MempoolLemma DEF IInv
    <3>2. /\ priorityQueue' = SetDelete(priorityQueue, o)
          /\ queue' = SetDelete(queue, o)
          /\ mempool' = MempoolAdd(mp, o)
      BY <2>1 DEF MarkOrderAsFulfilled
    <3> HIDE DEF mp
    <3>3. MempoolOK(mempool') /\ mempool'.trackedOrders = mempool.trackedOrders \cup {o}
      BY <1>1, <3>1, <3>2, MempoolLemma
    <3>4. QED
      BY <1>1, <2>1, <3>2, <3>3, QueueLemma DEF IInv, TypeOK, Scheduled, Queued
  <2>2. CASE PostponeOrder(o) /\ UNCHANGED rejected
    BY <1>1, <2>2, MempoolLemma DEF PostponeOrder, orderQueues, IInv, TypeOK, Scheduled, Queued
  <2>3. CASE rejected' = rejected \cup {o} /\ UNCHANGED <<orderQueues, mempool>>
    BY <1>1, <2>3 DEF orderQueues, IInv, TypeOK, Scheduled, Queued
  <2>4. QED
    BY <2>1, <2>2, <2>3 DEF FinishAttempt, o
<1>5. TypeOK'
  BY <1>2, <1>4 DEF IInv, TypeOK, QueueOK, MempoolOK
<1>6. MetadataPresent' /\ RevokedRecorded'
  BY <1>1, <1>2, <1>3, <1>4 DEF IInv, MetadataPresent, RevokedRecorded, Known
<1>7. NoOrderForgotten'
  BY <1>1, <1>2, <1>3, <1>4 DEF IInv, NoOrderForgotten, Known
<1>8. ScheduleStep
  <2>1. KnownOrders' = KnownOrders
    BY <1>2 DEF KnownOrders, Known
  <2>2. Scheduled' \in {Scheduled, Scheduled \cup {o}}
    BY <1>4
  <2>3. Schedule!End(o)
    BY <1>1, <1>3, <2>1, <2>2 DEF Schedule!End, KnownOrders
  <2>4. QED
    BY <1>1, <2>3 DEF ScheduleStep, Schedule!Next
<1>9. QED
  BY <1>2, <1>4, <1>5, <1>6, <1>7, <1>8 DEF IInv, MutualExclusion, NoLostWakeup

(* The next queued order leaves its queues to be attempted.                 *)
LEMMA PickNextOrderStep ==
  ASSUME IInv, PickNextOrder
  PROVE  IInv' /\ ScheduleStep
<1> DEFINE o == Head(Candidates)
           md == createdOrdersMetadata[o]
           pq == SetDelete(priorityQueue, o)
           q == SetDelete(queue, o)
<1>1. /\ draining /\ eventsQueue = <<>> /\ Candidates # <<>>
      /\ BeginAttempt(o, md, pq, q, mempool)
      /\ draining' = FALSE /\ out' = {}
      /\ UNCHANGED <<createdOrdersMetadata, eventsQueue, revoked>>
  BY DEF PickNextOrder
<1>2. running = {} /\ Taking = {} /\ rejected \subseteq OrderId
  BY <1>1 DEF IInv, TypeOK, MutualExclusion, Taking
<1>3. o \in Queued
  <2>1. /\ Candidates \in Seq(OrderId)
        /\ Len(Candidates) = Len(priorityQueue) + Len(queue)
        /\ \A i \in 1..(Len(priorityQueue) + Len(queue)) : Candidates[i] =
             IF i <= Len(priorityQueue) THEN priorityQueue[i] ELSE queue[i - Len(priorityQueue)]
    BY ConcatProperties DEF Candidates, IInv, QueueOK
  <2>2. o = Candidates[1] /\ Len(Candidates) >= 1
    BY <1>1, <2>1, EmptySeq
  <2>3. CASE Len(priorityQueue) >= 1
    BY <2>1, <2>2, <2>3 DEF Queued, ToSet, IInv, QueueOK
  <2>4. CASE Len(priorityQueue) = 0
    BY <2>1, <2>2, <2>4 DEF Queued, ToSet, IInv, QueueOK
  <2>5. QED
    BY <2>3, <2>4, LenProperties DEF IInv, QueueOK
<1> HIDE DEF o
<1>4. o \in OrderId
  BY <1>3 DEF Queued, ToSet, IInv, QueueOK
<1>5. md \in CreatedOrderMetadata
  BY <1>3, <1>4 DEF IInv, TypeOK, MetadataPresent, Scheduled, Known
<1>6. /\ QueueOK(pq) /\ QueueOK(q) /\ MempoolOK(mempool)
      /\ ToSet(pq) \cup ToSet(q) = Queued \ {o}
  BY <1>4, QueueLemma DEF IInv, Queued
<1> HIDE DEF md, pq, q
<1>7. /\ isLocked' = TRUE
      /\ running' = {[order |-> o, finalization |-> FinalizationInfo(md)]}
      /\ running' \subseteq Attempt
      /\ Taking' = {o}
      /\ QueueOK(priorityQueue') /\ QueueOK(queue') /\ MempoolOK(mempool')
      /\ Scheduled' \cup {o} = ToSet(pq) \cup ToSet(q) \cup mempool.trackedOrders \cup {o}
      /\ Scheduled' \subseteq ToSet(pq) \cup ToSet(q) \cup mempool.trackedOrders
      /\ rejected' = rejected \ {o}
  BY <1>1, <1>2, <1>4, <1>5, <1>6, BeginAttemptLemma
<1>8. Scheduled' \cup {o} = Scheduled /\ Scheduled' \subseteq Scheduled
  BY <1>3, <1>6, <1>7 DEF Scheduled
<1>9. TypeOK'
  BY <1>1, <1>2, <1>7 DEF IInv, TypeOK, QueueOK, MempoolOK
<1>10. MutualExclusion' /\ NoLostWakeup' /\ ~(isLocked' /\ draining')
  BY <1>1, <1>7 DEF MutualExclusion, NoLostWakeup
<1>11. MetadataPresent' /\ RevokedRecorded'
  BY <1>1, <1>7, <1>8 DEF IInv, MetadataPresent, RevokedRecorded, Known
<1>12. NoOrderForgotten'
  BY <1>1, <1>2, <1>7, <1>8 DEF IInv, NoOrderForgotten, Known
<1>13. ScheduleStep
  <2>1. KnownOrders' = KnownOrders
    BY <1>1 DEF KnownOrders, Known
  <2>2. Scheduled' \in {Scheduled, Scheduled \ {o}} /\ o \in Scheduled
    BY <1>8
  <2>3. Schedule!Begin(o)
    BY <1>2, <1>7, <2>1, <2>2 DEF Schedule!Begin, KnownOrders
  <2>4. QED
    BY <1>4, <2>3 DEF ScheduleStep, Schedule!Next
<1>14. QED
  BY <1>7, <1>9, <1>10, <1>11, <1>12, <1>13 DEF IInv

(* The continuation of process() finds nothing to do.                      *)
LEMMA NoWorkStep ==
  ASSUME IInv, Return \/ UNCHANGED vars
  PROVE  IInv' /\ ScheduleStep
<1>1. CASE Return
  <2>1. /\ draining /\ eventsQueue = <<>> /\ Candidates = <<>>
        /\ draining' = FALSE /\ out' = {}
        /\ UNCHANGED <<createdOrdersMetadata, priorityQueue, queue, eventsQueue, isLocked,
                      running, mempool, rejected, revoked>>
    BY <1>1 DEF Return, orderQueues
  <2>2. Queued = {}
    <3>1. priorityQueue = <<>> /\ queue = <<>>
      BY <2>1, ConcatSimplifications DEF Candidates, IInv, QueueOK
    <3>2. QED
      BY <3>1 DEF Queued, ToSet
  <2>3. Queued' = Queued /\ Scheduled' = Scheduled /\ Taking' = Taking
    BY <2>1 DEF Queued, Scheduled, Taking
  <2>4. QED
    BY <2>1, <2>2, <2>3
       DEF IInv, TypeOK, MutualExclusion, NoLostWakeup, MetadataPresent, NoOrderForgotten,
           RevokedRecorded, Known, ScheduleStep, KnownOrders
<1>2. CASE UNCHANGED vars
  BY <1>2
     DEF vars, IInv, TypeOK, MutualExclusion, NoLostWakeup, MetadataPresent, NoOrderForgotten,
         RevokedRecorded, Scheduled, Queued, Taking, Known, ScheduleStep, KnownOrders
<1>3. QED
  BY <1>1, <1>2

(* Every step keeps the invariant and is a step of the abstract scheduler.  *)
LEMMA NextStep == IInv /\ [Next]_vars => IInv' /\ ScheduleStep
<1> SUFFICES ASSUME IInv, [Next]_vars PROVE IInv' /\ ScheduleStep
  OBVIOUS
<1>1. ASSUME NEW o \in OrderId, NEW status \in CreationStatus,
             NEW f \in Finalization \cup {"Absent"}, ReceiveCreation(o, status, f)
      PROVE  IInv' /\ ScheduleStep
  BY <1>1, ReceiveCreationStep
<1>2. ASSUME NEW e \in Event, ReceiveEvent(e) PROVE IInv' /\ ScheduleStep
  BY <1>2, ReceiveEventStep
<1>3. ASSUME NEW o \in OrderId, TimeoutFires(o) PROVE IInv' /\ ScheduleStep
  BY <1>3, TimeoutFiresStep
<1>4. ASSUME NEW a \in running, FinishAttempt(a) PROVE IInv' /\ ScheduleStep
  BY <1>4, FinishAttemptStep
<1>5. CASE DrainEvent
  BY <1>5, DrainEventStep
<1>6. CASE PickNextOrder
  BY <1>6, PickNextOrderStep
<1>7. CASE Return \/ UNCHANGED vars
  BY <1>7, NoWorkStep
<1>8. QED
  BY <1>1, <1>2, <1>3, <1>4, <1>5, <1>6, <1>7 DEF Next

(* The inductive invariant holds of every behaviour.                        *)
THEOREM Invariance == Spec => []IInv
<1>1. IInv /\ [Next]_vars => IInv'
  BY NextStep
<1>2. QED
  BY InitInv, <1>1, PTL DEF Spec

(* Type correctness of the processor's state.                               *)
THEOREM TypeCorrect == Spec => []TypeOK
<1>1. IInv => TypeOK
  BY DEF IInv
<1>2. QED
  BY <1>1, Invariance, PTL

(* The assertion of getCreatedOrderMetadata never fails.                    *)
THEOREM MetadataAlwaysPresent == Spec => []MetadataPresent
<1>1. IInv => MetadataPresent
  BY DEF IInv
<1>2. QED
  BY <1>1, Invariance, PTL

(* Attempts of one take chain exclude each other.                           *)
THEOREM AttemptsExclusive == Spec => []MutualExclusion
<1>1. IInv => MutualExclusion
  BY DEF IInv
<1>2. QED
  BY <1>1, Invariance, PTL

(* An idle processor has nothing left in its queues.                        *)
THEOREM WakeupsNotLost == Spec => []NoLostWakeup
<1>1. IInv => NoLostWakeup
  BY DEF IInv
<1>2. QED
  BY <1>1, Invariance, PTL

(* A known order is looked at again unless it was rejected.                 *)
THEOREM OrdersNotForgotten == Spec => []NoOrderForgotten
<1>1. IInv => NoOrderForgotten
  BY DEF IInv
<1>2. QED
  BY <1>1, Invariance, PTL

(* A tracked order has exactly one timeout.                                 *)
THEOREM TimeoutsNotDuplicated == Spec => []OneTimeoutPerOrder
<1>1. IInv => OneTimeoutPerOrder
  BY DEF IInv, MempoolOK, OneTimeoutPerOrder
<1>2. QED
  BY <1>1, Invariance, PTL

(* The processor, with its lock, queues and timeouts, implements the        *)
(* abstract scheduler.                                                      *)
THEOREM ScheduleRefined == Spec => ImplementsTakeSchedule
<1>1. Init => Schedule!Init
  BY DEF Init, Schedule!Init, Known, Scheduled, Queued, Taking, ToSet
<1>2. IInv /\ [Next]_vars => [Schedule!Next]_Schedule!scheduleVars
  BY NextStep DEF ScheduleStep, KnownOrders, Schedule!scheduleVars
<1>3. QED
  BY <1>1, <1>2, Invariance, PTL DEF Spec, ImplementsTakeSchedule, Schedule!Spec

-----------------------------------------------------------------------------
(* An attempt begins only when no event waits, and sees the finalization    *)
(* that the metadata of its order holds at that moment.                     *)
LEMMA BeginsLemma ==
  ASSUME IInv, [Next]_vars, NEW a \in Attempt, Begins(a)
  PROVE  /\ eventsQueue = <<>>
         /\ a.finalization = FinalizationInfo(createdOrdersMetadata'[a.order])
<1> DEFINE Goal == /\ eventsQueue = <<>>
                   /\ a.finalization = FinalizationInfo(createdOrdersMetadata'[a.order])
<1>1. ASSUME NEW o, NEW md, NEW pq, NEW q, NEW mp, BeginAttempt(o, md, pq, q, mp)
      PROVE  a.order = o /\ a.finalization = FinalizationInfo(md)
  BY <1>1 DEF BeginAttempt, Begins
<1>2. ASSUME NEW o, NEW status, NEW md, NEW mp, ~draining, ProcessOrder(o, status, md, mp)
      PROVE  eventsQueue = <<>> /\ a.order = o /\ a.finalization = FinalizationInfo(md)
  <2>1. ~isLocked /\ BeginAttempt(o, md, priorityQueue, queue, mp)
    BY <1>2 DEF ProcessOrder, Enqueue, Begins
  <2>2. QED
    BY <1>1, <1>2, <2>1 DEF IInv, NoLostWakeup
<1>3. ASSUME NEW o \in OrderId, NEW status, NEW f, ReceiveCreation(o, status, f)
      PROVE  Goal
  <2> DEFINE md == RecordCreation(o, status, f)
  <2>1. /\ ~draining /\ ProcessOrder(o, status, md, mempool)
        /\ createdOrdersMetadata' = [createdOrdersMetadata EXCEPT ![o] = md]
    BY <1>3 DEF ReceiveCreation
  <2> HIDE DEF md
  <2>2. createdOrdersMetadata'[o] = md
    BY <2>1 DEF IInv, TypeOK
  <2>3. QED
    BY <1>2, <2>1, <2>2
<1>4. ASSUME NEW o \in OrderId, TimeoutFires(o) PROVE Goal
  <2>1. o \in mempool.trackedOrders
    BY <1>4 DEF TimeoutFires, IInv, MempoolOK
  <2>2. /\ ~draining /\ UNCHANGED createdOrdersMetadata
        /\ \E mp : ProcessOrder(o, createdOrdersMetadata[o].status, createdOrdersMetadata[o], mp)
    BY <1>4, <2>1 DEF TimeoutFires
  <2>3. QED
    BY <1>2, <2>2
<1>5. CASE PickNextOrder
  <2>1. /\ eventsQueue = <<>> /\ UNCHANGED createdOrdersMetadata
        /\ \E o, pq, q : BeginAttempt(o, createdOrdersMetadata[o], pq, q, mempool)
    BY <1>5 DEF PickNextOrder
  <2>2. QED
    BY <1>1, <2>1
<1>6. ASSUME running' \subseteq running PROVE Goal
  BY <1>6 DEF Begins
<1>7. ASSUME NEW b \in running, FinishAttempt(b) PROVE Goal
  BY <1>6, <1>7 DEF FinishAttempt
<1>8. CASE (\E e \in Event : ReceiveEvent(e)) \/ DrainEvent \/ Return \/ UNCHANGED vars
  BY <1>6, <1>8 DEF ReceiveEvent, DrainEvent, Return, vars
<1>9. QED
  BY <1>3, <1>4, <1>5, <1>7, <1>8 DEF Next

(* No attempt begins under a closing event that has already been received.  *)
THEOREM ClosedOrdersNotAttempted == Spec => NoAttemptOfClosedOrder
<1> DEFINE Step == \A a \in Attempt : Begins(a) =>
              ~\E i \in 1..Len(eventsQueue) : /\ eventsQueue[i].order = a.order
                                              /\ eventsQueue[i].status \in ClosingStatus
<1>1. IInv /\ [Next]_vars => Step
  BY BeginsLemma
<1>2. QED
  BY <1>1, Invariance, PTL DEF Spec, NoAttemptOfClosedOrder

(* A live order that the feed last announced as revoked is never taken.     *)
THEOREM RevokedLiveOrdersNotTaken == Spec => RevokedLiveOrderNotTaken
<1> DEFINE Step == \A a \in Attempt :
              Begins(a) /\ a.order \in revoked' /\ createdOrdersMetadata'[a.order].status = "Created"
                => a.finalization = "Revoked"
<1>1. IInv /\ [Next]_vars => Step
  <2> SUFFICES ASSUME IInv, [Next]_vars, NEW a \in Attempt, Begins(a), a.order \in revoked',
                      createdOrdersMetadata'[a.order].status = "Created"
               PROVE  a.finalization = "Revoked"
    OBVIOUS
  <2>1. a.order \in OrderId
    BY DEF Attempt
  <2>2. createdOrdersMetadata'[a.order].finalization = "Revoked"
    BY <2>1, NextStep DEF IInv, RevokedRecorded
  <2>3. QED
    BY <2>2, BeginsLemma DEF FinalizationInfo
<1>2. QED
  BY <1>1, Invariance, PTL DEF Spec, RevokedLiveOrderNotTaken
=============================================================================
