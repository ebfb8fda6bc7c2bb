--------------------------- MODULE OrderProcessor ---------------------------
(***************************************************************************)
(* The OrderProcessor of one take chain (processor.ts) together with the   *)
(* MempoolService it owns (processors/mempool.service.ts).                 *)
(*                                                                         *)
(* Node.js runs one callback at a time, so a step of this module is a      *)
(* piece of code between two awaits.  Three kinds of callbacks enter the   *)
(* processor: an event of the order feed (handleEvent), a timeout of the   *)
(* mempool, and the end of the attempt that process() awaits.  What runs   *)
(* after the lock is released - draining eventsQueue, then picking the     *)
(* next order - is a synchronous recursion of process() and handleEvent(); *)
(* it is cut into one step per round, and while it lasts (`draining') no   *)
(* other callback can run.                                                 *)
(*                                                                         *)
(* Abstracted: the content of orders, arrivedAt and attempts (they only    *)
(* feed the length of a mempool delay and the hooks) and the length of the *)
(* delays: a timeout may fire at any time once it is armed.                *)
(*                                                                         *)
(* Operators whose name ends in _Fault are deliberately wrong variants of  *)
(* the operator that follows them; no specification uses them.             *)
(***************************************************************************)
EXTENDS Naturals, SequencesExt

CONSTANTS
  OrderId,     (* the orders the feed talks about                          *)
  FeedStatus,  (* the statuses, other than the creation ones, it delivers  *)
  MaxEvents,   (* bound on the length of eventsQueue                       *)
  None         (* stands for a missing entry of a Map                      *)

CreationStatus == {"Created", "ArchivalCreated"}
ClosingStatus == {"Cancelled", "Fulfilled", "UnlockSent", "UnlockClaim"}

(* "Valid" stands for Finalized and for every number of confirmations, which *)
(* only the validation of the order inside its attempt tells apart.         *)
Finalization == {"Valid", "Revoked"}

(* Only live events carry a finalization_info.                             *)
CreatedOrderMetadata ==
  [status: {"Created"}, finalization: Finalization]
    \cup [status: {"ArchivalCreated"}, finalization: Finalization \cup {"Absent"}]
Event == [status: FeedStatus, order: OrderId]
Attempt == [order: OrderId, finalization: Finalization]
Call == [op: {"unlockOrder", "remove", "flushCache"}, order: OrderId]

ASSUME OrderProcessorAssumption ==
  /\ FeedStatus \subseteq ClosingStatus \cup {"ArchivalFulfilled", "Other"}
  /\ MaxEvents \in Nat
  /\ None \notin CreatedOrderMetadata

VARIABLES
  createdOrdersMetadata, (* Map: order -> how the order became known        *)
  priorityQueue,         (* insertion-ordered Set, as a sequence            *)
  queue,                 (* insertion-ordered Set, as a sequence            *)
  eventsQueue,           (* Array of events that found the processor busy   *)
  isLocked,              (* the lock around process()                       *)
  running,               (* the attempts whose await is outstanding         *)
  draining,              (* the synchronous continuation of process() runs  *)
  mempool,               (* trackedOrders, and the timeouts node has armed  *)
  rejected,              (* history: known orders rejected when last tried  *)
  revoked,               (* history: known orders last announced as revoked *)
  out                    (* the calls the last step made to collaborators   *)

orderQueues == <<priorityQueue, queue>>
vars == <<createdOrdersMetadata, priorityQueue, queue, eventsQueue, isLocked,
          running, draining, mempool, rejected, revoked, out>>

-----------------------------------------------------------------------------
(* JavaScript Sets, which remember the order of insertion.                  *)

SetAdd(s, o) == IF Contains(s, o) THEN s ELSE Append(s, o)
SetDelete(s, o) == RemoveFirst(s, o)

(* MempoolService.  The Map entry of an order holds the id of the timeout   *)
(* armed last; `timeouts' counts the ones node still holds, so that one a   *)
(* missing clearTimeout left behind would be seen to fire.                  *)

ClearTimeout_Fault(m, o) == [m EXCEPT !.timeouts[o] = @ - 1]

ClearTimeout(m, o) ==
  IF o \in m.trackedOrders THEN [m EXCEPT !.timeouts[o] = @ - 1] ELSE m

MempoolAdd_Fault(m, o) ==
  [trackedOrders |-> m.trackedOrders \cup {o},
   timeouts |-> [m.timeouts EXCEPT ![o] = @ + 1]]

MempoolAdd(m, o) ==
  [trackedOrders |-> m.trackedOrders \cup {o},
   timeouts |-> [ClearTimeout(m, o).timeouts EXCEPT ![o] = @ + 1]]

MempoolDelete(m, o) ==
  [trackedOrders |-> m.trackedOrders \ {o}, timeouts |-> ClearTimeout(m, o).timeouts]

-----------------------------------------------------------------------------
Init ==
  /\ createdOrdersMetadata = [o \in OrderId |-> None]
  /\ priorityQueue = <<>>
  /\ queue = <<>>
  /\ eventsQueue = <<>>
  /\ isLocked = FALSE
  /\ running = {}
  /\ draining = FALSE
  /\ mempool = [trackedOrders |-> {}, timeouts |-> [o \in OrderId |-> 0]]
  /\ rejected = {}
  /\ revoked = {}
  /\ out = {}

Known(o) == createdOrdersMetadata[o] # None

(* getFinalizationInfo: an archival order counts as finalized whatever its  *)
(* finalization_info says.                                                  *)
FinalizationInfo_Fault(metadata) == "Valid"

FinalizationInfo(metadata) ==
  IF metadata.status = "ArchivalCreated" THEN "Valid" ELSE metadata.finalization

ClearInternalQueues_Fault(o) ==
  /\ priorityQueue' = SetDelete(priorityQueue, o)
  /\ mempool' = MempoolDelete(mempool, o)
  /\ UNCHANGED queue

ClearInternalQueues(o) ==
  /\ priorityQueue' = SetDelete(priorityQueue, o)
  /\ queue' = SetDelete(queue, o)
  /\ mempool' = MempoolDelete(mempool, o)

(* process() of an order when the lock is free, up to its await; pq, q and  *)
(* mp are the queues and the mempool as the caller leaves them.  takeOrder  *)
(* clears and rejects a revoked order at once, and starts taking any other. *)
BeginAttempt(o, metadata, pq, q, mp) ==
  LET info == FinalizationInfo(metadata)
  IN /\ isLocked' = TRUE
     /\ running' = running \cup {[order |-> o, finalization |-> info]}
     /\ rejected' = rejected \ {o}
     /\ priorityQueue' = IF info = "Revoked" THEN SetDelete(pq, o) ELSE pq
     /\ queue' = IF info = "Revoked" THEN SetDelete(q, o) ELSE q
     /\ mempool' = IF info = "Revoked" THEN MempoolDelete(mp, o) ELSE mp

(* process() of an order when the lock is held: the order waits in the      *)
(* queue of the status it came with.                                        *)
Enqueue(o, status, mp) ==
  /\ priorityQueue' = IF status = "Created" THEN SetAdd(priorityQueue, o) ELSE priorityQueue
  /\ queue' = IF status = "ArchivalCreated" THEN SetAdd(queue, o) ELSE queue
  /\ mempool' = mp
  /\ UNCHANGED <<isLocked, running, rejected>>

ProcessOrder_Fault(o, status, metadata, mp) ==
  BeginAttempt(o, metadata, priorityQueue, queue, mp)

ProcessOrder(o, status, metadata, mp) ==
  \/ isLocked /\ Enqueue(o, status, mp)
  \/ ~isLocked /\ BeginAttempt(o, metadata, priorityQueue, queue, mp)

(* The calls process() makes to its collaborators while it handles an event. *)
CallsOf(e) ==
  LET ops == CASE e.status \in {"UnlockSent", "UnlockClaim"} -> {"flushCache", "remove"}
               [] e.status = "Fulfilled" -> {"flushCache", "unlockOrder"}
               [] e.status = "ArchivalFulfilled" -> {"unlockOrder"}
               [] OTHER -> {}
  IN [op: ops, order: {e.order}]

(* process() of an event that is not a creation, when the lock is free.     *)
(* Nothing is awaited: the lock is taken and released within the step.      *)
ProcessEvent(e) ==
  /\ IF e.status \in ClosingStatus
     THEN /\ ClearInternalQueues(e.order)
          /\ createdOrdersMetadata' = [createdOrdersMetadata EXCEPT ![e.order] = None]
          /\ rejected' = rejected \ {e.order}
          /\ revoked' = revoked \ {e.order}
     ELSE UNCHANGED <<orderQueues, mempool, createdOrdersMetadata, rejected, revoked>>
  /\ out' = CallsOf(e)
  /\ draining' = TRUE

-----------------------------------------------------------------------------
(* The callbacks.                                                           *)

(* handleEvent of a creation: a known order keeps its context, and a live   *)
(* event only overwrites its finalization_info.                             *)
RecordCreation_Fault(o, status, finalization) ==
  IF Known(o) THEN createdOrdersMetadata[o]
  ELSE [status |-> status, finalization |-> finalization]

RecordCreation(o, status, finalization) ==
  IF ~Known(o) THEN [status |-> status, finalization |-> finalization]
  ELSE IF status = "Created"
       THEN [createdOrdersMetadata[o] EXCEPT !.finalization = finalization]
       ELSE createdOrdersMetadata[o]

ReceiveCreation(o, status, finalization) ==
  /\ ~draining
  /\ status = "ArchivalCreated" <=> finalization = "Absent"
  /\ createdOrdersMetadata' =
       [createdOrdersMetadata EXCEPT ![o] = RecordCreation(o, status, finalization)]
  /\ revoked' = CASE finalization = "Revoked" -> revoked \cup {o}
                  [] finalization = "Valid" -> revoked \ {o}
                  [] OTHER -> revoked
  /\ ProcessOrder(o, status, RecordCreation(o, status, finalization), mempool)
  /\ out' = {}
  /\ UNCHANGED <<eventsQueue, draining>>

(* handleEvent of any other event.                                          *)
ReceiveEvent(e) ==
  /\ ~draining
  /\ \/ /\ isLocked
        /\ Len(eventsQueue) < MaxEvents
        /\ eventsQueue' = Append(eventsQueue, e)
        /\ out' = {}
        /\ UNCHANGED <<createdOrdersMetadata, orderQueues, draining, mempool, rejected, revoked>>
     \/ /\ ~isLocked
        /\ ProcessEvent(e)
        /\ UNCHANGED eventsQueue
  /\ UNCHANGED <<isLocked, running>>

(* The function getTimeoutFunc returns, and handleOrder when the mempool    *)
(* still tracks the order.                                                  *)
TimeoutFires(o) ==
  /\ ~draining
  /\ mempool.timeouts[o] > 0
  /\ LET timeouts == [mempool.timeouts EXCEPT ![o] = @ - 1]
         metadata == createdOrdersMetadata[o]
     IN IF o \in mempool.trackedOrders
        THEN ProcessOrder(o, metadata.status, metadata,
               [trackedOrders |-> mempool.trackedOrders \ {o}, timeouts |-> timeouts])
        ELSE /\ mempool' = [mempool EXCEPT !.timeouts = timeouts]
             /\ UNCHANGED <<orderQueues, isLocked, running, rejected>>
  /\ out' = {}
  /\ UNCHANGED <<createdOrdersMetadata, eventsQueue, draining, revoked>>

(* The attempt succeeded: the order leaves the queues it may have entered   *)
(* meanwhile and is looked at again later, should the transaction get lost. *)
MarkOrderAsFulfilled_Fault(o) == ClearInternalQueues(o)

MarkOrderAsFulfilled(o) ==
  /\ priorityQueue' = SetDelete(priorityQueue, o)
  /\ queue' = SetDelete(queue, o)
  /\ mempool' = MempoolAdd(MempoolDelete(mempool, o), o)

PostponeOrder(o) ==
  /\ mempool' = MempoolAdd(mempool, o)
  /\ UNCHANGED orderQueues

(* The await in process() returns with the attempt fulfilled, postponed or  *)
(* rejected - a revoked order was rejected before it - and the lock is      *)
(* released.                                                                *)
FinishAttempt(a) ==
  /\ ~draining
  /\ \/ /\ a.finalization # "Revoked"
        /\ MarkOrderAsFulfilled(a.order)
        /\ UNCHANGED rejected
     \/ /\ a.finalization # "Revoked"
        /\ PostponeOrder(a.order)
        /\ UNCHANGED rejected
     \/ /\ rejected' = rejected \cup {a.order}
        /\ UNCHANGED <<orderQueues, mempool>>
  /\ running' = running \ {a}
  /\ isLocked' = FALSE
  /\ draining' = TRUE
  /\ out' = {}
  /\ UNCHANGED <<createdOrdersMetadata, eventsQueue, revoked>>

-----------------------------------------------------------------------------
(* The rounds of the synchronous continuation, process() 239-249.           *)

DrainEvent ==
  /\ draining
  /\ eventsQueue # <<>>
  /\ ProcessEvent(Head(eventsQueue))
  /\ eventsQueue' = Tail(eventsQueue)
  /\ UNCHANGED <<isLocked, running>>

(* pickNextOrderId: the queues in the order they are looked at.             *)
Candidates_Lifo_Fault == Reverse(priorityQueue) \o queue

Candidates_NoRetry_Fault == priorityQueue

Candidates == priorityQueue \o queue

PickNextOrder_Fault ==
  /\ draining
  /\ Candidates # <<>>
  /\ LET o == Head(Candidates)
     IN BeginAttempt(o, createdOrdersMetadata[o],
                     SetDelete(priorityQueue, o), SetDelete(queue, o), mempool)
  /\ draining' = FALSE
  /\ out' = {}
  /\ UNCHANGED <<createdOrdersMetadata, eventsQueue, revoked>>

PickNextOrder ==
  /\ draining
  /\ eventsQueue = <<>>
  /\ Candidates # <<>>
  /\ LET o == Head(Candidates)
     IN BeginAttempt(o, createdOrdersMetadata[o],
                     SetDelete(priorityQueue, o), SetDelete(queue, o), mempool)
  /\ draining' = FALSE
  /\ out' = {}
  /\ UNCHANGED <<createdOrdersMetadata, eventsQueue, revoked>>

Return ==
  /\ draining
  /\ eventsQueue = <<>>
  /\ Candidates = <<>>
  /\ draining' = FALSE
  /\ out' = {}
  /\ UNCHANGED <<createdOrdersMetadata, orderQueues, eventsQueue, isLocked,
                 running, mempool, rejected, revoked>>

-----------------------------------------------------------------------------
Next ==
  \/ \E o \in OrderId, status \in CreationStatus, f \in Finalization \cup {"Absent"} :
       ReceiveCreation(o, status, f)
  \/ \E e \in Event : ReceiveEvent(e)
  \/ \E o \in OrderId : TimeoutFires(o)
  \/ \E a \in running : FinishAttempt(a)
  \/ DrainEvent
  \/ PickNextOrder
  \/ Return

(* The continuation of process() runs to completion; every awaited attempt  *)
(* settles; an armed timeout fires although other callbacks keep coming.    *)
(* Nothing is assumed of the feed.                                          *)
Fairness ==
  /\ WF_vars(DrainEvent)
  /\ WF_vars(PickNextOrder)
  /\ WF_vars(Return)
  /\ WF_vars(\E a \in running : FinishAttempt(a))
  /\ \A o \in OrderId : SF_vars(TimeoutFires(o))

Spec == Init /\ [][Next]_vars /\ Fairness

-----------------------------------------------------------------------------
(* Properties.                                                              *)

(* The orders that will be looked at again without help from the feed.      *)
Queued == ToSet(priorityQueue) \cup ToSet(queue)
Scheduled == Queued \cup mempool.trackedOrders
Taking == {a.order : a \in running}

TypeOK ==
  /\ createdOrdersMetadata \in [OrderId -> CreatedOrderMetadata \cup {None}]
  /\ priorityQueue \in Seq(OrderId)
  /\ queue \in Seq(OrderId)
  /\ eventsQueue \in Seq(Event)
  /\ isLocked \in BOOLEAN
  /\ running \subseteq Attempt
  /\ draining \in BOOLEAN
  /\ mempool \in [trackedOrders: SUBSET OrderId, timeouts: [OrderId -> Nat]]
  /\ rejected \subseteq OrderId
  /\ revoked \subseteq OrderId
  /\ out \subseteq Call

(* The assertion of getCreatedOrderMetadata (processor.ts:266) never fails, *)
(* which would end the whole process: an order that a queue, the mempool or *)
(* an outstanding attempt refers to still has its metadata, although events *)
(* delete metadata while orders wait and while an attempt is awaited.       *)
MetadataPresent == \A o \in Scheduled \cup Taking : Known(o)

(* At most one attempt of the chain is outstanding, whatever arrives during *)
(* its awaits, and the lock is held exactly then.                           *)
MutualExclusion ==
  /\ \A a, b \in running : a = b
  /\ isLocked <=> running # {}

(* A processor that waits for its next callback with the lock free has left *)
(* nothing in its three queues: only an unlock looks at them, so what stays *)
(* there when none is due waits for an unrelated event.                     *)
NoLostWakeup ==
  ~draining /\ ~isLocked => eventsQueue = <<>> /\ Queued = {}

(* A known order is queued, delayed or being attempted, unless its latest   *)
(* attempt ended in a rejection: no path through postponing, fulfilling,    *)
(* re-announcing and closing drops an order that should be tried again.     *)
NoOrderForgotten ==
  \A o \in OrderId : Known(o) /\ o \notin rejected => o \in Scheduled \cup Taking

(* Node holds exactly one timeout for a tracked order and none for another: *)
(* re-adding, deleting and firing never leave a timeout behind that would   *)
(* cut the delay of a later mempool entry short.                            *)
OneTimeoutPerOrder ==
  \A o \in OrderId : mempool.timeouts[o] = IF o \in mempool.trackedOrders THEN 1 ELSE 0

Begins(a) == a \notin running /\ a \in running'

(* No attempt begins for an order whose cancellation, fulfilment or unlock  *)
(* has already been received and waits in eventsQueue: process() drains the *)
(* events before it picks an order.                                         *)
NoAttemptOfClosedOrder ==
  [][\A a \in Attempt : Begins(a) =>
       ~\E i \in 1..Len(eventsQueue) : /\ eventsQueue[i].order = a.order
                                       /\ eventsQueue[i].status \in ClosingStatus]_vars

(* A live order whose latest announcement was a revocation is never taken:  *)
(* whatever was queued, delayed or retried before the revocation arrived,   *)
(* the next attempt sees it (processor.ts:345).  For an order first learned *)
(* from an archival event see RevokeHonoured.                               *)
RevokedLiveOrderNotTaken ==
  [][\A a \in Attempt :
       Begins(a) /\ a.order \in revoked' /\ createdOrdersMetadata'[a.order].status = "Created"
         => a.finalization = "Revoked"]_vars

(* What the comment at processor.ts:345 says of every order: a revocation   *)
(* that the feed sent as part of a Created event is handled as a revocation *)
(* by the attempt that follows it.                                          *)
RevokeHonoured ==
  [][\A a \in Attempt : Begins(a) /\ a.order \in revoked' => a.finalization = "Revoked"]_vars

(* The processor implements the abstract scheduler of TakeSchedule: one     *)
(* attempt at a time, of a known order only, and no order is forgotten      *)
(* under its own attempt.                                                   *)
Schedule == INSTANCE TakeSchedule WITH
  known <- {o \in OrderId : Known(o)}, scheduled <- Scheduled, taking <- Taking

ImplementsTakeSchedule == Schedule!Spec

(* Every event that had to wait is handled, with all the calls it asks for, *)
(* however often orders are announced again and timeouts fire.              *)
QueuedEventsHandled ==
  \A e \in Event : e \in ToSet(eventsQueue) ~> out = CallsOf(e) /\ draining

(* An order in the priority queue leaves it: re-announced and retried       *)
(* orders cannot overtake it for ever.                                      *)
PriorityOrdersServed ==
  \A o \in OrderId : o \in ToSet(priorityQueue) ~> o \notin ToSet(priorityQueue)

(* The revocation of a live order that waits in the priority queue or the   *)
(* mempool, or arrived while the order was being attempted, is eventually   *)
(* handled, unless the order is closed or announced anew.  The secondary    *)
(* queue is left out: it is looked at only when the priority queue is empty *)
(* and can wait for ever.                                                   *)
RevocationHandled ==
  \A o \in OrderId :
    o \in revoked /\ createdOrdersMetadata[o].status = "Created" ~>
      \/ o \notin revoked
      \/ [order |-> o, finalization |-> "Revoked"] \in running
      \/ o \notin ToSet(priorityQueue) \cup mempool.trackedOrders \cup Taking
=============================================================================
