----------------------------- MODULE Throughput -----------------------------
(***************************************************************************)
(* The ThroughputController of one give chain (processors/throughput.ts)   *)
(* and the attempts that use it (order-taker.ts, order-validator.ts).      *)
(* Orders of one give chain go to several take chains, whose processors    *)
(* attempt one order each and share the controller: an attempt asks it     *)
(* before the transaction and tells it after, with awaits between.         *)
(*                                                                         *)
(* Time advances in ticks, of which the windows are multiples.  A timer    *)
(* fires when its time has come, before the next tick.                     *)
(*                                                                         *)
(* Abstracted: the other checks and the estimation, which end an attempt   *)
(* without telling the controller, and the price of an order, which is     *)
(* looked up twice and taken to be the same.  Amounts are integers; those  *)
(* of the code are floating-point numbers, whose sums may drift.           *)
(***************************************************************************)
EXTENDS Integers, FiniteSetsExt

CONSTANTS
  Processor,      (* the take chains                                       *)
  OrderId,
  TakeChain,      (* of each order: the processor that attempts it         *)
  UsdValue,       (* of each order                                         *)
  Confirmations,  (* the numbers of block confirmations orders come with   *)
  Threshold,      (* the thresholds the controller is constructed with     *)
  None

ASSUME ThroughputAssumption ==
  /\ TakeChain \in [OrderId -> Processor]
  /\ UsdValue \in [OrderId -> Nat]
  /\ Confirmations \subseteq Nat
  /\ Threshold \subseteq [minBlockConfirmations: Nat, maxFulfillThroughputUSD: Nat,
                          throughputTimeWindowSec: Nat]
  /\ \A s, t \in Threshold : s.minBlockConfirmations = t.minBlockConfirmations => s = t
  /\ None \notin Threshold \cup OrderId
  /\ IsFiniteSet(Processor) /\ IsFiniteSet(OrderId) /\ OrderId # {}

VARIABLES
  orders,           (* Map: order -> the threshold it is counted in        *)
  metricOrders,     (* metric.orders of each threshold                     *)
  currentlyLocked,  (* metric.currentlyLocked of each threshold            *)
  timers,           (* the timeouts node holds: order and time left        *)
  attempts          (* of each processor: the order past its check         *)

controllerVars == <<orders, metricOrders, currentlyLocked>>
vars == <<orders, metricOrders, currentlyLocked, timers, attempts>>

Actual == {t \in Threshold : t.maxFulfillThroughputUSD > 0 /\ t.throughputTimeWindowSec > 0}
Timer == [order: OrderId, left: Nat]
Attempt == [order: OrderId, metric: Actual \cup {None}, sent: BOOLEAN]

Controller == [orders |-> orders, metricOrders |-> metricOrders,
               currentlyLocked |-> currentlyLocked]

Becomes(c) ==
  /\ orders' = c.orders
  /\ metricOrders' = c.metricOrders
  /\ currentlyLocked' = c.currentlyLocked

-----------------------------------------------------------------------------
Init ==
  /\ orders = [o \in OrderId |-> None]
  /\ metricOrders = [t \in Threshold |-> {}]
  /\ currentlyLocked = [t \in Threshold |-> 0]
  /\ timers = {}
  /\ attempts = [p \in Processor |-> None]

(* getMetric: of the thresholds the order has reached, the topmost, unless  *)
(* that one sets no limit.                                                  *)
Topmost(confirmations) ==
  LET reached == {t \in Threshold : t.minBlockConfirmations <= confirmations}
  IN {t \in reached : \A s \in reached : s.minBlockConfirmations <= t.minBlockConfirmations}

GetMetric_Fault(confirmations) ==
  IF Topmost(confirmations) = {} THEN None ELSE CHOOSE t \in Topmost(confirmations) : TRUE

GetMetric(confirmations) ==
  LET metrics == Topmost(confirmations) \cap Actual
  IN IF metrics = {} THEN None ELSE CHOOSE t \in metrics : TRUE

IsThrottled_Fault(o, metric) ==
  metric # None /\ metric.maxFulfillThroughputUSD < currentlyLocked[metric]

IsThrottled(o, metric) ==
  metric # None /\ metric.maxFulfillThroughputUSD < currentlyLocked[metric] + UsdValue[o]

(* removeOrder, of a controller.                                            *)
RemoveOrder_Fault(c, o) == c

RemoveOrder(c, o) ==
  LET metric == c.orders[o]
  IN IF metric = None THEN c
     ELSE [orders |-> [c.orders EXCEPT ![o] = None],
           metricOrders |-> [c.metricOrders EXCEPT ![metric] = @ \ {o}],
           currentlyLocked |-> [c.currentlyLocked EXCEPT ![metric] = @ - UsdValue[o]]]

ArmTimer_Fault(o, metric) ==
  IF orders[o] # None THEN timers
  ELSE timers \cup {[order |-> o, left |-> metric.throughputTimeWindowSec]}

ArmTimer(o, metric) ==
  timers \cup {[order |-> o, left |-> metric.throughputTimeWindowSec]}

(* addOrder: an order is counted once, in the range it was last added to.   *)
AddOrder(o, metric) ==
  IF metric = None THEN UNCHANGED <<controllerVars, timers>>
  ELSE LET c == RemoveOrder(Controller, o)
       IN /\ Becomes([orders |-> [c.orders EXCEPT ![o] = metric],
                      metricOrders |-> [c.metricOrders EXCEPT ![metric] = @ \cup {o}],
                      currentlyLocked |->
                        [c.currentlyLocked EXCEPT ![metric] = @ + UsdValue[o]]])
          /\ timers' = ArmTimer(o, metric)

-----------------------------------------------------------------------------
(* An attempt, take() of CreatedOrderTaker.                                 *)

(* checkThroughput lets the order pass; a throttled order is postponed and  *)
(* nothing changes.                                                         *)
CheckThroughput(o, confirmations) ==
  /\ attempts[TakeChain[o]] = None
  /\ ~IsThrottled(o, GetMetric(confirmations))
  /\ attempts' = [attempts EXCEPT ![TakeChain[o]] =
                    [order |-> o, metric |-> GetMetric(confirmations), sent |-> FALSE]]
  /\ UNCHANGED <<controllerVars, timers>>

(* attemptFulfil succeeds.                                                  *)
Fulfill(p) ==
  /\ attempts[p] # None
  /\ ~attempts[p].sent
  /\ attempts' = [attempts EXCEPT ![p].sent = TRUE]
  /\ UNCHANGED <<controllerVars, timers>>

(* A later check ends the attempt, or attemptFulfil fails and the order is  *)
(* postponed.                                                               *)
GiveUp(p) ==
  /\ attempts[p] # None
  /\ ~attempts[p].sent
  /\ attempts' = [attempts EXCEPT ![p] = None]
  /\ UNCHANGED <<controllerVars, timers>>

(* The controller is told, after the price was awaited once more.           *)
Record(p) ==
  /\ attempts[p] # None
  /\ attempts[p].sent
  /\ AddOrder(attempts[p].order, attempts[p].metric)
  /\ attempts' = [attempts EXCEPT ![p] = None]

-----------------------------------------------------------------------------
(* Time.                                                                    *)

TimerFires(tm) ==
  /\ tm.left = 0
  /\ timers' = timers \ {tm}
  /\ Becomes(RemoveOrder(Controller, tm.order))
  /\ UNCHANGED attempts

Tick ==
  /\ \A tm \in timers : tm.left > 0
  /\ timers' = {[tm EXCEPT !.left = @ - 1] : tm \in timers}
  /\ UNCHANGED <<controllerVars, attempts>>

Next ==
  \/ \E o \in OrderId, n \in Confirmations : CheckThroughput(o, n)
  \/ \E p \in Processor : Fulfill(p) \/ GiveUp(p) \/ Record(p)
  \/ \E tm \in timers : TimerFires(tm)
  \/ Tick

Spec == Init /\ [][Next]_vars

-----------------------------------------------------------------------------
(* Properties.                                                              *)

TypeOK ==
  /\ orders \in [OrderId -> Actual \cup {None}]
  /\ metricOrders \in [Threshold -> SUBSET OrderId]
  /\ currentlyLocked \in [Threshold -> Int]
  /\ timers \subseteq Timer
  /\ attempts \in [Processor -> Attempt \cup {None}]

Total(os) == MapThenSumSet(LAMBDA o : UsdValue[o], os)

(* The running total of a range is the worth of the orders counted in it,   *)
(* and an order is counted in one range: adding an order again, in another  *)
(* range, and timers of earlier entries never make it drift or go below     *)
(* zero, and the assertion of removeOrder (throughput.ts:126) holds.        *)
LockedIsTotal ==
  \A t \in Threshold :
    /\ metricOrders[t] = {o \in OrderId : orders[o] = t}
    /\ currentlyLocked[t] = Total(metricOrders[t])

(* What is counted is released again: a timer within the window of the      *)
(* range waits for every counted order.                                     *)
BudgetReleased ==
  \A o \in OrderId : orders[o] # None =>
    \E tm \in timers : tm.order = o /\ tm.left <= orders[o].throughputTimeWindowSec

(* How far several processors that passed the check together can exceed the *)
(* limit of a range: by at most the worth of one order for each other       *)
(* processor, however long they go on.                                      *)
OvershootBounded ==
  \A t \in Actual :
    currentlyLocked[t] <= t.maxFulfillThroughputUSD
      + (Cardinality(Processor) - 1) * Max({UsdValue[o] : o \in OrderId})
=============================================================================
