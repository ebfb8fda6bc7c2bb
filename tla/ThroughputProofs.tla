-------------------------- MODULE ThroughputProofs --------------------------
(***************************************************************************)
(* Proofs about Throughput, for any processors, orders and thresholds.     *)
(* First the controller: what it counts, and that it is released.  Then    *)
(* the attempts that share it: how far they exceed a limit together.       *)
(***************************************************************************)
EXTENDS Throughput, SumTheorems

(* The inductive invariant of the controller.                               *)
IInv == TypeOK /\ LockedIsTotal /\ BudgetReleased

-----------------------------------------------------------------------------
(* A range that is found sets a limit.                                      *)
LEMMA GetMetricLemma ==
  ASSUME NEW n
  PROVE  GetMetric(n) \in Actual \cup {None}
<1> DEFINE metrics == Topmost(n) \cap Actual
<1>1. CASE metrics = {}
  BY <1>1 DEF GetMetric
<1>2. CASE metrics # {}
  <2>1. (CHOOSE t \in metrics : TRUE) \in metrics
    BY <1>2
  <2>2. QED
    BY <1>2, <2>1 DEF GetMetric
<1>3. QED
  BY <1>1, <1>2

(* What addOrder makes of a controller.                                     *)
Counted(c, o, metric) ==
  [orders |-> [c.orders EXCEPT ![o] = metric],
   metricOrders |-> [c.metricOrders EXCEPT ![metric] = @ \cup {o}],
   currentlyLocked |-> [c.currentlyLocked EXCEPT ![metric] = @ + UsdValue[o]]]

(* The types, and the agreement of the Map, the sets and the totals, of a   *)
(* controller.                                                              *)
ControllerOK(c) ==
  /\ c.orders \in [OrderId -> Actual \cup {None}]
  /\ c.metricOrders \in [Threshold -> SUBSET OrderId]
  /\ c.currentlyLocked \in [Threshold -> Int]
  /\ \A t \in Threshold :
       /\ c.metricOrders[t] = {o \in OrderId : c.orders[o] = t}
       /\ c.currentlyLocked[t] = SumOf(UsdValue, c.metricOrders[t])

(* The totals of the model are sums of the worths of orders.                *)
LEMMA TotalIsSum == \A os : Total(os) = SumOf(UsdValue, os)
BY DEF Total, SumOf, MapThenSumSet, MapThenFoldSet

(* The orders of a range are finitely many, and worth natural numbers.      *)
LEMMA OrdersOfRange ==
  ASSUME NEW c, ControllerOK(c), NEW t \in Threshold
  PROVE  /\ IsFiniteSet(c.metricOrders[t])
         /\ c.metricOrders[t] \subseteq OrderId
         /\ \A o \in OrderId : UsdValue[o] \in Nat
<1>1. c.metricOrders[t] \in SUBSET OrderId
  BY DEF ControllerOK
<1>2. IsFiniteSet(c.metricOrders[t])
  BY <1>1, ThroughputAssumption, FS_Subset
<1>3. QED
  BY <1>1, <1>2, ThroughputAssumption

(* removeOrder forgets the order, wherever it was counted.                  *)
LEMMA RemoveOrderLemma ==
  ASSUME NEW c, ControllerOK(c), NEW o \in OrderId
  PROVE  /\ ControllerOK(RemoveOrder(c, o))
         /\ RemoveOrder(c, o).orders = [c.orders EXCEPT ![o] = None]
<1> DEFINE metric == c.orders[o]
           r == RemoveOrder(c, o)
<1>1. CASE metric = None
  <2>1. r = c
    BY <1>1 DEF RemoveOrder
  <2>2. c.orders = [c.orders EXCEPT ![o] = None]
    BY <1>1 DEF ControllerOK
  <2>3. QED
    BY <2>1, <2>2
<1>2. CASE metric # None
  <2>1. metric \in Threshold /\ UsdValue[o] \in Int
    BY <1>2, ThroughputAssumption DEF ControllerOK, Actual
  <2>2. /\ r.orders = [c.orders EXCEPT ![o] = None]
        /\ r.metricOrders = [c.metricOrders EXCEPT ![metric] = @ \ {o}]
        /\ r.currentlyLocked = [c.currentlyLocked EXCEPT ![metric] = @ - UsdValue[o]]
    BY <1>2 DEF RemoveOrder
  <2> HIDE DEF r
  <2>3. /\ r.orders \in [OrderId -> Actual \cup {None}]
        /\ r.metricOrders \in [Threshold -> SUBSET OrderId]
        /\ r.currentlyLocked \in [Threshold -> Int]
    BY <2>1, <2>2 DEF ControllerOK
  <2>4. ASSUME NEW t \in Threshold
        PROVE  r.metricOrders[t] = {x \in OrderId : r.orders[x] = t}
    <3>1. r.orders[o] = None /\ \A x \in OrderId \ {o} : r.orders[x] = c.orders[x]
      BY <2>2 DEF ControllerOK
    <3>2. t # None
      BY ThroughputAssumption
    <3>3. {x \in OrderId : r.orders[x] = t} = {x \in OrderId : c.orders[x] = t} \ {o}
      BY <3>1, <3>2
    <3>4. r.metricOrders[t] = c.metricOrders[t] \ {o}
      <4>1. t # metric => o \notin c.metricOrders[t]
        BY DEF ControllerOK
      <4>2. QED
        BY <2>1, <2>2, <4>1 DEF ControllerOK
    <3>5. QED
      BY <3>3, <3>4 DEF ControllerOK
  <2>5. ASSUME NEW t \in Threshold
        PROVE  r.currentlyLocked[t] = SumOf(UsdValue, r.metricOrders[t])
    <3>1. CASE t = metric
      <4>1. o \in c.metricOrders[metric]
        BY <2>1 DEF ControllerOK
      <4>2. SumOf(UsdValue, c.metricOrders[metric] \ {o})
              = SumOf(UsdValue, c.metricOrders[metric]) - UsdValue[o]
        <5>1. /\ IsFiniteSet(c.metricOrders[metric])
              /\ \A x \in c.metricOrders[metric] : UsdValue[x] \in Nat
          BY <2>1, OrdersOfRange
        <5>2. QED
          BY <4>1, <5>1, SumOfRemove
      <4>3. r.metricOrders[t] = c.metricOrders[metric] \ {o}
        BY <3>1, <2>1, <2>2 DEF ControllerOK
      <4>4. r.currentlyLocked[t] = c.currentlyLocked[metric] - UsdValue[o]
        BY <3>1, <2>1, <2>2 DEF ControllerOK
      <4>5. QED
        BY <2>1, <4>2, <4>3, <4>4 DEF ControllerOK
    <3>2. CASE t # metric
      BY <3>2, <2>1, <2>2 DEF ControllerOK
    <3>3. QED
      BY <3>1, <3>2
  <2>6. QED
    BY <2>2, <2>3, <2>4, <2>5 DEF ControllerOK, r
<1>3. QED
  BY <1>1, <1>2

(* Adding an order that is not counted counts it in the given range.        *)
LEMMA CountedLemma ==
  ASSUME NEW c, ControllerOK(c), NEW o \in OrderId, c.orders[o] = None, NEW metric \in Actual
  PROVE  /\ ControllerOK(Counted(c, o, metric))
         /\ Counted(c, o, metric).orders = [c.orders EXCEPT ![o] = metric]
<1> DEFINE r == Counted(c, o, metric)
<1>1. metric \in Threshold /\ UsdValue[o] \in Int
  BY ThroughputAssumption DEF Actual
<1>2. /\ r.orders = [c.orders EXCEPT ![o] = metric]
      /\ r.metricOrders = [c.metricOrders EXCEPT ![metric] = @ \cup {o}]
      /\ r.currentlyLocked = [c.currentlyLocked EXCEPT ![metric] = @ + UsdValue[o]]
  BY DEF Counted
<1> HIDE DEF r
<1>3. /\ r.orders \in [OrderId -> Actual \cup {None}]
      /\ r.metricOrders \in [Threshold -> SUBSET OrderId]
      /\ r.currentlyLocked \in [Threshold -> Int]
  BY <1>1, <1>2 DEF ControllerOK
<1>4. ASSUME NEW t \in Threshold
      PROVE  r.metricOrders[t] = {x \in OrderId : r.orders[x] = t}
  <2>1. r.orders[o] = metric /\ \A x \in OrderId \ {o} : r.orders[x] = c.orders[x]
    BY <1>2 DEF ControllerOK
  <2>2. t # None
    BY ThroughputAssumption
  <2>3. c.metricOrders[t] = {x \in OrderId : c.orders[x] = t}
    BY DEF ControllerOK
  <2>4. CASE t = metric
    <3>1. r.metricOrders[t] = c.metricOrders[t] \cup {o}
      BY <2>4, <1>1, <1>2 DEF ControllerOK
    <3>2. QED
      BY <2>1, <2>3, <2>4, <3>1
  <2>5. CASE t # metric
    <3>1. r.metricOrders[t] = c.metricOrders[t]
      BY <2>5, <1>2 DEF ControllerOK
    <3>2. QED
      BY <2>1, <2>2, <2>3, <2>5, <3>1
  <2>6. QED
    BY <2>4, <2>5
<1>5. ASSUME NEW t \in Threshold
      PROVE  r.currentlyLocked[t] = SumOf(UsdValue, r.metricOrders[t])
  <2>1. CASE t = metric
    <3>1. o \notin c.metricOrders[metric]
      BY <1>1, ThroughputAssumption DEF ControllerOK
    <3>2. SumOf(UsdValue, c.metricOrders[metric] \cup {o})
            = SumOf(UsdValue, c.metricOrders[metric]) + UsdValue[o]
      <4>1. /\ IsFiniteSet(c.metricOrders[metric])
            /\ \A x \in c.metricOrders[metric] \cup {o} : UsdValue[x] \in Nat
        BY <1>1, OrdersOfRange
      <4>2. QED
        BY <3>1, <4>1, SumOfAdd
    <3>3. r.metricOrders[t] = c.metricOrders[metric] \cup {o}
      BY <2>1, <1>1, <1>2 DEF ControllerOK
    <3>4. r.currentlyLocked[t] = c.currentlyLocked[metric] + UsdValue[o]
      BY <2>1, <1>1, <1>2 DEF ControllerOK
    <3>5. QED
      BY <1>1, <3>2, <3>3, <3>4 DEF ControllerOK
  <2>2. CASE t # metric
    BY <2>2, <1>1, <1>2 DEF ControllerOK
  <2>3. QED
    BY <2>1, <2>2
<1>6. QED
  BY <1>2, <1>3, <1>4, <1>5 DEF ControllerOK, r

(* The invariant speaks of the controller as a whole.                       *)
LEMMA ControllerLemma == IInv => ControllerOK(Controller)
BY TotalIsSum DEF IInv, TypeOK, LockedIsTotal, ControllerOK, Controller

(* A controller that keeps the agreement is a good next state.              *)
LEMMA BecomesLemma ==
  ASSUME NEW c, ControllerOK(c), Becomes(c)
  PROVE  /\ orders' \in [OrderId -> Actual \cup {None}]
         /\ metricOrders' \in [Threshold -> SUBSET OrderId]
         /\ currentlyLocked' \in [Threshold -> Int]
         /\ LockedIsTotal'
BY TotalIsSum DEF ControllerOK, Becomes, LockedIsTotal

-----------------------------------------------------------------------------
(* The invariant holds of a new controller.                                 *)
LEMMA InitInv == Init => IInv
<1> SUFFICES ASSUME Init PROVE IInv
  OBVIOUS
<1>1. TypeOK
  BY DEF Init, TypeOK
<1>2. LockedIsTotal
  <2>1. ASSUME NEW t \in Threshold
        PROVE  metricOrders[t] = {o \in OrderId : orders[o] = t}
    BY ThroughputAssumption DEF Init
  <2>2. Total({}) = 0
    <3>1. SumOf(UsdValue, {}) = 0
      BY SumOfNat, FS_EmptySet
    <3>2. QED
      BY <3>1, TotalIsSum
  <2>3. QED
    BY <2>1, <2>2 DEF Init, LockedIsTotal
<1>3. QED
  BY <1>1, <1>2 DEF IInv, Init, BudgetReleased

(* An attempt passes the check, is fulfilled or given up.                   *)
LEMMA AttemptStep ==
  ASSUME IInv, attempts' \in [Processor -> Attempt \cup {None}],
         UNCHANGED <<controllerVars, timers>>
  PROVE  IInv'
BY DEF controllerVars, IInv, TypeOK, LockedIsTotal, BudgetReleased

(* The attempts stay well typed.                                            *)
LEMMA AttemptsTyped ==
  ASSUME IInv, NEW p \in Processor, NEW a \in Attempt \cup {None},
         attempts' = [attempts EXCEPT ![p] = a]
  PROVE  attempts' \in [Processor -> Attempt \cup {None}]
BY DEF IInv, TypeOK

(* A fulfilled order is recorded.                                           *)
LEMMA RecordStep ==
  ASSUME IInv, NEW p \in Processor, Record(p)
  PROVE  IInv'
<1> DEFINE o == attempts[p].order
           metric == attempts[p].metric
<1>1. /\ o \in OrderId /\ metric \in Actual \cup {None}
      /\ AddOrder(o, metric)
      /\ attempts' = [attempts EXCEPT ![p] = None]
  BY DEF Record, IInv, TypeOK, Attempt
<1>2. attempts' \in [Processor -> Attempt \cup {None}]
  BY <1>1, AttemptsTyped
<1> HIDE DEF o, metric
<1>3. CASE metric = None
  BY <1>1, <1>2, <1>3, AttemptStep DEF AddOrder
<1>4. CASE metric # None
  <2> DEFINE c == RemoveOrder(Controller, o)
             n == Counted(c, o, metric)
             tm == [order |-> o, left |-> metric.throughputTimeWindowSec]
  <2>1. Becomes(n) /\ timers' = timers \cup {tm}
    BY <1>1, <1>4 DEF AddOrder, ArmTimer, Counted
  <2>2. ControllerOK(c) /\ c.orders = [orders EXCEPT ![o] = None]
    BY <1>1, ControllerLemma, RemoveOrderLemma DEF Controller
  <2>3. c.orders[o] = None
    BY <2>2, <1>1 DEF IInv, TypeOK
  <2>4. metric \in Actual /\ metric.throughputTimeWindowSec \in Nat
    BY <1>1, <1>4, ThroughputAssumption DEF Actual
  <2> HIDE DEF c
  <2>5. ControllerOK(n) /\ n.orders = [c.orders EXCEPT ![o] = metric]
    <3>1. o \in OrderId /\ ControllerOK(c) /\ c.orders[o] = None /\ metric \in Actual
      BY <1>1, <2>2, <2>3, <2>4
    <3>2. ControllerOK(Counted(c, o, metric))
      BY ONLY <3>1, CountedLemma, ThroughputAssumption
    <3>3. Counted(c, o, metric).orders = [c.orders EXCEPT ![o] = metric]
      BY ONLY <3>1, CountedLemma, ThroughputAssumption
    <3>4. QED
      BY <3>2, <3>3
  <2> HIDE DEF n
  <2>6. /\ orders' \in [OrderId -> Actual \cup {None}]
        /\ metricOrders' \in [Threshold -> SUBSET OrderId]
        /\ currentlyLocked' \in [Threshold -> Int]
        /\ LockedIsTotal'
    BY <2>1, <2>5, BecomesLemma
  <2>7. orders' = [orders EXCEPT ![o] = metric]
    BY <1>1, <2>1, <2>2, <2>5 DEF Becomes, IInv, TypeOK
  <2>8. BudgetReleased'
    <3> SUFFICES ASSUME NEW x \in OrderId, orders'[x] # None
                 PROVE  \E y \in timers' : /\ y.order = x
                                           /\ y.left <= orders'[x].throughputTimeWindowSec
      BY DEF BudgetReleased
    <3>1. CASE x = o
      <4>1. orders'[x] = metric
        BY <3>1, <1>1, <2>7 DEF IInv, TypeOK
      <4>2. tm \in timers' /\ tm.order = x /\ tm.left = orders'[x].throughputTimeWindowSec
        BY <3>1, <4>1, <2>1
      <4>3. tm.left <= orders'[x].throughputTimeWindowSec
        BY <4>1, <4>2, <2>4
      <4> HIDE DEF tm
      <4>4. QED
        BY <4>2, <4>3
    <3>2. CASE x # o
      <4>1. orders'[x] = orders[x]
        BY <3>2, <2>7 DEF IInv, TypeOK
      <4>2. QED
        BY <4>1, <2>1 DEF IInv, BudgetReleased
    <3>3. QED
      BY <3>1, <3>2
  <2>9. TypeOK'
    <3>1. tm \in Timer
      BY <1>1, <2>4 DEF Timer
    <3>2. QED
      BY <3>1, <1>2, <2>1, <2>6 DEF IInv, TypeOK
  <2>10. QED
    BY <2>6, <2>8, <2>9 DEF IInv
<1>5. QED
  BY <1>3, <1>4

(* A timer fires, of the latest entry of its order or of an earlier one.    *)
LEMMA TimerFiresStep ==
  ASSUME IInv, NEW tm \in timers, TimerFires(tm)
  PROVE  IInv'
<1> DEFINE o == tm.order
           c == RemoveOrder(Controller, o)
<1>1. o \in OrderId /\ Becomes(c) /\ timers' = timers \ {tm} /\ attempts' = attempts
  BY DEF TimerFires, IInv, TypeOK, Timer
<1>2. ControllerOK(c) /\ c.orders = [orders EXCEPT ![o] = None]
  BY <1>1, ControllerLemma, RemoveOrderLemma DEF Controller
<1> HIDE DEF c
<1>3. /\ orders' \in [OrderId -> Actual \cup {None}]
      /\ metricOrders' \in [Threshold -> SUBSET OrderId]
      /\ currentlyLocked' \in [Threshold -> Int]
      /\ LockedIsTotal'
  BY <1>1, <1>2, BecomesLemma
<1>4. orders' = [orders EXCEPT ![o] = None]
  BY <1>1, <1>2 DEF Becomes
<1>5. BudgetReleased'
  <2> SUFFICES ASSUME NEW x \in OrderId, orders'[x] # None
               PROVE  \E y \in timers' : /\ y.order = x
                                         /\ y.left <= orders'[x].throughputTimeWindowSec
    BY DEF BudgetReleased
  <2>1. x # o /\ orders'[x] = orders[x]
    BY <1>1, <1>4 DEF IInv, TypeOK
  <2>2. PICK y \in timers : y.order = x /\ y.left <= orders[x].throughputTimeWindowSec
    BY <2>1 DEF IInv, BudgetReleased
  <2>3. y \in timers'
    BY <2>1, <2>2, <1>1
  <2>4. QED
    BY <2>1, <2>2, <2>3
<1>6. TypeOK'
  BY <1>1, <1>3 DEF IInv, TypeOK
<1>7. QED
  BY <1>3, <1>5, <1>6 DEF IInv

(* Time passes.                                                             *)
LEMMA TickStep ==
  ASSUME IInv, Tick
  PROVE  IInv'
<1> DEFINE aged(tm) == [tm EXCEPT !.left = @ - 1]
<1>1. /\ timers' = {aged(tm) : tm \in timers}
      /\ \A tm \in timers : tm.left > 0
      /\ UNCHANGED <<orders, metricOrders, currentlyLocked, attempts>>
  BY DEF Tick, controllerVars
<1>2. ASSUME NEW tm \in timers
      PROVE  /\ aged(tm) \in Timer
             /\ aged(tm).order = tm.order
             /\ aged(tm).left = tm.left - 1
  <2>1. tm \in Timer /\ tm.left > 0
    BY <1>1 DEF IInv, TypeOK
  <2>2. QED
    BY <2>1 DEF Timer
<1> HIDE DEF aged
<1>3. TypeOK'
  BY <1>1, <1>2 DEF IInv, TypeOK
<1>4. BudgetReleased'
  <2> SUFFICES ASSUME NEW x \in OrderId, orders[x] # None
               PROVE  \E y \in timers' : /\ y.order = x
                                         /\ y.left <= orders[x].throughputTimeWindowSec
    BY <1>1 DEF BudgetReleased
  <2>1. PICK y \in timers : y.order = x /\ y.left <= orders[x].throughputTimeWindowSec
    BY DEF IInv, BudgetReleased
  <2>2. orders[x].throughputTimeWindowSec \in Nat /\ y.left \in Nat
    BY ThroughputAssumption DEF IInv, TypeOK, Actual, Timer
  <2>3. aged(y).order = x /\ aged(y).left <= orders[x].throughputTimeWindowSec
    BY <1>2, <2>1, <2>2
  <2>4. QED
    BY <1>1, <2>3
<1>5. QED
  BY <1>1, <1>3, <1>4 DEF IInv, LockedIsTotal

(* Every step keeps the invariant.                                          *)
LEMMA NextStep == IInv /\ [Next]_vars => IInv'
<1> SUFFICES ASSUME IInv, [Next]_vars PROVE IInv'
  OBVIOUS
<1>1. ASSUME NEW o \in OrderId, NEW n \in Confirmations, CheckThroughput(o, n)
      PROVE  IInv'
  <2> DEFINE a == [order |-> o, metric |-> GetMetric(n), sent |-> FALSE]
  <2>1. a \in Attempt
    BY GetMetricLemma DEF Attempt
  <2>2. TakeChain[o] \in Processor
    BY ThroughputAssumption
  <2>3. attempts' = [attempts EXCEPT ![TakeChain[o]] = a] /\ UNCHANGED <<controllerVars, timers>>
    BY <1>1 DEF CheckThroughput
  <2> HIDE DEF a
  <2>4. QED
    BY <2>1, <2>2, <2>3, AttemptsTyped, AttemptStep
<1>2. ASSUME NEW p \in Processor, Fulfill(p)
      PROVE  IInv'
  <2> DEFINE a == [attempts[p] EXCEPT !.sent = TRUE]
  <2>1. a \in Attempt
    BY <1>2 DEF Fulfill, IInv, TypeOK, Attempt
  <2>2. attempts' = [attempts EXCEPT ![p] = a] /\ UNCHANGED <<controllerVars, timers>>
    BY <1>2 DEF Fulfill, IInv, TypeOK
  <2> HIDE DEF a
  <2>3. QED
    BY <2>1, <2>2, AttemptsTyped, AttemptStep
<1>3. ASSUME NEW p \in Processor, GiveUp(p)
      PROVE  IInv'
  BY <1>3, AttemptsTyped, AttemptStep DEF GiveUp
<1>4. ASSUME NEW p \in Processor, Record(p)
      PROVE  IInv'
  BY <1>4, RecordStep
<1>5. ASSUME NEW tm \in timers, TimerFires(tm)
      PROVE  IInv'
  BY <1>5, TimerFiresStep
<1>6. CASE Tick
  BY <1>6, TickStep
<1>7. CASE UNCHANGED vars
  BY <1>7 DEF vars, IInv, TypeOK, LockedIsTotal, BudgetReleased
<1>8. QED
  BY <1>1, <1>2, <1>3, <1>4, <1>5, <1>6, <1>7 DEF Next

(* The inductive invariant holds of every behaviour.                        *)
THEOREM Invariance == Spec => []IInv
<1>1. QED
  BY InitInv, NextStep, PTL DEF Spec

(* Type correctness of the controller and of the attempts that share it.    *)
THEOREM TypeCorrect == Spec => []TypeOK
<1>1. IInv => TypeOK
  BY DEF IInv
<1>2. QED
  BY <1>1, Invariance, PTL

(* An order is counted in one range, the one the Map names, so that the     *)
(* assertion of removeOrder holds, and the running total of a range is the  *)
(* worth of what is counted in it, however often orders are added again and *)
(* timers of earlier entries fire.                                          *)
THEOREM TotalsRight == Spec => []LockedIsTotal
<1>1. IInv => LockedIsTotal
  BY DEF IInv
<1>2. QED
  BY <1>1, Invariance, PTL

(* Whatever is counted is released within the window of its range.          *)
THEOREM BudgetsReleased == Spec => []BudgetReleased
<1>1. IInv => BudgetReleased
  BY DEF IInv
<1>2. QED
  BY <1>1, Invariance, PTL

-----------------------------------------------------------------------------
(* The attempts that share the controller.                                  *)

MaxValue == Max({UsdValue[o] : o \in OrderId})

(* What the attempts as, past their check, may still add to a range.        *)
InFlight(as, t) ==
  [p \in Processor |->
     IF as[p] # None /\ as[p].metric = t THEN UsdValue[as[p].order] ELSE 0]

Overshoot(t) == t.maxFulfillThroughputUSD + (Cardinality(Processor) - 1) * MaxValue

(* The strengthening of OvershootBounded that steps keep: the bound covers  *)
(* what is counted and what the attempts past their check will add to it.   *)
CommittedBounded ==
  \A t \in Actual :
    currentlyLocked[t] + SumOf(InFlight(attempts, t), Processor) <= Overshoot(t)

(* No order is worth more than the greatest of them.                        *)
LEMMA MaxValueLemma == MaxValue \in Nat /\ \A o \in OrderId : UsdValue[o] <= MaxValue
<1> DEFINE values == {UsdValue[o] : o \in OrderId}
<1>1. values \subseteq Nat /\ values # {}
  BY ThroughputAssumption
<1>2. IsFiniteSet(values)
  <2>1. UsdValue \in Surjection(OrderId, values)
    BY ThroughputAssumption DEF Surjection
  <2> HIDE DEF values
  <2>2. QED
    BY <2>1, ThroughputAssumption, FS_Surjection
<1> HIDE DEF values
<1>3. Max(values) \in values /\ \A y \in values : Max(values) >= y
  BY <1>1, <1>2, MaxIs
<1> USE DEF values
<1>4. QED
  BY <1>1, <1>3, ThroughputAssumption DEF MaxValue

(* The numbers of the bound.                                                *)
LEMMA OvershootLemma ==
  ASSUME NEW t \in Actual
  PROVE  /\ t \in Threshold
         /\ t.maxFulfillThroughputUSD \in Nat
         /\ Cardinality(Processor) \in Nat \ {0}
         /\ (Cardinality(Processor) - 1) * MaxValue \in Nat
         /\ Overshoot(t) = t.maxFulfillThroughputUSD + (Cardinality(Processor) - 1) * MaxValue
<1>1. t \in Threshold /\ t.maxFulfillThroughputUSD \in Nat
  BY ThroughputAssumption DEF Actual
<1>2. Cardinality(Processor) \in Nat
  BY ThroughputAssumption, FS_CardinalityType
<1>3. Processor # {}
  BY ThroughputAssumption
<1>4. Cardinality(Processor) # 0
  BY <1>3, ThroughputAssumption, FS_EmptySet
<1>5. (Cardinality(Processor) - 1) * MaxValue \in Nat
  <2>1. Cardinality(Processor) - 1 \in Nat /\ MaxValue \in Nat
    BY <1>2, <1>4, MaxValueLemma
  <2>2. \A a, b \in Nat : a * b \in Nat
    OBVIOUS
  <2>3. QED
    BY <2>1, <2>2
<1>6. QED
  BY <1>1, <1>2, <1>4, <1>5 DEF Overshoot

AttemptsOK(as) == as \in [Processor -> Attempt \cup {None}]

(* An attempt adds at most the worth of one order.                          *)
LEMMA InFlightLemma ==
  ASSUME NEW as, AttemptsOK(as), NEW t \in Actual
  PROVE  /\ \A p \in Processor : /\ InFlight(as, t)[p] \in Nat
                                 /\ InFlight(as, t)[p] <= MaxValue
         /\ SumOf(InFlight(as, t), Processor) \in Nat
<1>1. ASSUME NEW p \in Processor
      PROVE  InFlight(as, t)[p] \in Nat /\ InFlight(as, t)[p] <= MaxValue
  <2>1. CASE as[p] # None /\ as[p].metric = t
    <3>1. as[p].order \in OrderId
      BY <2>1 DEF AttemptsOK, Attempt
    <3>2. InFlight(as, t)[p] = UsdValue[as[p].order]
      BY <2>1 DEF InFlight
    <3>3. UsdValue[as[p].order] \in Nat
      BY <3>1, ThroughputAssumption
    <3>4. QED
      BY <3>1, <3>2, <3>3, MaxValueLemma
  <2>2. CASE ~ (as[p] # None /\ as[p].metric = t)
    <3>1. InFlight(as, t)[p] = 0
      BY <2>2 DEF InFlight
    <3>2. QED
      BY <3>1, MaxValueLemma
  <2>3. QED
    BY <2>1, <2>2
<1>2. SumOf(InFlight(as, t), Processor) \in Nat
  BY <1>1, ThroughputAssumption, SumOfNat
<1>3. QED
  BY <1>1, <1>2

(* A step of one processor that commits nothing new keeps the bound.        *)
LEMMA NothingNew ==
  ASSUME IInv, IInv', NEW t \in Actual, NEW p \in Processor,
         \A q \in Processor \ {p} : attempts'[q] = attempts[q],
         currentlyLocked'[t] + InFlight(attempts', t)[p]
           <= currentlyLocked[t] + InFlight(attempts, t)[p],
         currentlyLocked[t] + SumOf(InFlight(attempts, t), Processor) <= Overshoot(t)
  PROVE  currentlyLocked'[t] + SumOf(InFlight(attempts', t), Processor) <= Overshoot(t)
<1> DEFINE v == InFlight(attempts', t)
           w == InFlight(attempts, t)
<1>1. \A q \in Processor \ {p} : v[q] = w[q]
  BY DEF InFlight
<1>2. AttemptsOK(attempts) /\ AttemptsOK(attempts')
  BY DEF IInv, TypeOK, AttemptsOK
<1>3. /\ currentlyLocked[t] \in Int
      /\ currentlyLocked'[t] \in Int
  BY OvershootLemma DEF IInv, TypeOK
<1>4. /\ \A q \in Processor : v[q] \in Nat /\ w[q] \in Nat
      /\ SumOf(v, Processor) \in Nat
      /\ SumOf(w, Processor) \in Nat
  BY <1>2, InFlightLemma
<1>5. Overshoot(t) \in Int
  BY OvershootLemma
<1> HIDE DEF v, w
<1>6. SumOf(v, Processor) = SumOf(w, Processor) - w[p] + v[p]
  BY <1>1, <1>4, ThroughputAssumption, SumOfChange
<1>7. currentlyLocked'[t] + v[p] <= currentlyLocked[t] + w[p]
  BY DEF v, w
<1>8. currentlyLocked[t] + SumOf(w, Processor) <= Overshoot(t)
  BY DEF w
<1>9. currentlyLocked'[t] + SumOf(v, Processor) <= Overshoot(t)
  BY <1>3, <1>4, <1>5, <1>6, <1>7, <1>8
<1>10. QED
  BY <1>9 DEF v

(* removeOrder lowers the totals or leaves them.                            *)
LEMMA RemoveOrderLowers ==
  ASSUME NEW c, ControllerOK(c), NEW o \in OrderId, NEW t \in Threshold
  PROVE  RemoveOrder(c, o).currentlyLocked[t] <= c.currentlyLocked[t]
<1> DEFINE metric == c.orders[o]
<1>1. UsdValue[o] \in Nat /\ c.currentlyLocked[t] \in Int
  BY ThroughputAssumption DEF ControllerOK
<1>2. CASE metric = None
  BY <1>1, <1>2 DEF RemoveOrder
<1>3. CASE metric # None
  <2>1. RemoveOrder(c, o).currentlyLocked = [c.currentlyLocked EXCEPT ![metric] = @ - UsdValue[o]]
    BY <1>3 DEF RemoveOrder
  <2>2. \/ RemoveOrder(c, o).currentlyLocked[t] = c.currentlyLocked[t]
        \/ RemoveOrder(c, o).currentlyLocked[t] = c.currentlyLocked[t] - UsdValue[o]
    BY <2>1 DEF ControllerOK
  <2>3. QED
    BY <1>1, <2>2
<1>4. QED
  BY <1>2, <1>3

(* An attempt that passes the check fits the limit when it does; each of    *)
(* the other processors adds at most one order more.                        *)
LEMMA CheckCommits ==
  ASSUME IInv, IInv', CommittedBounded,
         NEW o \in OrderId, NEW n \in Confirmations, CheckThroughput(o, n)
  PROVE  CommittedBounded'
<1> DEFINE p == TakeChain[o]
           metric == GetMetric(n)
           a == [order |-> o, metric |-> metric, sent |-> FALSE]
<1>1. /\ p \in Processor
      /\ attempts[p] = None
      /\ attempts' = [attempts EXCEPT ![p] = a]
      /\ currentlyLocked' = currentlyLocked
      /\ ~IsThrottled(o, metric)
  BY ThroughputAssumption DEF CheckThroughput, controllerVars
<1>2. metric \in Actual \cup {None}
  BY GetMetricLemma
<1>3. a.order = o /\ a.metric = metric
  OBVIOUS
<1> HIDE DEF p, metric, a
<1>4. /\ attempts'[p] = a
      /\ \A q \in Processor \ {p} : attempts'[q] = attempts[q]
  BY <1>1 DEF IInv, TypeOK
<1> SUFFICES ASSUME NEW t \in Actual
             PROVE  currentlyLocked'[t] + SumOf(InFlight(attempts', t), Processor) <= Overshoot(t)
  BY DEF CommittedBounded, Overshoot, Actual
<1>5. currentlyLocked[t] + SumOf(InFlight(attempts, t), Processor) <= Overshoot(t)
  BY DEF CommittedBounded
<1>6. CASE t # metric
  <2>1. InFlight(attempts, t)[p] = 0 /\ InFlight(attempts', t)[p] = 0
    BY <1>1, <1>3, <1>4, <1>6 DEF InFlight
  <2>2. currentlyLocked[t] \in Int
    BY OvershootLemma DEF IInv, TypeOK
  <2>3. currentlyLocked'[t] + InFlight(attempts', t)[p]
          <= currentlyLocked[t] + InFlight(attempts, t)[p]
    BY <1>1, <2>1, <2>2
  <2>4. QED
    BY <1>1, <1>4, <1>5, <2>3, NothingNew
<1>7. CASE t = metric
  <2> DEFINE v == InFlight(attempts', t)
             others == Processor \ {p}
             m == MaxValue
  <2>1. /\ \A q \in Processor : v[q] \in Nat /\ v[q] <= m
        /\ SumOf(v, Processor) \in Nat
    BY InFlightLemma DEF IInv, TypeOK, AttemptsOK
  <2>2. v[p] <= UsdValue[o]
    <3>1. v[p] = UsdValue[o] \/ v[p] = 0
      BY <1>1, <1>3, <1>4, <1>7 DEF InFlight
    <3>2. UsdValue[o] \in Nat
      BY ThroughputAssumption
    <3>3. QED
      BY <3>1, <3>2
  <2>3. currentlyLocked[t] + UsdValue[o] <= t.maxFulfillThroughputUSD
    <3>1. t # None
      BY ThroughputAssumption DEF Actual
    <3>2. ~ (t.maxFulfillThroughputUSD < currentlyLocked[t] + UsdValue[o])
      BY <1>1, <1>7, <3>1 DEF IsThrottled
    <3>3. /\ t.maxFulfillThroughputUSD \in Nat /\ UsdValue[o] \in Nat
          /\ currentlyLocked[t] \in Int
      BY ThroughputAssumption, OvershootLemma DEF IInv, TypeOK
    <3>4. QED
      BY <3>2, <3>3
  <2> HIDE DEF v, m
  <2>4. m \in Nat
    BY MaxValueLemma DEF m
  <2>5. SumOf(v, others) = SumOf(v, Processor) - v[p]
    BY <1>1, <2>1, ThroughputAssumption, SumOfRemove
  <2>6. IsFiniteSet(others) /\ Cardinality(others) = Cardinality(Processor) - 1
    BY <1>1, ThroughputAssumption, FS_RemoveElement
  <2>7. SumOf(v, others) <= Cardinality(others) * m
    BY <2>1, <2>4, <2>6, SumOfAtMost
  <2>8. SumOf(v, Processor) - v[p] <= (Cardinality(Processor) - 1) * m
    BY <2>5, <2>6, <2>7
  <2>9. /\ (Cardinality(Processor) - 1) * m \in Nat
        /\ Overshoot(t) = t.maxFulfillThroughputUSD + (Cardinality(Processor) - 1) * m
        /\ t.maxFulfillThroughputUSD \in Nat
    BY OvershootLemma DEF m
  <2>10. currentlyLocked[t] \in Int /\ v[p] \in Nat /\ UsdValue[o] \in Nat
    BY <1>1, <2>1, ThroughputAssumption, OvershootLemma DEF IInv, TypeOK
  <2>11. currentlyLocked[t] + SumOf(v, Processor) <= Overshoot(t)
    BY <2>1, <2>2, <2>3, <2>8, <2>9, <2>10
  <2>12. QED
    BY <1>1, <2>11 DEF v
<1>8. QED
  BY <1>6, <1>7

(* What an attempt had in flight moves to the total when it is recorded,    *)
(* or was there already.                                                    *)
LEMMA RecordCommits ==
  ASSUME IInv, IInv', CommittedBounded, NEW p \in Processor, Record(p)
  PROVE  CommittedBounded'
<1> DEFINE o == attempts[p].order
           metric == attempts[p].metric
<1>1. /\ attempts[p] # None
      /\ o \in OrderId /\ metric \in Actual \cup {None}
      /\ AddOrder(o, metric)
      /\ attempts' = [attempts EXCEPT ![p] = None]
  BY DEF Record, IInv, TypeOK, Attempt
<1>2. /\ attempts'[p] = None
      /\ \A q \in Processor \ {p} : attempts'[q] = attempts[q]
  BY <1>1 DEF IInv, TypeOK
<1> SUFFICES ASSUME NEW t \in Actual
             PROVE  currentlyLocked'[t] + SumOf(InFlight(attempts', t), Processor) <= Overshoot(t)
  BY DEF CommittedBounded, Overshoot, Actual
<1>3. InFlight(attempts', t)[p] = 0
  BY <1>2 DEF InFlight
<1>4. InFlight(attempts, t)[p] = IF metric = t THEN UsdValue[o] ELSE 0
  BY <1>1 DEF InFlight
<1>5. /\ currentlyLocked[t] \in Int /\ currentlyLocked'[t] \in Int
      /\ UsdValue[o] \in Nat
  BY <1>1, ThroughputAssumption, OvershootLemma DEF IInv, TypeOK
<1> HIDE DEF o, metric
<1>6. currentlyLocked'[t] <= currentlyLocked[t] + IF metric = t THEN UsdValue[o] ELSE 0
  <2>1. CASE metric = None
    BY <1>1, <1>5, <2>1 DEF AddOrder, controllerVars
  <2>2. CASE metric # None
    <3> DEFINE c == RemoveOrder(Controller, o)
    <3>1. currentlyLocked' = [c.currentlyLocked EXCEPT ![metric] = @ + UsdValue[o]]
      BY <1>1, <2>2 DEF AddOrder, Becomes
    <3>2. ControllerOK(c)
      BY <1>1, ControllerLemma, RemoveOrderLemma
    <3>3. c.currentlyLocked[t] <= currentlyLocked[t]
      <4>1. ControllerOK(Controller) /\ t \in Threshold
        BY ControllerLemma, OvershootLemma
      <4>2. c.currentlyLocked[t] <= Controller.currentlyLocked[t]
        BY <1>1, <4>1, RemoveOrderLowers
      <4>3. QED
        BY <4>2 DEF Controller
    <3> HIDE DEF c
    <3>4. currentlyLocked'[t] = c.currentlyLocked[t] + IF metric = t THEN UsdValue[o] ELSE 0
      <4>1. t \in Threshold /\ c.currentlyLocked \in [Threshold -> Int]
        BY <3>2, OvershootLemma DEF ControllerOK
      <4>2. QED
        BY <3>1, <4>1
    <3>5. c.currentlyLocked[t] \in Int
      BY <3>2, OvershootLemma DEF ControllerOK
    <3>6. QED
      BY <1>5, <3>3, <3>4, <3>5
  <2>3. QED
    BY <2>1, <2>2
<1>7. currentlyLocked'[t] + InFlight(attempts', t)[p]
        <= currentlyLocked[t] + InFlight(attempts, t)[p]
  BY <1>3, <1>4, <1>5, <1>6
<1>8. QED
  BY <1>2, <1>7, NothingNew DEF CommittedBounded

(* The step of an attempt that does not reach the controller.               *)
LEMMA AttemptCommits ==
  ASSUME IInv, IInv', CommittedBounded, NEW p \in Processor, Fulfill(p) \/ GiveUp(p)
  PROVE  CommittedBounded'
<1>1. currentlyLocked' = currentlyLocked /\ \A q \in Processor \ {p} : attempts'[q] = attempts[q]
  BY DEF Fulfill, GiveUp, controllerVars, IInv, TypeOK
<1> SUFFICES ASSUME NEW t \in Actual
             PROVE  currentlyLocked'[t] + SumOf(InFlight(attempts', t), Processor) <= Overshoot(t)
  BY DEF CommittedBounded, Overshoot, Actual
<1>2. /\ InFlight(attempts, t)[p] \in Nat
      /\ currentlyLocked[t] \in Int
  BY InFlightLemma, OvershootLemma DEF IInv, TypeOK, AttemptsOK
<1>3. InFlight(attempts', t)[p] = InFlight(attempts, t)[p] \/ InFlight(attempts', t)[p] = 0
  <2>1. CASE Fulfill(p)
    <3>1. attempts[p] # None /\ attempts[p] \in Attempt
      BY <2>1 DEF Fulfill, IInv, TypeOK
    <3>2. attempts'[p] = [attempts[p] EXCEPT !.sent = TRUE]
      BY <2>1 DEF Fulfill, IInv, TypeOK
    <3>3. attempts'[p].metric = attempts[p].metric /\ attempts'[p].order = attempts[p].order
      BY <3>1, <3>2 DEF Attempt
    <3>4. QED
      BY <3>1, <3>3 DEF InFlight
  <2>2. CASE GiveUp(p)
    BY <2>2 DEF GiveUp, InFlight, IInv, TypeOK
  <2>3. QED
    BY <2>1, <2>2
<1>4. currentlyLocked'[t] + InFlight(attempts', t)[p]
        <= currentlyLocked[t] + InFlight(attempts, t)[p]
  BY <1>1, <1>2, <1>3
<1>5. QED
  BY <1>1, <1>4, NothingNew DEF CommittedBounded

(* What a timer releases is not committed any more.                         *)
LEMMA TimerCommits ==
  ASSUME IInv, IInv', CommittedBounded, NEW tm \in timers, TimerFires(tm)
  PROVE  CommittedBounded'
<1>1. /\ tm.order \in OrderId
      /\ currentlyLocked' = RemoveOrder(Controller, tm.order).currentlyLocked
      /\ attempts' = attempts
  BY DEF TimerFires, Becomes, IInv, TypeOK, Timer
<1> SUFFICES ASSUME NEW t \in Actual
             PROVE  currentlyLocked'[t] + SumOf(InFlight(attempts', t), Processor) <= Overshoot(t)
  BY DEF CommittedBounded, Overshoot, Actual
<1>2. ControllerOK(Controller) /\ t \in Threshold
  BY ControllerLemma, OvershootLemma
<1>3. currentlyLocked'[t] <= Controller.currentlyLocked[t]
  BY <1>1, <1>2, RemoveOrderLowers
<1>4. currentlyLocked'[t] <= currentlyLocked[t]
  BY <1>3 DEF Controller
<1>5. /\ currentlyLocked[t] \in Int /\ currentlyLocked'[t] \in Int
      /\ SumOf(InFlight(attempts, t), Processor) \in Nat
      /\ Overshoot(t) \in Int
  BY <1>2, OvershootLemma, InFlightLemma DEF IInv, TypeOK, AttemptsOK
<1>6. currentlyLocked[t] + SumOf(InFlight(attempts, t), Processor) <= Overshoot(t)
  BY DEF CommittedBounded
<1>7. QED
  BY <1>1, <1>4, <1>5, <1>6

(* Every step keeps the bound.                                              *)
LEMMA NextCommits == IInv /\ IInv' /\ CommittedBounded /\ [Next]_vars => CommittedBounded'
<1> SUFFICES ASSUME IInv, IInv', CommittedBounded, [Next]_vars PROVE CommittedBounded'
  OBVIOUS
<1>1. ASSUME NEW o \in OrderId, NEW n \in Confirmations, CheckThroughput(o, n)
      PROVE  CommittedBounded'
  BY <1>1, CheckCommits
<1>2. ASSUME NEW p \in Processor, Fulfill(p) \/ GiveUp(p)
      PROVE  CommittedBounded'
  BY <1>2, AttemptCommits
<1>3. ASSUME NEW p \in Processor, Record(p)
      PROVE  CommittedBounded'
  BY <1>3, RecordCommits
<1>4. ASSUME NEW tm \in timers, TimerFires(tm)
      PROVE  CommittedBounded'
  BY <1>4, TimerCommits
<1>5. CASE Tick \/ UNCHANGED vars
  <2>1. currentlyLocked' = currentlyLocked /\ attempts' = attempts
    BY <1>5 DEF Tick, vars, controllerVars
  <2>2. QED
    BY <2>1 DEF CommittedBounded, Overshoot, Actual
<1>6. QED
  BY <1>1, <1>2, <1>3, <1>4, <1>5 DEF Next

(* The bound holds before anything is committed.                            *)
LEMMA InitCommits == Init => CommittedBounded
<1> SUFFICES ASSUME Init, NEW t \in Actual
             PROVE  currentlyLocked[t] + SumOf(InFlight(attempts, t), Processor) <= Overshoot(t)
  BY DEF CommittedBounded
<1> DEFINE w == InFlight(attempts, t)
<1>1. currentlyLocked[t] = 0
  BY OvershootLemma DEF Init
<1>2. \A p \in Processor : w[p] = 0
  BY DEF Init, InFlight
<1> HIDE DEF w
<1>3. SumOf(w, Processor) \in Nat /\ SumOf(w, Processor) <= Cardinality(Processor) * 0
  BY <1>2, ThroughputAssumption, SumOfNat, SumOfAtMost
<1>4. SumOf(w, Processor) = 0
  BY <1>3, OvershootLemma
<1>5. Overshoot(t) \in Nat
  BY OvershootLemma
<1>6. QED
  BY <1>1, <1>4, <1>5 DEF w

(* Processors that passed the check together exceed the limit of a range by *)
(* at most the worth of one order for each of the others, however many      *)
(* they are, however long they go on, and whatever the limits.              *)
THEOREM OvershootIsBounded == Spec => []OvershootBounded
<1>1. IInv /\ CommittedBounded => OvershootBounded
  <2> SUFFICES ASSUME IInv, CommittedBounded, NEW t \in Actual
               PROVE  currentlyLocked[t] <= Overshoot(t)
    BY DEF OvershootBounded, Overshoot, MaxValue
  <2>1. /\ currentlyLocked[t] \in Int
        /\ SumOf(InFlight(attempts, t), Processor) \in Nat
        /\ Overshoot(t) \in Int
    BY OvershootLemma, InFlightLemma DEF IInv, TypeOK, AttemptsOK
  <2>2. QED
    BY <2>1 DEF CommittedBounded
<1>2. QED
  BY <1>1, InitCommits, NextCommits, Invariance, PTL DEF Spec
=============================================================================
