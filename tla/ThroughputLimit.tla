--------------------------- MODULE ThroughputLimit ---------------------------
(***************************************************************************)
(* Throughput with a record of what really happened on the take chains: an *)
(* order is fulfilled when its transaction is mined, also when the         *)
(* broadcaster had given the transaction up and reported it as failed.     *)
(***************************************************************************)
EXTENDS Throughput

VARIABLE fulfilled  (* history: what was fulfilled, and how long ago       *)

limitVars == <<vars, fulfilled>>

Fulfills(a) == fulfilled' = fulfilled \cup {[order |-> a.order, metric |-> a.metric, age |-> 0]}

LimitInit == Init /\ fulfilled = {}

LimitNext ==
  \/ \E o \in OrderId, n \in Confirmations : CheckThroughput(o, n) /\ UNCHANGED fulfilled
  \/ \E p \in Processor :
       \/ Fulfill(p) /\ Fulfills(attempts[p])
       \/ GiveUp(p) /\ (Fulfills(attempts[p]) \/ UNCHANGED fulfilled)
       \/ Record(p) /\ UNCHANGED fulfilled
  \/ \E tm \in timers : TimerFires(tm) /\ UNCHANGED fulfilled
  \/ Tick /\ fulfilled' = {[f EXCEPT !.age = @ + 1] : f \in fulfilled}

LimitSpec == LimitInit /\ [][LimitNext]_limitVars

(* The limit a range is configured with: the orders of the range fulfilled  *)
(* within its window are not worth more (README.md:246, config.ts:161).     *)
ThroughputNotExceeded ==
  \A t \in Actual :
    Total({f.order : f \in {g \in fulfilled : /\ g.metric = t
                                              /\ g.age < t.throughputTimeWindowSec}})
      <= t.maxFulfillThroughputUSD
=============================================================================
