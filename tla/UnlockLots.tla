------------------------------ MODULE UnlockLots ------------------------------
(***************************************************************************)
(* What a BatchUnlocker promises about unlocking, without its pools, its   *)
(* lock and what it reads on the way: an order it holds is held until it   *)
(* is unlocked on the chain or the process ends, and orders are unlocked   *)
(* in lots of one give chain, of held orders only, one lot at a time.      *)
(***************************************************************************)
CONSTANTS OrderId, GiveChain

VARIABLES
  state,  (* of each order, on the chain                                   *)
  held,   (* the orders the unlocker answers for                           *)
  lot,    (* the orders of the transaction on its way; none without one    *)
  late    (* lots that were given up and may still be mined                *)

lotVars == <<state, held, lot, late>>

Init ==
  /\ state = [o \in OrderId |-> "Open"]
  /\ held = {}
  /\ lot = {}
  /\ late = {}

Fulfill(o) ==
  /\ state[o] = "Open"
  /\ \E s \in {"Ours", "Theirs"} : state' = [state EXCEPT ![o] = s]
  /\ UNCHANGED <<held, lot, late>>

(* Only an order that this taker fulfilled is held.                         *)
Hold(o) ==
  /\ state[o] \in {"Ours", "UnlockSent"}
  /\ held' = held \cup {o}
  /\ UNCHANGED <<state, lot, late>>

Send(ids) ==
  /\ lot = {}
  /\ ids # {}
  /\ \A o \in ids : \A p \in ids : GiveChain[o] = GiveChain[p]
  /\ lot' = ids
  /\ UNCHANGED <<state, held, late>>

(* A lot is unlocked as a whole, each of its orders for the first time.     *)
Unlock(ids) ==
  /\ \A o \in ids : state[o] = "Ours"
  /\ state' = [o \in OrderId |-> IF o \in ids THEN "UnlockSent" ELSE state[o]]

(* Orders are released when they are unlocked.                              *)
Release(ids) ==
  /\ \A o \in ids : state'[o] = "UnlockSent"
  /\ held' = held \ ids

(* The transaction succeeds: nothing of it stays held.                      *)
Confirm ==
  /\ lot # {}
  /\ Unlock(lot)
  /\ \E ids \in SUBSET held : lot \subseteq ids /\ Release(ids)
  /\ lot' = {}
  /\ UNCHANGED late

(* It is given up, and may be mined when nobody waits for it any more.      *)
GiveUp ==
  /\ lot # {}
  /\ lot' = {}
  /\ late' \in {late, late \cup {lot}}
  /\ UNCHANGED state

Fail == GiveUp /\ \E ids \in SUBSET held : Release(ids)

MinedLate(ids) ==
  /\ Unlock(ids)
  /\ late' = late \ {ids}
  /\ UNCHANGED <<held, lot>>

(* The process ends and starts again.                                       *)
Forget ==
  /\ held' = {}
  /\ \/ GiveUp
     \/ lot = {} /\ UNCHANGED <<state, lot, late>>

Next ==
  \/ \E o \in OrderId : Fulfill(o) \/ Hold(o)
  \/ \E ids \in SUBSET held : Send(ids)
  \/ Confirm
  \/ Fail
  \/ \E ids \in late : MinedLate(ids)
  \/ Forget

Spec == Init /\ [][Next]_lotVars
=============================================================================
