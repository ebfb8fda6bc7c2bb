----------------------------- MODULE TvlBudget ------------------------------
(***************************************************************************)
(* The TVLBudgetController of every chain (processors/                     *)
(* TVLBudgetController.ts) and what it reads (DataStore.ts).  The TVL is   *)
(* computed with three requests, one after the other, and the promise of   *)
(* the computation is what is cached: whoever asks while it runs, or       *)
(* later, waits for the same one, until the cache is flushed or, after 30  *)
(* minutes, lets go of it.                                                 *)
(*                                                                         *)
(* External: the accounts and the API that lists the orders to unlock.     *)
(* The API lists an order some time after it was fulfilled, and no longer  *)
(* when it was claimed: its worth is then in the beneficiary's account.    *)
(* Abstracted: the pages of the API, of 100 orders.                        *)
(***************************************************************************)
EXTENDS Executor

CONSTANTS
  PromiseId,  (* a promise for every processor that waits, and a cached one *)
  Reserve     (* of each chain: the worth of its account, in cents          *)

Phase == {"taker", "beneficiary", "pending", "done", "failed"}

(* claimedBefore and flushed are history variables.                         *)
Promise == [chain: Configured, phase: Phase, counted: SUBSET OrderId,
            claimedBefore: SUBSET OrderId, flushed: BOOLEAN]

ASSUME TvlAssumption ==
  /\ IsFiniteSet(Configured) /\ IsFiniteSet(PromiseId)
  /\ Cardinality(PromiseId) >= 2 * Cardinality(Configured)
  /\ None \notin PromiseId /\ None \notin Promise

VARIABLES
  cache,      (* of each chain: the cached promise                          *)
  promises,
  ledger      (* of each order: open, lost to a rival or cancelled,         *)
              (* fulfilled, indexed by the API, claimed                     *)

tvlVars == <<cache, promises>>

TvlInit ==
  /\ cache = [c \in Configured |-> None]
  /\ promises = [i \in PromiseId |-> None]
  /\ ledger = [o \in OrderId |-> "open"]

From(c, status) == {o \in OrderId : Give(o).chainId = c /\ ledger[o] = status}

HasSeparateUnlockBeneficiary(c) == FulfillAuthority(c) # Definition[c].beneficiary

Running(i) == promises[i] # None /\ promises[i].phase \notin {"done", "failed"}

-----------------------------------------------------------------------------
(* getCurrentTVL, as functions of the cache: the promise it answers with,   *)
(* and what becomes of the state.  Unused promises are gone.                *)

Fresh == CHOOSE i \in PromiseId : promises[i] = None

Computation(c) ==
  [chain |-> c, phase |-> "taker", counted |-> {}, claimedBefore |-> From(c, "claimed"),
   flushed |-> FALSE]

CachedOrFresh_Fault(c) == Fresh

CachedOrFresh(c) == IF cache[c] # None THEN cache[c] ELSE Fresh

Ask(c) ==
  LET i == CachedOrFresh(c)
  IN /\ cache' = [cache EXCEPT ![c] = i]
     /\ promises' = IF promises[i] # None THEN promises
                    ELSE [promises EXCEPT ![i] = Computation(c)]

(* A promise nobody waits for and that is not cached is forgotten; awaited  *)
(* are those processors wait for.                                           *)
Drop(held, awaited, ps) ==
  [i \in PromiseId |->
     IF ps[i] = None \/ i \in awaited \cup {held[c] : c \in Configured} THEN ps[i] ELSE None]

FlushCache_Fault(cs) == cache

FlushCache(cs) == [c \in Configured |-> IF c \in cs THEN None ELSE cache[c]]

(* flushCache of the given chains.                                          *)
Flush(cs, awaited) ==
  /\ cache' = FlushCache(cs)
  /\ promises' = Drop(cache', awaited,
       [i \in PromiseId |->
          IF promises[i] # None /\ promises[i].chain \in cs
          THEN [promises[i] EXCEPT !.flushed = TRUE] ELSE promises[i]])

-----------------------------------------------------------------------------
(* calculateCurrentTVL.                                                     *)

Reads(i, from, to, orders) ==
  /\ promises[i] # None
  /\ promises[i].phase = from
  /\ promises' = [promises EXCEPT ![i].phase = to, ![i].counted = @ \cup orders]
  /\ UNCHANGED <<cache, ledger>>

(* An account holds the worth of the orders that were claimed to it.        *)
TakerAccountBalance(i) ==
  LET c == promises[i].chain
  IN Reads(i, "taker", "beneficiary",
           IF HasSeparateUnlockBeneficiary(c) THEN {} ELSE From(c, "claimed"))

UnlockBeneficiaryAccountBalance(i) ==
  LET c == promises[i].chain
  IN Reads(i, "beneficiary", "pending",
           IF HasSeparateUnlockBeneficiary(c) THEN From(c, "claimed") ELSE {})

PendingUnlockOrders(i) ==
  Reads(i, "pending", "done", From(promises[i].chain, "indexed"))

(* The promise is rejected, and stays cached.                               *)
ReadFails(i) ==
  /\ Running(i)
  /\ promises' = [promises EXCEPT ![i].phase = "failed"]
  /\ UNCHANGED <<cache, ledger>>

Tvl(i) == Reserve[promises[i].chain] + MapThenSumSet(GetUsdValue, promises[i].counted)
=============================================================================
