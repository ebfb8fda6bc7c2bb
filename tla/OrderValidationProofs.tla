------------------------ MODULE OrderValidationProofs ------------------------
(***************************************************************************)
(* Proofs about OrderValidation and the TVL its attempts share, for any    *)
(* configuration, orders and answers.                                      *)
(***************************************************************************)
EXTENDS OrderValidation, FiniteSetTheorems, TLAPS

-----------------------------------------------------------------------------
(* The invariant of the attempts.  What a check established is kept with    *)
(* the stages after it: the order stays known and announced at least as     *)
(* final as it was, its range accepts it, and the payload has, at each      *)
(* stage, exactly the entries that were set on the way.                     *)

Status == {"open", "lost", "fulfilled", "indexed", "claimed"}
Known == [arrivedAt: 0..MaxTime, finalization: Finalization, ready: BOOLEAN]
Early == {"order", "status", "funds", "tvl", "await", "constraints", "rough"}
Late == {"rough", "evm", "recheck", "estimate", "fulfil"}

(* An order of which finalization f was known has been announced with g.    *)
Reached(f, g) == g # None /\ (g = Finalized \/ (f # Finalized /\ f <= g))

GasLimitSet(p) == IF Evm(p) THEN {"gasLimit"} ELSE {}

Prepared(p, a) ==
  /\ a.at \in Early => a.payload = {}
  /\ a.at = "evm" => Evm(p) /\ a.payload = RoughSwap(a.order)
  /\ a.at \in {"recheck", "estimate"} => a.payload = RoughSwap(a.order) \cup GasLimitSet(p)
  /\ a.at = "fulfil" => /\ RequiresSwap(a.order) => "preFulfillSwap" \in a.payload
                        /\ Evm(p) => {"gasLimit", "estimatedFee"} \subseteq a.payload

Sound(p, a) ==
  /\ a \in Attempt
  /\ Take(a.order).chainId = p
  /\ known[a.order] # None
  /\ Reached(a.finalization, announced[a.order])
  /\ a.at \in Late => AcceptsUnfinalized(a.order, a.finalization)
  /\ Prepared(p, a)
  /\ a.at = "await" <=> a.promise # None

WorldOK ==
  /\ ledger \in [OrderId -> Status]
  /\ now \in 0..MaxTime
  /\ announced \in [OrderId -> Finalization \cup {None}]
  /\ reported \subseteq OrderId

KnownOK ==
  /\ known \in [OrderId -> Known \cup {None}]
  /\ \A o \in OrderId : known[o] # None => Reached(known[o].finalization, announced[o])

AttemptsOK ==
  /\ attempts \in [Configured -> Attempt \cup {None}]
  /\ \A p \in Configured : attempts[p] # None => Sound(p, attempts[p])

Base == WorldOK /\ KnownOK /\ AttemptsOK /\ broken = None

LEMMA ChainsConfigured ==
  ASSUME NEW o \in OrderId
  PROVE  Give(o).chainId \in Configured /\ Take(o).chainId \in Configured
BY ValidationAssumption DEF Dispatched, Give, Take

LEMMA InitBase == Init => Base
BY ValidationAssumption
   DEF Init, TvlInit, Base, WorldOK, KnownOK, AttemptsOK, Status

(* An attempt that goes on soundly keeps the invariant.                     *)
LEMMA GoesOn ==
  ASSUME Base, NEW p \in Configured, NEW a, Sound(p, a),
         attempts' = [attempts EXCEPT ![p] = a],
         UNCHANGED <<known, now, announced, reported, broken>>,
         ledger' \in [OrderId -> Status]
  PROVE  Base'
<1>1. a \in Attempt
  BY DEF Sound
<1>2. \A q \in Configured : attempts'[q] = IF q = p THEN a ELSE attempts[q]
  BY DEF Base, AttemptsOK
<1>3. \A q \in Configured : \A b : Sound(q, b) => Sound(q, b)'
  BY DEF Sound, Prepared
<1>4. AttemptsOK'
  BY <1>1, <1>2, <1>3 DEF Base, AttemptsOK
<1>5. QED
  BY <1>4 DEF Base, WorldOK, KnownOK

(* So does one that ends, whatever becomes known of its order.              *)
LEMMA Ends ==
  ASSUME Base, NEW p \in Configured, attempts[p] # None,
         attempts' = [attempts EXCEPT ![p] = None],
         NEW k \in Known \cup {None},
         k # None => Reached(k.finalization, announced[attempts[p].order]),
         known' = [known EXCEPT ![attempts[p].order] = k],
         UNCHANGED <<now, announced, reported, broken>>,
         ledger' \in [OrderId -> Status]
  PROVE  Base'
<1> DEFINE o == attempts[p].order
<1>1. o \in OrderId /\ Take(o).chainId = p
  BY DEF Base, AttemptsOK, Sound, Attempt
<1>2. \A q \in Configured : attempts'[q] = IF q = p THEN None ELSE attempts[q]
  BY DEF Base, AttemptsOK
<1>3. \A x \in OrderId : known'[x] = IF x = o THEN k ELSE known[x]
  BY <1>1 DEF Base, KnownOK
<1>4. KnownOK'
  BY <1>1, <1>3 DEF Base, KnownOK
<1>5. \A q \in Configured : attempts'[q] # None => Sound(q, attempts[q])'
  <2> SUFFICES ASSUME NEW q \in Configured, attempts'[q] # None
               PROVE  Sound(q, attempts[q])'
    OBVIOUS
  <2>1. attempts'[q] = attempts[q] /\ q # p /\ Sound(q, attempts[q])
    BY <1>2 DEF Base, AttemptsOK
  <2>2. attempts[q].order \in OrderId /\ attempts[q].order # o
    BY <1>1, <2>1 DEF Sound, Attempt
  <2>3. QED
    BY <1>3, <2>1, <2>2 DEF Sound, Prepared
<1>6. AttemptsOK'
  BY <1>2, <1>5 DEF Base, AttemptsOK
<1>7. QED
  BY <1>4, <1>6 DEF Base, WorldOK

LEMMA RejectBase ==
  ASSUME Base, NEW p \in Configured, attempts[p] # None, Reject(p),
         UNCHANGED <<now, announced, reported, broken>>, ledger' \in [OrderId -> Status]
  PROVE  Base'
<1> DEFINE o == attempts[p].order
<1>1. o \in OrderId
  BY DEF Base, AttemptsOK, Sound, Attempt
<1>2. /\ known[o] \in Known \cup {None}
      /\ known[o] # None => Reached(known[o].finalization, announced[o])
      /\ known' = [known EXCEPT ![o] = known[o]]
  BY <1>1 DEF Base, KnownOK, Reject
<1>3. QED
  BY <1>2, Ends DEF Reject

LEMMA PostponeBase ==
  ASSUME Base, NEW p \in Configured, attempts[p] # None, Postpone(p),
         UNCHANGED <<now, announced, reported, broken>>, ledger' \in [OrderId -> Status]
  PROVE  Base'
<1> DEFINE o == attempts[p].order
           k == [known[o] EXCEPT !.ready = TRUE]
<1>1. o \in OrderId /\ known[o] # None
  BY DEF Base, AttemptsOK, Sound, Attempt
<1>2. known[o] \in Known /\ Reached(known[o].finalization, announced[o])
  BY <1>1 DEF Base, KnownOK
<1>3. k \in Known /\ k.finalization = known[o].finalization
  BY <1>2 DEF Known
<1>4. known' = [known EXCEPT ![o] = k]
  BY DEF Postpone
<1> HIDE DEF k
<1>5. QED
  BY <1>2, <1>3, <1>4, Ends DEF Postpone

-----------------------------------------------------------------------------
(* The attempts under the events of the feed and the world.                 *)

LEMMA SoundUnder ==
  ASSUME NEW p \in Configured, NEW a, Sound(p, a),
         known'[a.order] # None,
         Reached(a.finalization, announced'[a.order])
  PROVE  Sound(p, a)'
BY DEF Sound, Prepared

LEMMA CreatedBase ==
  ASSUME Base, NEW o \in OrderId, NEW f \in Finalization, Created(o, f)
  PROVE  Base'
<1>1. /\ announced' = [announced EXCEPT ![o] = f]
      /\ known' = [known EXCEPT ![o] = Metadata(o, f)]
      /\ UNCHANGED <<ledger, now, reported, attempts, broken>>
      /\ Later(f, announced[o])
  BY DEF Created
<1>2. f # None /\ None \notin Finalization
  BY ValidationAssumption
<1>3. \A x \in OrderId : announced'[x] = IF x = o THEN f ELSE announced[x]
  BY <1>1 DEF Base, WorldOK
<1>4. \A x \in OrderId : known'[x] = IF x = o THEN Metadata(o, f) ELSE known[x]
  BY <1>1 DEF Base, KnownOK
<1>5. Metadata(o, f) \in Known /\ Metadata(o, f).finalization = f
  <2>1. (IF known[o] = None THEN now ELSE known[o].arrivedAt) \in 0..MaxTime
    BY DEF Base, KnownOK, WorldOK, Known
  <2>2. QED
    BY <2>1 DEF Metadata, Known
<1>6. Reached(f, f)
  BY <1>2, ValidationAssumption DEF Reached
<1>7. \A g \in Finalization : Reached(g, announced[o]) => Reached(g, f)
  <2> SUFFICES ASSUME NEW g \in Finalization, Reached(g, announced[o]) PROVE Reached(g, f)
    OBVIOUS
  <2>1. announced[o] \in Finalization /\ announced[o] # Finalized
    BY <1>1 DEF Base, WorldOK, Reached, Later
  <2>2. g # Finalized /\ g <= announced[o]
    BY <2>1 DEF Reached
  <2>3. CASE f = Finalized
    BY <1>2, <2>3 DEF Reached
  <2>4. CASE f # Finalized
    <3>1. f \in Nat /\ g \in Nat /\ announced[o] \in Nat
      BY <2>1, <2>2, <2>4, ValidationAssumption
    <3>2. f > announced[o]
      BY <1>1, <2>1, <2>4 DEF Later, Base, WorldOK, Reached
    <3>3. QED
      BY <1>2, <2>2, <3>1, <3>2 DEF Reached
  <2>5. QED
    BY <2>3, <2>4
<1>8. KnownOK'
  <2>1. known' \in [OrderId -> Known \cup {None}]
    BY <1>1, <1>5 DEF Base, KnownOK
  <2>2. QED
    BY <1>3, <1>4, <1>5, <1>6, <2>1 DEF Base, KnownOK
<1>9. AttemptsOK'
  <2> SUFFICES ASSUME NEW q \in Configured, attempts[q] # None
               PROVE  Sound(q, attempts[q])'
    BY <1>1 DEF Base, AttemptsOK
  <2> DEFINE x == attempts[q].order
  <2>1. Sound(q, attempts[q]) /\ x \in OrderId /\ attempts[q].finalization \in Finalization
    BY DEF Base, AttemptsOK, Sound, Attempt
  <2>2. Metadata(o, f) # None
    BY <1>5, ValidationAssumption DEF Known
  <2>3. known'[x] # None
    BY <1>4, <2>1, <2>2 DEF Sound
  <2>4. Reached(attempts[q].finalization, announced'[x])
    BY <1>3, <1>7, <2>1 DEF Sound
  <2>5. QED
    BY <2>1, <2>3, <2>4, <1>1, SoundUnder
<1>10. WorldOK'
  BY <1>1 DEF Base, WorldOK
<1>11. QED
  BY <1>1, <1>8, <1>9, <1>10 DEF Base

LEMMA ClosesBase ==
  ASSUME Base, NEW o \in OrderId, Closes(o), reported' \in SUBSET OrderId,
         UNCHANGED <<now, announced, attempts, broken>>
  PROVE  Base'
<1>1. /\ attempts[Take(o).chainId] = None
      /\ known' = [known EXCEPT ![o] = None]
      /\ \E status \in Status : ledger' = [ledger EXCEPT ![o] = status]
  BY DEF Closes, Base, WorldOK, Status
<1>2. \A x \in OrderId : known'[x] = IF x = o THEN None ELSE known[x]
  BY <1>1 DEF Base, KnownOK
<1>3. KnownOK'
  BY <1>1, <1>2 DEF Base, KnownOK
<1>4. AttemptsOK'
  <2> SUFFICES ASSUME NEW q \in Configured, attempts[q] # None
               PROVE  Sound(q, attempts[q])'
    BY <1>1 DEF Base, AttemptsOK
  <2>1. Sound(q, attempts[q]) /\ attempts[q].order \in OrderId
    BY DEF Base, AttemptsOK, Sound, Attempt
  <2>2. attempts[q].order # o
    BY <1>1, <2>1 DEF Sound
  <2>3. QED
    BY <1>1, <1>2, <2>1, <2>2, SoundUnder DEF Sound
<1>5. ledger' \in [OrderId -> Status]
  BY <1>1 DEF Base, WorldOK
<1>6. QED
  BY <1>3, <1>4, <1>5 DEF Base, WorldOK

LEMMA FulfilledBase ==
  ASSUME Base, NEW o \in OrderId, Fulfilled(o)
  PROVE  Base'
<1>1. reported' \in SUBSET OrderId
  BY DEF Fulfilled, Base, WorldOK
<1>2. QED
  BY <1>1, ClosesBase DEF Fulfilled

LEMMA CancelledBase ==
  ASSUME Base, NEW o \in OrderId, Cancelled(o)
  PROVE  Base'
<1>1. reported' \in SUBSET OrderId
  BY DEF Cancelled, Base, WorldOK
<1>2. QED
  BY <1>1, ClosesBase DEF Cancelled

LEMMA TakeOrderBase ==
  ASSUME Base, NEW o \in OrderId, TakeOrder(o)
  PROVE  Base'
<1> DEFINE p == Take(o).chainId
           k == [known[o] EXCEPT !.ready = FALSE]
<1>0. PICK a : a = [order |-> o, finalization |-> known[o].finalization, at |-> "order",
                    payload |-> {}, promise |-> None, reported |-> {}]
  OBVIOUS
<1>1. /\ attempts[p] = None /\ known[o] # None
      /\ known' = [known EXCEPT ![o] = k]
      /\ attempts' = [attempts EXCEPT ![p] = a]
      /\ UNCHANGED <<ledger, now, announced, reported, broken>>
  BY <1>0 DEF TakeOrder
<1>2. p \in Configured
  BY ChainsConfigured
<1>3. known[o] \in Known /\ Reached(known[o].finalization, announced[o])
  BY <1>1 DEF Base, KnownOK
<1>4. k \in Known /\ k.finalization = known[o].finalization /\ k # None
  <2>1. k \in Known /\ k.finalization = known[o].finalization
    BY <1>3 DEF Known
  <2>2. QED
    BY <2>1, ValidationAssumption DEF Known
<1>5. /\ a \in Attempt /\ a.order = o /\ a.finalization = known[o].finalization
      /\ a.at = "order" /\ a.payload = {} /\ a.promise = None
  BY <1>0, <1>3 DEF Attempt, Known, Stage
<1> HIDE DEF k
<1>6. /\ \A x \in OrderId : known'[x] = IF x = o THEN k ELSE known[x]
      /\ \A q \in Configured : attempts'[q] = IF q = p THEN a ELSE attempts[q]
  BY <1>1 DEF Base, KnownOK, AttemptsOK
<1>7. KnownOK'
  BY <1>1, <1>3, <1>4, <1>6 DEF Base, KnownOK
<1>8. Sound(p, a)'
  BY <1>1, <1>3, <1>4, <1>5, <1>6 DEF Sound, Prepared, Early, Late
<1>9. \A q \in Configured : q # p /\ attempts[q] # None => Sound(q, attempts[q])'
  <2> SUFFICES ASSUME NEW q \in Configured, q # p, attempts[q] # None
               PROVE  Sound(q, attempts[q])'
    OBVIOUS
  <2>1. Sound(q, attempts[q]) /\ attempts[q].order \in OrderId
    BY DEF Base, AttemptsOK, Sound, Attempt
  <2>2. QED
    BY <1>1, <1>4, <1>6, <2>1, SoundUnder DEF Sound
<1>10. AttemptsOK'
  <2>1. attempts' \in [Configured -> Attempt \cup {None}]
    BY <1>1, <1>2, <1>5 DEF Base, AttemptsOK
  <2>2. ASSUME NEW q \in Configured, attempts'[q] # None
        PROVE  \A b : b = attempts'[q] => Sound(q, b)'
    BY <1>6, <1>8, <1>9, <2>2
  <2>3. QED
    BY <2>1, <2>2 DEF AttemptsOK
<1>11. QED
  BY <1>1, <1>7, <1>10 DEF Base, WorldOK

(* What the feed, the world and the TVL do besides leaves attempts alone.   *)
LEMMA WorldBase ==
  ASSUME Base, UNCHANGED <<announced, reported, known, attempts, broken>>,
         now' \in 0..MaxTime, ledger' \in [OrderId -> Status]
  PROVE  Base'
<1>1. AttemptsOK'
  <2> SUFFICES ASSUME NEW q \in Configured, attempts[q] # None
               PROVE  Sound(q, attempts[q])'
    BY DEF Base, AttemptsOK
  <2>1. QED
    BY SoundUnder DEF Base, AttemptsOK, Sound
<1>2. QED
  BY <1>1 DEF Base, WorldOK, KnownOK

-----------------------------------------------------------------------------
(* The attempts under their own steps.                                      *)

LEMMA AttemptLemma ==
  ASSUME Base, NEW p \in Configured, attempts[p] # None
  PROVE  /\ attempts[p] \in Attempt
         /\ Sound(p, attempts[p])
         /\ attempts[p].order \in OrderId
         /\ attempts[p].finalization \in Finalization
BY DEF Base, AttemptsOK, Sound, Attempt

(* A stage where nothing is prepared yet, and another.                      *)
LEMMA ProceedBase ==
  ASSUME Base, NEW p \in Configured, NEW from \in Early \ {"await"}, NEW to \in Early \ {"await"},
         At(p, from), Proceed(p, to),
         to \in Late => AcceptsUnfinalized(attempts[p].order, attempts[p].finalization),
         UNCHANGED <<known, now, announced, reported, broken, ledger>>
  PROVE  Base'
<1>1. PICK a : a = [attempts[p] EXCEPT !.at = to]
  OBVIOUS
<1>2. attempts[p] # None /\ attempts[p].at = from
  BY DEF At
<1>3. attempts[p] \in Attempt /\ Sound(p, attempts[p])
  BY <1>2, AttemptLemma
<1>4. /\ a \in Attempt /\ a.at = to /\ a.order = attempts[p].order
      /\ a.finalization = attempts[p].finalization /\ a.payload = attempts[p].payload
      /\ a.promise = attempts[p].promise
  BY <1>1, <1>3 DEF Attempt, Stage, Early
<1>5. Sound(p, a)
  BY <1>2, <1>3, <1>4 DEF Sound, Prepared, Early, Late
<1>6. attempts' = [attempts EXCEPT ![p] = a]
  BY <1>1 DEF Proceed
<1>7. ledger' \in [OrderId -> Status]
  BY DEF Base, WorldOK
<1>8. QED
  BY <1>5, <1>6, <1>7, GoesOn

LEMMA CheckOrderBase ==
  ASSUME Base, NEW p \in Configured, CheckOrder(p)
  PROVE  Base'
<1>1. /\ attempts[p] # None /\ ledger' \in [OrderId -> Status]
      /\ UNCHANGED <<now, announced, reported, broken, ledger>>
  BY DEF CheckOrder, At, untouched, Base, WorldOK
<1>2. CASE Reject(p)
  BY <1>1, <1>2, RejectBase
<1>3. CASE ~Reject(p)
  <2>1. At(p, "order") /\ Proceed(p, "status") /\ UNCHANGED known
    BY <1>3 DEF CheckOrder
  <2>2. QED
    BY <1>1, <2>1, ProceedBase DEF Early, Late
<1>4. QED
  BY <1>2, <1>3

LEMMA CheckStatusBase ==
  ASSUME Base, NEW p \in Configured, CheckStatus(p, "status", "funds")
  PROVE  Base'
<1>1. /\ attempts[p] # None /\ ledger' \in [OrderId -> Status]
      /\ UNCHANGED <<now, announced, reported, broken, ledger>>
  BY DEF CheckStatus, At, untouched, Base, WorldOK
<1>2. CASE Reject(p)
  BY <1>1, <1>2, RejectBase
<1>3. CASE Postpone(p)
  BY <1>1, <1>3, PostponeBase
<1>4. CASE ~Reject(p) /\ ~Postpone(p)
  <2>1. At(p, "status") /\ Proceed(p, "funds") /\ UNCHANGED known
    BY <1>4 DEF CheckStatus
  <2>2. QED
    BY <1>1, <2>1, ProceedBase DEF Early, Late
<1>5. QED
  BY <1>2, <1>3, <1>4

LEMMA CheckFundsBase ==
  ASSUME Base, NEW p \in Configured, NEW balance, CheckFunds(p, balance)
  PROVE  Base'
<1>1. /\ attempts[p] # None /\ ledger' \in [OrderId -> Status]
      /\ UNCHANGED <<now, announced, reported, broken, ledger>>
  BY DEF CheckFunds, At, untouched, Base, WorldOK
<1>2. CASE Reject(p)
  BY <1>1, <1>2, RejectBase
<1>3. CASE Postpone(p)
  BY <1>1, <1>3, PostponeBase
<1>4. CASE ~Reject(p) /\ ~Postpone(p)
  <2>1. PICK to \in {"tvl", "constraints"} :
          At(p, "funds") /\ Proceed(p, to) /\ UNCHANGED known
    BY <1>4 DEF CheckFunds
  <2>2. QED
    BY <1>1, <2>1, ProceedBase DEF Early, Late
<1>5. QED
  BY <1>2, <1>3, <1>4

LEMMA AskTvlBase ==
  ASSUME Base, NEW p \in Configured, AskTvl(p),
         cache'[Give(attempts[p].order).chainId] \in PromiseId
  PROVE  Base'
<1>1. attempts[p] # None /\ attempts[p].at = "tvl"
  BY DEF AskTvl, At
<1>2. attempts[p] \in Attempt /\ Sound(p, attempts[p])
  BY <1>1, AttemptLemma
<1>3. PICK a : a = [attempts[p] EXCEPT !.at = "await",
                      !.promise = cache'[Give(attempts[p].order).chainId], !.reported = reported]
  OBVIOUS
<1>4. None \notin PromiseId
  BY TvlAssumption
<1>5. /\ a \in Attempt /\ a.at = "await" /\ a.order = attempts[p].order
      /\ a.finalization = attempts[p].finalization /\ a.payload = attempts[p].payload
      /\ a.promise \in PromiseId
  BY <1>2, <1>3 DEF Attempt, Stage, Base, WorldOK
<1>6. Sound(p, a)
  BY <1>1, <1>2, <1>4, <1>5 DEF Sound, Prepared, Early, Late
<1>7. /\ attempts' = [attempts EXCEPT ![p] = a]
      /\ UNCHANGED <<known, now, announced, reported, broken, ledger>>
  BY <1>3 DEF AskTvl
<1>8. ledger' \in [OrderId -> Status]
  BY <1>7 DEF Base, WorldOK
<1>9. QED
  BY <1>6, <1>7, <1>8, GoesOn

LEMMA AnswerTvlBase ==
  ASSUME Base, NEW p \in Configured, AnswerTvl(p)
  PROVE  Base'
<1>1. /\ attempts[p] # None /\ attempts[p].at = "await"
      /\ UNCHANGED <<now, announced, reported, broken, ledger>>
  BY DEF AnswerTvl, At
<1>2. ledger' \in [OrderId -> Status]
  BY <1>1 DEF Base, WorldOK
<1>3. CASE Postpone(p)
  BY <1>1, <1>2, <1>3, PostponeBase
<1>4. CASE ~Postpone(p)
  <2>1. attempts[p] \in Attempt /\ Sound(p, attempts[p])
    BY <1>1, AttemptLemma
  <2>2. PICK a : a = [attempts[p] EXCEPT !.at = "constraints", !.promise = None, !.reported = {}]
    OBVIOUS
  <2>3. /\ a \in Attempt /\ a.at = "constraints" /\ a.order = attempts[p].order
        /\ a.finalization = attempts[p].finalization /\ a.payload = attempts[p].payload
        /\ a.promise = None
    BY <2>1, <2>2 DEF Attempt, Stage
  <2>4. Sound(p, a)
    BY <1>1, <2>1, <2>3 DEF Sound, Prepared, Early, Late
  <2>5. attempts' = [attempts EXCEPT ![p] = a] /\ UNCHANGED known
    BY <1>4, <2>2 DEF AnswerTvl
  <2>6. QED
    BY <1>1, <1>2, <2>4, <2>5, GoesOn
<1>5. QED
  BY <1>3, <1>4

LEMMA CheckConstraintsBase ==
  ASSUME Base, NEW p \in Configured, CheckConstraints(p)
  PROVE  Base'
<1>1. /\ attempts[p] # None /\ ledger' \in [OrderId -> Status]
      /\ UNCHANGED <<now, announced, reported, broken, ledger>>
  BY DEF CheckConstraints, At, untouched, Base, WorldOK
<1>2. CASE Reject(p)
  BY <1>1, <1>2, RejectBase
<1>3. CASE Postpone(p)
  BY <1>1, <1>3, PostponeBase
<1>4. CASE ~Reject(p) /\ ~Postpone(p)
  <2>1. /\ At(p, "constraints") /\ Proceed(p, "rough") /\ UNCHANGED known
        /\ AcceptsUnfinalized(attempts[p].order, attempts[p].finalization)
    BY <1>4 DEF CheckConstraints
  <2>2. QED
    BY <1>1, <2>1, ProceedBase DEF Early
<1>5. QED
  BY <1>2, <1>3, <1>4

(* The attempt goes on without waiting, or ends.                            *)
Moves(p) ==
  \E a : attempts' = [attempts EXCEPT ![p] = a] /\ (a # None => a.at # "await")

(* Entries that are not there yet are set, and no assertion fails.          *)
LEMMA SetsBase ==
  ASSUME Base, NEW p \in Configured, attempts[p] # None, attempts[p].at # "await",
         NEW entries \in SUBSET Entry, NEW stage \in {"evm", "recheck", "fulfil"},
         entries \cap attempts[p].payload = {},
         AcceptsUnfinalized(attempts[p].order, attempts[p].finalization),
         \A a : a = [attempts[p] EXCEPT !.payload = attempts[p].payload \cup entries, !.at = stage]
           => Prepared(p, a),
         Sets(p, entries, stage),
         UNCHANGED <<now, announced, reported, ledger>>
  PROVE  Base' /\ Moves(p)
<1>1. PICK a : a = [attempts[p] EXCEPT !.payload = attempts[p].payload \cup entries, !.at = stage]
  OBVIOUS
<1>2. attempts[p] \in Attempt /\ Sound(p, attempts[p])
  BY AttemptLemma
<1>3. /\ a \in Attempt /\ a.at = stage /\ a.order = attempts[p].order
      /\ a.finalization = attempts[p].finalization /\ a.promise = attempts[p].promise
  BY <1>1, <1>2 DEF Attempt, Stage
<1>4. Prepared(p, a)
  BY <1>1
<1>5. Sound(p, a)
  BY <1>2, <1>3, <1>4 DEF Sound
<1>6. attempts' = [attempts EXCEPT ![p] = a] /\ UNCHANGED <<known, broken>>
  BY <1>1 DEF Sets
<1>7. ledger' \in [OrderId -> Status]
  BY DEF Base, WorldOK
<1>8. QED
  BY <1>3, <1>5, <1>6, <1>7, GoesOn DEF Moves

LEMMA CheckRoughProfitabilityBase ==
  ASSUME Base, NEW p \in Configured, NEW outcome, CheckRoughProfitability(p, outcome)
  PROVE  Base' /\ Moves(p)
<1> DEFINE o == attempts[p].order
           stage == IF Evm(p) THEN "evm" ELSE "recheck"
<1>1. /\ attempts[p] # None /\ attempts[p].at = "rough"
      /\ UNCHANGED <<now, announced, reported, ledger>>
  BY DEF CheckRoughProfitability, At, untouched
<1>2. attempts[p] \in Attempt /\ Sound(p, attempts[p])
  BY <1>1, AttemptLemma
<1>3. CASE Postpone(p) /\ UNCHANGED broken
  <2>1. ledger' \in [OrderId -> Status]
    BY <1>1 DEF Base, WorldOK
  <2>2. QED
    BY <1>1, <1>3, <2>1, PostponeBase DEF Moves, Postpone
<1>4. CASE Sets(p, RoughSwap(o), stage)
  <2>1. attempts[p].payload = {} /\ AcceptsUnfinalized(o, attempts[p].finalization)
    BY <1>1, <1>2 DEF Sound, Prepared, Early, Late
  <2>2. RoughSwap(o) \in SUBSET Entry
    BY DEF RoughSwap, Entry
  <2>3. ASSUME NEW a, a = [attempts[p] EXCEPT !.payload = attempts[p].payload \cup RoughSwap(o),
                                             !.at = stage]
        PROVE  Prepared(p, a)
    <3>1. a.payload = RoughSwap(o) /\ a.order = o /\ a.at = stage
      BY <1>2, <2>1, <2>3 DEF Attempt
    <3>2. QED
      BY <3>1 DEF Prepared, Early, GasLimitSet
  <2>4. QED
    BY <1>1, <1>4, <2>1, <2>2, <2>3, SetsBase
<1>5. QED
  BY <1>3, <1>4 DEF CheckRoughProfitability

LEMMA EvmEstimationBase ==
  ASSUME Base, NEW p \in Configured, EvmEstimation(p)
  PROVE  Base' /\ Moves(p)
<1> DEFINE o == attempts[p].order
<1>1. /\ attempts[p] # None /\ attempts[p].at = "evm"
      /\ UNCHANGED <<now, announced, reported, ledger>>
  BY DEF EvmEstimation, At, untouched
<1>2. attempts[p] \in Attempt /\ Sound(p, attempts[p])
  BY <1>1, AttemptLemma
<1>3. attempts[p].payload = RoughSwap(o) /\ Evm(p) /\ AcceptsUnfinalized(o, attempts[p].finalization)
  BY <1>1, <1>2 DEF Sound, Prepared, Late
<1>4. ~(RequiresSwap(o) /\ "validationPreFulfillSwap" \notin attempts[p].payload)
  BY <1>3 DEF RoughSwap
<1>5. CASE Postpone(p) /\ UNCHANGED broken
  <2>1. ledger' \in [OrderId -> Status]
    BY <1>1 DEF Base, WorldOK
  <2>2. QED
    BY <1>1, <1>5, <2>1, PostponeBase DEF Moves, Postpone
<1>6. CASE Sets(p, {"gasLimit"}, "recheck")
  <2>1. {"gasLimit"} \cap attempts[p].payload = {} /\ {"gasLimit"} \in SUBSET Entry
    BY <1>3 DEF RoughSwap, Entry
  <2>2. ASSUME NEW a, a = [attempts[p] EXCEPT !.payload = attempts[p].payload \cup {"gasLimit"},
                                             !.at = "recheck"]
        PROVE  Prepared(p, a)
    <3>1. a.payload = RoughSwap(o) \cup {"gasLimit"} /\ a.order = o /\ a.at = "recheck"
      BY <1>2, <1>3, <2>2 DEF Attempt
    <3>2. QED
      BY <1>3, <3>1 DEF Prepared, Early, GasLimitSet
  <2>3. QED
    BY <1>1, <1>3, <1>6, <2>1, <2>2, SetsBase
<1>7. QED
  BY <1>4, <1>5, <1>6 DEF EvmEstimation

LEMMA RecheckBase ==
  ASSUME Base, NEW p \in Configured, CheckStatus(p, "recheck", "estimate")
  PROVE  Base'
<1>1. /\ attempts[p] # None /\ attempts[p].at = "recheck" /\ ledger' \in [OrderId -> Status]
      /\ UNCHANGED <<now, announced, reported, broken, ledger>>
  BY DEF CheckStatus, At, untouched, Base, WorldOK
<1>2. CASE Reject(p)
  BY <1>1, <1>2, RejectBase
<1>3. CASE Postpone(p)
  BY <1>1, <1>3, PostponeBase
<1>4. CASE ~Reject(p) /\ ~Postpone(p)
  <2>1. Proceed(p, "estimate") /\ UNCHANGED known
    BY <1>4 DEF CheckStatus
  <2>2. PICK a : a = [attempts[p] EXCEPT !.at = "estimate"]
    OBVIOUS
  <2>3. attempts[p] \in Attempt /\ Sound(p, attempts[p])
    BY <1>1, AttemptLemma
  <2>4. /\ a \in Attempt /\ a.at = "estimate" /\ a.order = attempts[p].order
        /\ a.finalization = attempts[p].finalization /\ a.payload = attempts[p].payload
        /\ a.promise = attempts[p].promise
    BY <2>2, <2>3 DEF Attempt, Stage
  <2>5. Sound(p, a)
    BY <1>1, <2>3, <2>4 DEF Sound, Prepared, Early, Late
  <2>6. attempts' = [attempts EXCEPT ![p] = a]
    BY <2>1, <2>2 DEF Proceed
  <2>7. QED
    BY <1>1, <2>1, <2>5, <2>6, GoesOn
<1>5. QED
  BY <1>2, <1>3, <1>4

LEMMA EstimateBase ==
  ASSUME Base, NEW p \in Configured, Estimate(p)
  PROVE  Base' /\ Moves(p)
<1> DEFINE o == attempts[p].order
           fee == IF Evm(p) THEN {"estimatedGasPrice", "estimatedFee"} ELSE {}
           swap == IF RequiresSwap(o) THEN {"preFulfillSwap"} ELSE {}
           entries == fee \cup swap
<1>1. /\ attempts[p] # None /\ attempts[p].at = "estimate"
      /\ UNCHANGED <<now, announced, reported, ledger>>
  BY DEF Estimate, At, untouched
<1>2. attempts[p] \in Attempt /\ Sound(p, attempts[p])
  BY <1>1, AttemptLemma
<1>3. /\ attempts[p].payload = RoughSwap(o) \cup GasLimitSet(p)
      /\ AcceptsUnfinalized(o, attempts[p].finalization)
  BY <1>1, <1>2 DEF Sound, Prepared, Late
<1>4. ~(RequiresSwap(o) /\ "validationPreFulfillSwap" \notin attempts[p].payload)
  BY <1>3 DEF RoughSwap
<1>5. CASE Postpone(p) /\ UNCHANGED broken
  <2>1. ledger' \in [OrderId -> Status]
    BY <1>1 DEF Base, WorldOK
  <2>2. QED
    BY <1>1, <1>5, <2>1, PostponeBase DEF Moves, Postpone
<1>6. CASE Sets(p, entries, "fulfil")
  <2>1. entries \cap attempts[p].payload = {} /\ entries \in SUBSET Entry
    BY <1>3 DEF RoughSwap, GasLimitSet, Entry
  <2>2. ASSUME NEW a, a = [attempts[p] EXCEPT !.payload = attempts[p].payload \cup entries,
                                             !.at = "fulfil"]
        PROVE  Prepared(p, a)
    <3>1. a.payload = attempts[p].payload \cup entries /\ a.order = o /\ a.at = "fulfil"
      BY <1>2, <2>2 DEF Attempt
    <3>2. RequiresSwap(o) => "preFulfillSwap" \in entries
      OBVIOUS
    <3>3. Evm(p) => "estimatedFee" \in entries /\ "gasLimit" \in attempts[p].payload
      BY <1>3 DEF GasLimitSet
    <3> HIDE DEF entries
    <3>4. QED
      BY <3>1, <3>2, <3>3 DEF Prepared, Early
  <2> HIDE DEF entries
  <2>3. QED
    BY <1>1, <1>3, <1>6, <2>1, <2>2, SetsBase
<1>7. QED
  BY <1>4, <1>5, <1>6 DEF Estimate

LEMMA FulfilBase ==
  ASSUME Base, NEW p \in Configured, Fulfil(p)
  PROVE  Base' /\ Moves(p)
<1> DEFINE o == attempts[p].order
<1>1. /\ attempts[p] # None /\ attempts[p].at = "fulfil"
      /\ UNCHANGED <<now, announced, reported>>
  BY DEF Fulfil, At
<1>2. attempts[p] \in Attempt /\ Sound(p, attempts[p]) /\ o \in OrderId
  BY <1>1, AttemptLemma
<1>3. Buildable(p)
  BY <1>1, <1>2 DEF Sound, Prepared, Buildable
<1>4. UNCHANGED broken /\ ledger' \in {ledger, [ledger EXCEPT ![o] = "fulfilled"]}
  BY <1>3 DEF Fulfil
<1>5. ledger' \in [OrderId -> Status]
  BY <1>2, <1>4 DEF Base, WorldOK, Status
<1>6. CASE Postpone(p)
  BY <1>1, <1>4, <1>5, <1>6, PostponeBase DEF Moves, Postpone
<1>7. CASE ~Postpone(p)
  <2>1. Proceed(p, "record") /\ UNCHANGED known
    BY <1>3, <1>7 DEF Fulfil
  <2>2. PICK a : a = [attempts[p] EXCEPT !.at = "record"]
    OBVIOUS
  <2>3. /\ a \in Attempt /\ a.at = "record" /\ a.order = attempts[p].order
        /\ a.finalization = attempts[p].finalization /\ a.promise = attempts[p].promise
    BY <1>2, <2>2 DEF Attempt, Stage
  <2>4. Sound(p, a)
    BY <1>1, <1>2, <2>3 DEF Sound, Prepared, Early, Late
  <2>5. attempts' = [attempts EXCEPT ![p] = a]
    BY <2>1, <2>2 DEF Proceed
  <2>6. QED
    BY <1>1, <1>4, <1>5, <2>1, <2>3, <2>4, <2>5, GoesOn DEF Moves
<1>8. QED
  BY <1>6, <1>7

LEMMA RecordBase ==
  ASSUME Base, NEW p \in Configured, Record(p)
  PROVE  Base'
<1>1. /\ attempts[p] # None /\ Postpone(p)
      /\ UNCHANGED <<now, announced, reported, broken>>
      /\ ledger' \in [OrderId -> Status]
  BY DEF Record, At, Base, WorldOK
<1>2. QED
  BY <1>1, PostponeBase

-----------------------------------------------------------------------------
(* The ledger.  What the API lists stays listed or is claimed: an attempt   *)
(* only has open orders included, and an event only loses open ones.        *)

LedgerGrows ==
  \A o \in OrderId :
    /\ ledger[o] = "claimed" => ledger'[o] = "claimed"
    /\ ledger[o] \in {"indexed", "claimed"} => ledger'[o] \in {"indexed", "claimed"}

LEMMA NextGrows ==
  ASSUME Base, Next
  PROVE  LedgerGrows
<1>1. ASSUME UNCHANGED ledger PROVE LedgerGrows
  BY <1>1 DEF LedgerGrows
<1>2. ASSUME NEW o \in OrderId, Fulfilled(o) \/ Cancelled(o) PROVE LedgerGrows
  BY <1>2 DEF Fulfilled, Cancelled, Closes, LedgerGrows, Base, WorldOK
<1>3. ASSUME NEW o \in OrderId, LedgerMoves(o) PROVE LedgerGrows
  BY <1>3 DEF LedgerMoves, LedgerGrows, Base, WorldOK
<1>4. ASSUME NEW p \in Configured, Fulfil(p) PROVE LedgerGrows
  <2>1. \/ UNCHANGED ledger
        \/ /\ ledger[attempts[p].order] = "open"
           /\ ledger' = [ledger EXCEPT ![attempts[p].order] = "fulfilled"]
    BY <1>4 DEF Fulfil
  <2>2. QED
    BY <1>1, <2>1 DEF LedgerGrows, Base, WorldOK
<1>5. ASSUME NEW p \in Configured, AttemptStep(p) PROVE LedgerGrows
  <2>1. Fulfil(p) \/ UNCHANGED ledger
    BY <1>5 DEF AttemptStep, untouched, CheckOrder, CheckStatus, CheckFunds, AskTvl, AnswerTvl,
       CheckConstraints, CheckRoughProfitability, EvmEstimation, Estimate, Record
  <2>2. QED
    BY <1>1, <1>4, <2>1
<1>6. ASSUME NEW i \in PromiseId, TvlStep(i) PROVE LedgerGrows
  BY <1>1, <1>6 DEF TvlStep, TakerAccountBalance, UnlockBeneficiaryAccountBalance,
     PendingUnlockOrders, ReadFails, Reads
<1>7. QED
  BY <1>1, <1>2, <1>3, <1>5, <1>6 DEF Next, Created, TakeOrder, CacheExpires, Tick

-----------------------------------------------------------------------------
(* The promises of the TVL.  One exists while it is cached or waited for,   *)
(* so that there is always one more; the one of a chain that was not        *)
(* flushed is the cached one.                                               *)

Waits(p) == attempts[p] # None /\ attempts[p].promise # None

Live(i) == promises[i] # None

TvlOK ==
  /\ cache \in [Configured -> PromiseId \cup {None}]
  /\ promises \in [PromiseId -> Promise \cup {None}]
  /\ \A i \in PromiseId : Live(i) =>
       \/ \E p \in Configured : Waits(p) /\ attempts[p].promise = i
       \/ \E c \in Configured : cache[c] = i
  /\ \A c \in Configured : cache[c] # None =>
       Live(cache[c]) /\ promises[cache[c]].chain = c /\ ~promises[cache[c]].flushed
  /\ \A p \in Configured : Waits(p) =>
       /\ Live(attempts[p].promise)
       /\ promises[attempts[p].promise].chain = Give(attempts[p].order).chainId
  /\ \A i \in PromiseId : Live(i) /\ ~promises[i].flushed => cache[promises[i].chain] = i

(* What was reported is with the API or claimed, and a claimed order that   *)
(* the balances had is counted by the time the API is asked.                *)
Complete(i, orders) ==
  promises[i].phase = "done" =>
    \A o \in orders : Give(o).chainId = promises[i].chain =>
      o \in promises[i].counted \/ (ledger[o] = "claimed" /\ o \notin promises[i].claimedBefore)

BalancesRead(i) ==
  \/ promises[i].phase \in {"pending", "done"}
  \/ promises[i].phase = "beneficiary" /\ ~HasSeparateUnlockBeneficiary(promises[i].chain)

PromiseOK(i) ==
  /\ \A o \in promises[i].claimedBefore :
       ledger[o] = "claimed" /\ Give(o).chainId = promises[i].chain
  /\ BalancesRead(i) => promises[i].claimedBefore \subseteq promises[i].counted

CountOK ==
  /\ \A o \in reported : ledger[o] \in {"indexed", "claimed"}
  /\ \A i \in PromiseId : Live(i) => PromiseOK(i)
  /\ \A c \in Configured : cache[c] # None => Complete(cache[c], reported)
  /\ \A p \in Configured : Waits(p) =>
       attempts[p].reported \subseteq reported /\ Complete(attempts[p].promise, attempts[p].reported)

LEMMA InitTvl == Init => TvlOK /\ CountOK
BY DEF Init, TvlInit, TvlOK, CountOK, Live, Waits

LEMMA ImageSize ==
  ASSUME NEW S, IsFiniteSet(S), NEW f, NEW T, \A y \in T : \E x \in S : y = f[x]
  PROVE  IsFiniteSet(T) /\ Cardinality(T) \in Nat /\ Cardinality(T) <= Cardinality(S)
<1> DEFINE image == {f[x] : x \in S}
           g == [x \in S |-> f[x]]
<1>1. g \in Surjection(S, image) /\ T \in SUBSET image
  BY DEF Surjection
<1> HIDE DEF g, image
<1>2. IsFiniteSet(image) /\ Cardinality(image) <= Cardinality(S)
  BY <1>1, FS_Surjection
<1>3. IsFiniteSet(T) /\ Cardinality(T) <= Cardinality(image)
  BY <1>1, <1>2, FS_Subset
<1>4. QED
  BY <1>2, <1>3, FS_CardinalityType

(* An attempt that does not wait and a chain without a cached promise leave *)
(* one unused.                                                              *)
LEMMA FreshExists ==
  ASSUME TvlOK, NEW p \in Configured, ~Waits(p), NEW c \in Configured, cache[c] = None
  PROVE  Fresh \in PromiseId /\ promises[Fresh] = None
<1> DEFINE f == [q \in Configured |-> attempts[q].promise]
           A == {f[q] : q \in Configured \ {p}}
           g == [d \in Configured |-> cache[d]]
           B == {g[d] : d \in Configured \ {c}}
           n == Cardinality(Configured)
<1>1. SUFFICES ASSUME \A i \in PromiseId : Live(i) PROVE FALSE
  BY DEF Fresh, Live
<1>2. PromiseId \subseteq A \cup B
  <2>1. \A i \in PromiseId : \/ \E q \in Configured : q # p /\ attempts[q].promise = i
                             \/ \E d \in Configured : d # c /\ cache[d] = i
    BY <1>1, TvlAssumption DEF TvlOK
  <2>2. QED
    BY <2>1
<1>3. /\ n \in Nat
      /\ \A x \in Configured : /\ IsFiniteSet(Configured \ {x})
                               /\ Cardinality(Configured \ {x}) = n - 1
  BY FS_CardinalityType, FS_RemoveElement, TvlAssumption
<1>4. IsFiniteSet(A) /\ Cardinality(A) \in Nat /\ Cardinality(A) <= n - 1
  <2> HIDE DEF f, n
  <2>1. \A y \in A : \E q \in Configured \ {p} : y = f[q]
    OBVIOUS
  <2> HIDE DEF A
  <2>2. QED
    BY <1>3, <2>1, ImageSize
<1>5. IsFiniteSet(B) /\ Cardinality(B) \in Nat /\ Cardinality(B) <= n - 1
  <2> HIDE DEF g, n
  <2>1. \A y \in B : \E d \in Configured \ {c} : y = g[d]
    OBVIOUS
  <2> HIDE DEF B
  <2>2. QED
    BY <1>3, <2>1, ImageSize
<1> HIDE DEF A, B, n
<1>6. /\ IsFiniteSet(A \cup B)
      /\ Cardinality(A \cup B) = Cardinality(A) + Cardinality(B) - Cardinality(A \cap B)
  BY <1>4, <1>5, FS_Union
<1>7. Cardinality(A \cap B) \in Nat
  BY <1>4, FS_Subset, FS_CardinalityType
<1>8. Cardinality(PromiseId) \in Nat /\ Cardinality(PromiseId) <= Cardinality(A \cup B)
  BY <1>2, <1>6, FS_Subset, FS_CardinalityType, TvlAssumption
<1>9. Cardinality(PromiseId) >= 2 * n
  BY TvlAssumption DEF n
<1>10. QED
  BY <1>3, <1>4, <1>5, <1>6, <1>7, <1>8, <1>9

(* Who waits, for what, and since when.                                     *)
SameWaits ==
  \A p \in Configured :
    /\ Waits(p)' <=> Waits(p)
    /\ Waits(p) => /\ attempts'[p].promise = attempts[p].promise
                   /\ attempts'[p].reported = attempts[p].reported
                   /\ attempts'[p].order = attempts[p].order

SameCount(i) ==
  /\ promises'[i].phase = promises[i].phase
  /\ promises'[i].chain = promises[i].chain
  /\ promises'[i].counted = promises[i].counted
  /\ promises'[i].claimedBefore = promises[i].claimedBefore

LEMMA Grown ==
  ASSUME LedgerGrows, NEW i, SameCount(i)
  PROVE  /\ \A S \in SUBSET OrderId : Complete(i, S) => Complete(i, S)'
         /\ promises[i] \in Promise /\ PromiseOK(i) => PromiseOK(i)'
BY DEF SameCount, Complete, PromiseOK, BalancesRead, LedgerGrows, Promise, HasSeparateUnlockBeneficiary

(* A step that the promises do not see.                                     *)
LEMMA QuietTvl ==
  ASSUME Base, TvlOK, CountOK, LedgerGrows, SameWaits, UNCHANGED <<tvlVars, reported>>
  PROVE  TvlOK' /\ CountOK'
<1>1. TvlOK'
  BY DEF TvlOK, SameWaits, Live, tvlVars
<1>2. CountOK'
  <2>1. \A o \in reported : ledger'[o] \in {"indexed", "claimed"}
    BY DEF CountOK, LedgerGrows, Base, WorldOK
  <2>2. \A i \in PromiseId : Live(i) => PromiseOK(i)'
    BY Grown DEF SameCount, CountOK, TvlOK, Live, tvlVars
  <2>3. \A i, S : S \subseteq OrderId /\ Complete(i, S) => Complete(i, S)'
    BY Grown DEF SameCount, tvlVars
  <2>4. \A c \in Configured : cache[c] # None => Complete(cache[c], reported)'
    BY <2>3 DEF CountOK, Base, WorldOK, tvlVars
  <2>5. ASSUME NEW p \in Configured, Waits(p)'
        PROVE  \A i, S : i = attempts'[p].promise /\ S = attempts'[p].reported =>
                 S \subseteq reported /\ Complete(i, S)'
    <3>1. Waits(p) /\ attempts'[p].promise = attempts[p].promise
          /\ attempts'[p].reported = attempts[p].reported
      BY <2>5 DEF SameWaits
    <3>2. attempts[p].reported \subseteq reported /\ reported \subseteq OrderId
          /\ Complete(attempts[p].promise, attempts[p].reported)
      BY <3>1 DEF CountOK, Base, WorldOK
    <3>3. QED
      BY <2>3, <3>1, <3>2
  <2>6. QED
    BY <2>1, <2>2, <2>4, <2>5 DEF CountOK, Live, tvlVars
<1>3. QED
  BY <1>1, <1>2

(* A step of an attempt that neither waits nor comes to.                    *)
LEMMA QuietAttempt ==
  ASSUME Base, Base', NEW p \in Configured, attempts[p] # None, attempts[p].at # "await",
         NEW a, attempts' = [attempts EXCEPT ![p] = a], a # None => a.at # "await"
  PROVE  SameWaits
<1>1. \A q \in Configured : attempts'[q] = IF q = p THEN a ELSE attempts[q]
  BY DEF Base, AttemptsOK
<1>2. ~Waits(p)
  BY DEF Base, AttemptsOK, Sound, Waits
<1>3. ~Waits(p)'
  BY <1>1 DEF Base, AttemptsOK, Sound, Waits
<1>4. QED
  BY <1>1, <1>2, <1>3 DEF SameWaits, Waits

-----------------------------------------------------------------------------
(* flushCache.                                                              *)
LEMMA FlushTvl ==
  ASSUME Base, TvlOK, CountOK, SameWaits, LedgerGrows, NEW cs, Flush(cs, Awaited),
         NEW S \in SUBSET OrderId, reported' = reported \cup S,
         \A o \in S : Give(o).chainId \in cs /\ ledger[o] \in {"indexed", "claimed"}
  PROVE  TvlOK' /\ CountOK'
<1> DEFINE held(i) == \/ \E p \in Configured : Waits(p) /\ attempts[p].promise = i
                      \/ \E c \in Configured : cache'[c] = i
           mark(i) == IF promises[i] # None /\ promises[i].chain \in cs
                      THEN [promises[i] EXCEPT !.flushed = TRUE] ELSE promises[i]
<1>1. /\ \A c \in Configured : cache'[c] = IF c \in cs THEN None ELSE cache[c]
      /\ cache' \in [Configured -> PromiseId \cup {None}]
  BY DEF Flush, FlushCache, TvlOK
<1>2. \A i \in PromiseId : i \in Awaited \cup {cache'[c] : c \in Configured} <=> held(i)
  BY TvlAssumption DEF Awaited, Waits
<1>3. /\ promises' = [i \in PromiseId |-> IF mark(i) = None \/ held(i) THEN mark(i) ELSE None]
  BY <1>2 DEF Flush, Drop
<1>4. \A i \in PromiseId : Live(i) =>
        /\ mark(i) \in Promise /\ mark(i) # None
        /\ mark(i).phase = promises[i].phase /\ mark(i).chain = promises[i].chain
        /\ mark(i).counted = promises[i].counted
        /\ mark(i).claimedBefore = promises[i].claimedBefore
        /\ mark(i).flushed <=> promises[i].flushed \/ promises[i].chain \in cs
  <2> SUFFICES ASSUME NEW i \in PromiseId, Live(i) PROVE
        /\ mark(i) \in Promise /\ mark(i) # None
        /\ mark(i).phase = promises[i].phase /\ mark(i).chain = promises[i].chain
        /\ mark(i).counted = promises[i].counted
        /\ mark(i).claimedBefore = promises[i].claimedBefore
        /\ mark(i).flushed <=> promises[i].flushed \/ promises[i].chain \in cs
    OBVIOUS
  <2>1. promises[i] \in Promise /\ promises[i] # None
    BY DEF TvlOK, Live
  <2>2. PICK m : m = [promises[i] EXCEPT !.flushed = TRUE]
    OBVIOUS
  <2>3. m \in Promise /\ m.phase = promises[i].phase /\ m.chain = promises[i].chain
        /\ m.counted = promises[i].counted /\ m.claimedBefore = promises[i].claimedBefore
        /\ m.flushed = TRUE
    BY <2>1, <2>2 DEF Promise
  <2>4. mark(i) = IF promises[i].chain \in cs THEN m ELSE promises[i]
    BY <2>1, <2>2
  <2> HIDE DEF mark
  <2>5. CASE promises[i].chain \in cs
    BY <2>3, <2>4, <2>5, TvlAssumption
  <2>6. CASE promises[i].chain \notin cs
    BY <2>1, <2>4, <2>6
  <2>7. QED
    BY <2>5, <2>6
<1>5. \A i \in PromiseId :
        /\ Live(i)' <=> Live(i) /\ held(i)
        /\ Live(i)' => /\ promises'[i] \in Promise /\ SameCount(i)
                       /\ promises'[i].flushed <=> promises[i].flushed \/ promises[i].chain \in cs
  <2> HIDE DEF held
  <2>1. \A i \in PromiseId : Live(i) <=> mark(i) # None
    BY <1>4 DEF Live
  <2> HIDE DEF mark
  <2>2. \A i \in PromiseId : promises'[i] = IF mark(i) = None \/ held(i) THEN mark(i) ELSE None
    BY <1>3
  <2>3. QED
    BY <1>4, <2>1, <2>2 DEF Live, SameCount
<1>6. promises' \in [PromiseId -> Promise \cup {None}]
  <2> HIDE DEF held, mark
  <2>1. \A i \in PromiseId : promises'[i] \in Promise \cup {None}
    BY <1>5 DEF Live
  <2>2. QED
    BY <1>3, <2>1
<1> HIDE DEF mark
<1>7. TvlOK'
  <2>1. \A i \in PromiseId : Live(i)' =>
          \/ \E p \in Configured : Waits(p)' /\ attempts'[p].promise = i
          \/ \E c \in Configured : cache'[c] = i
    BY <1>5 DEF SameWaits
  <2>2. \A c \in Configured : cache'[c] # None =>
          /\ promises'[cache'[c]] # None /\ promises'[cache'[c]].chain = c
          /\ ~promises'[cache'[c]].flushed
    <3> SUFFICES ASSUME NEW c \in Configured, cache'[c] # None
                 PROVE  /\ promises'[cache'[c]] # None /\ promises'[cache'[c]].chain = c
                        /\ ~promises'[cache'[c]].flushed
      OBVIOUS
    <3>1. /\ c \notin cs /\ cache'[c] = cache[c] /\ cache[c] \in PromiseId
          /\ Live(cache[c]) /\ promises[cache[c]].chain = c /\ ~promises[cache[c]].flushed
      BY <1>1 DEF TvlOK
    <3>2. held(cache[c])
      BY <3>1
    <3>3. QED
      BY <1>5, <3>1, <3>2 DEF SameCount, Live
  <2>3. \A p \in Configured : Waits(p)' =>
          /\ promises'[attempts'[p].promise] # None
          /\ promises'[attempts'[p].promise].chain = Give(attempts'[p].order).chainId
    <3> SUFFICES ASSUME NEW p \in Configured, Waits(p)'
                 PROVE  /\ promises'[attempts'[p].promise] # None
                        /\ promises'[attempts'[p].promise].chain = Give(attempts'[p].order).chainId
      OBVIOUS
    <3>1. /\ Waits(p) /\ attempts'[p].promise = attempts[p].promise
          /\ attempts'[p].order = attempts[p].order
      BY DEF SameWaits
    <3>2. /\ attempts[p].promise \in PromiseId /\ Live(attempts[p].promise)
          /\ promises[attempts[p].promise].chain = Give(attempts[p].order).chainId
      BY <3>1 DEF Waits, Base, AttemptsOK, Attempt, TvlOK
    <3>3. held(attempts[p].promise)
      BY <3>1
    <3>4. QED
      BY <1>5, <3>1, <3>2, <3>3 DEF SameCount, Live
  <2>4. \A i \in PromiseId : Live(i)' /\ ~promises'[i].flushed => cache'[promises'[i].chain] = i
    <3> SUFFICES ASSUME NEW i \in PromiseId, Live(i)', ~promises'[i].flushed
                 PROVE  cache'[promises'[i].chain] = i
      OBVIOUS
    <3>1. Live(i) /\ SameCount(i) /\ ~promises[i].flushed /\ promises[i].chain \notin cs
      BY <1>5
    <3>2. promises[i].chain \in Configured
      BY <3>1 DEF TvlOK, Live, Promise
    <3>3. QED
      BY <1>1, <3>1, <3>2 DEF TvlOK, SameCount
  <2>5. QED
    BY <1>1, <1>6, <2>1, <2>2, <2>3, <2>4 DEF TvlOK, Live
<1>8. CountOK'
  <2>1. \A o \in reported' : ledger'[o] \in {"indexed", "claimed"}
    BY DEF CountOK, LedgerGrows, Base, WorldOK
  <2>2. ASSUME NEW i \in PromiseId, Live(i)' PROVE PromiseOK(i)'
    BY <1>5, <2>2, Grown DEF CountOK, TvlOK, Live
  <2>3. \A i \in PromiseId, T \in SUBSET OrderId : Live(i)' /\ Complete(i, T) => Complete(i, T)'
    BY <1>5, Grown
  <2>4. ASSUME NEW c \in Configured, cache'[c] # None
        PROVE  \A i : i = cache'[c] => Complete(i, reported)'
    <3>1. /\ c \notin cs /\ cache'[c] = cache[c] /\ cache[c] \in PromiseId /\ cache[c] # None
          /\ Live(cache[c]) /\ promises[cache[c]].chain = c
      BY <1>1, <2>4 DEF TvlOK
    <3>2. Complete(cache[c], reported)
      BY <3>1 DEF CountOK
    <3>3. Complete(cache[c], reported \cup S)
      BY <3>1, <3>2 DEF Complete
    <3>4. Live(cache[c])'
      BY <1>7, <2>4, <3>1 DEF TvlOK, Live
    <3>5. reported' = reported \cup S /\ reported \cup S \in SUBSET OrderId
      BY DEF Base, WorldOK
    <3>6. \A i, T : i = cache[c] /\ T = reported \cup S => Complete(i, T)'
      BY <2>3, <3>1, <3>3, <3>4, <3>5
    <3>7. QED
      BY <3>1, <3>5, <3>6 DEF Complete
  <2>5. ASSUME NEW p \in Configured, Waits(p)'
        PROVE  \A i, T : i = attempts'[p].promise /\ T = attempts'[p].reported =>
                 T \subseteq reported' /\ Complete(i, T)'
    <3>1. /\ Waits(p) /\ attempts'[p].promise = attempts[p].promise
          /\ attempts'[p].reported = attempts[p].reported
      BY <2>5 DEF SameWaits
    <3>2. /\ attempts[p].reported \subseteq reported /\ reported \subseteq OrderId
          /\ Complete(attempts[p].promise, attempts[p].reported)
          /\ attempts[p].promise \in PromiseId /\ Live(attempts[p].promise)
      BY <3>1 DEF CountOK, TvlOK, Base, WorldOK, Waits, AttemptsOK, Attempt
    <3>3. held(attempts[p].promise)
      BY <3>1
    <3>4. QED
      BY <1>5, <2>3, <3>1, <3>2, <3>3
  <2>6. QED
    BY <2>1, <2>2, <2>4, <2>5 DEF CountOK, Complete
<1>9. QED
  BY <1>7, <1>8

-----------------------------------------------------------------------------
(* getCurrentTVL.                                                           *)
LEMMA AskedPromise ==
  ASSUME Base, TvlOK, NEW p \in Configured, AskTvl(p), NEW c, c = Give(attempts[p].order).chainId
  PROVE  /\ c \in Configured /\ CachedOrFresh(c) \in PromiseId
         /\ cache[c] # None => Live(CachedOrFresh(c))
         /\ cache[c] = None => ~Live(CachedOrFresh(c))
         /\ cache' = [cache EXCEPT ![c] = CachedOrFresh(c)]
         /\ cache'[c] = CachedOrFresh(c)
<1>1. attempts[p] # None /\ attempts[p].at = "tvl"
  BY DEF AskTvl, At
<1>2. ~Waits(p) /\ attempts[p].order \in OrderId
  BY <1>1, AttemptLemma DEF Sound, Waits
<1>3. c \in Configured
  BY <1>2, ChainsConfigured
<1>4. cache[c] # None => Live(cache[c]) /\ cache[c] \in PromiseId
  BY <1>3 DEF TvlOK
<1>5. cache[c] = None => Fresh \in PromiseId /\ promises[Fresh] = None
  BY <1>2, <1>3, FreshExists
<1>6. cache' = [cache EXCEPT ![c] = CachedOrFresh(c)]
  BY DEF AskTvl, Ask
<1>7. cache'[c] = CachedOrFresh(c)
  BY <1>3, <1>6 DEF TvlOK
<1>8. QED
  BY <1>3, <1>4, <1>5, <1>6, <1>7 DEF CachedOrFresh, Live

LEMMA AskTvlTvl ==
  ASSUME Base, TvlOK, CountOK, NEW p \in Configured, AskTvl(p)
  PROVE  TvlOK' /\ CountOK'
<1>0. PICK c : c = Give(attempts[p].order).chainId
  OBVIOUS
<1>1. PICK i : i = CachedOrFresh(c)
  OBVIOUS
<1>2. PICK r : r = Computation(c)
  OBVIOUS
<1>3. PICK a : a = [attempts[p] EXCEPT !.at = "await", !.promise = i, !.reported = reported]
  OBVIOUS
<1>4. /\ c \in Configured /\ i \in PromiseId
      /\ cache[c] # None => Live(i) /\ i = cache[c]
      /\ cache[c] = None => ~Live(i)
      /\ cache' = [cache EXCEPT ![c] = i]
      /\ cache'[c] = i
  BY <1>0, <1>1, AskedPromise DEF CachedOrFresh
<1>5. /\ attempts[p] # None /\ attempts[p].at = "tvl"
      /\ promises' = IF Live(i) THEN promises ELSE [promises EXCEPT ![i] = r]
      /\ attempts' = [attempts EXCEPT ![p] = a]
      /\ UNCHANGED <<ledger, reported>>
  BY <1>0, <1>1, <1>2, <1>3, <1>4 DEF AskTvl, At, Ask, Live
<1>6. attempts[p] \in Attempt /\ ~Waits(p) /\ attempts[p].order \in OrderId
  BY <1>5, AttemptLemma DEF Sound, Waits
<1>7. a.promise = i /\ a.reported = reported /\ a.order = attempts[p].order /\ a \in Attempt
  BY <1>3, <1>4, <1>6 DEF Attempt, Stage, Base, WorldOK
<1>8. /\ r \in Promise /\ r.chain = c /\ r.phase = "taker" /\ ~r.flushed /\ r.counted = {}
      /\ r.claimedBefore = From(c, "claimed")
  BY <1>2, <1>4 DEF Computation, Promise, Phase, From
<1>9. r # None /\ i # None
  BY <1>4, <1>8, TvlAssumption
<1>10. /\ \A d \in Configured : cache'[d] = IF d = c THEN i ELSE cache[d]
       /\ \A j \in PromiseId : promises'[j] = IF j = i /\ ~Live(i) THEN r ELSE promises[j]
       /\ \A q \in Configured : attempts'[q] = IF q = p THEN a ELSE attempts[q]
  BY <1>4, <1>5 DEF TvlOK, Base, AttemptsOK
<1>11. Live(i)' /\ promises'[i].chain = c /\ ~promises'[i].flushed
  BY <1>4, <1>8, <1>9, <1>10 DEF Live, TvlOK
<1>12. TvlOK'
  <2>1. cache' \in [Configured -> PromiseId \cup {None}] /\ promises' \in [PromiseId -> Promise \cup {None}]
    BY <1>4, <1>5, <1>8 DEF TvlOK
  <2>2. \A j \in PromiseId : Live(j)' =>
          \/ \E q \in Configured : Waits(q)' /\ attempts'[q].promise = j
          \/ \E d \in Configured : cache'[d] = j
    <3> SUFFICES ASSUME NEW j \in PromiseId, Live(j)', j # i
                 PROVE  \/ \E q \in Configured : Waits(q)' /\ attempts'[q].promise = j
                        \/ \E d \in Configured : cache'[d] = j
      BY <1>4
    <3>1. Live(j)
      BY <1>10 DEF Live
    <3>2. CASE \E q \in Configured : Waits(q) /\ attempts[q].promise = j
      BY <1>6, <1>10, <3>2 DEF Waits
    <3>3. CASE \E d \in Configured : cache[d] = j
      BY <1>4, <1>9, <1>10, <3>3, TvlAssumption
    <3>4. QED
      BY <3>1, <3>2, <3>3 DEF TvlOK
  <2>3. \A d \in Configured : cache'[d] # None =>
          promises'[cache'[d]] # None /\ promises'[cache'[d]].chain = d /\ ~promises'[cache'[d]].flushed
    <3> SUFFICES ASSUME NEW d \in Configured, cache'[d] # None, d # c
                 PROVE  promises'[cache'[d]] # None /\ promises'[cache'[d]].chain = d
                        /\ ~promises'[cache'[d]].flushed
      BY <1>4, <1>11 DEF Live
    <3>1. /\ cache'[d] = cache[d] /\ cache[d] \in PromiseId /\ promises[cache[d]] # None
          /\ promises[cache[d]].chain = d /\ ~promises[cache[d]].flushed
      BY <1>10 DEF TvlOK, Live
    <3>2. QED
      BY <1>10, <3>1 DEF Live
  <2>4. \A q \in Configured : Waits(q)' =>
          /\ promises'[attempts'[q].promise] # None
          /\ promises'[attempts'[q].promise].chain = Give(attempts'[q].order).chainId
    <3> SUFFICES ASSUME NEW q \in Configured, Waits(q)'
                 PROVE  /\ promises'[attempts'[q].promise] # None
                        /\ promises'[attempts'[q].promise].chain = Give(attempts'[q].order).chainId
      OBVIOUS
    <3>1. CASE q = p
      BY <1>0, <1>7, <1>10, <1>11, <3>1 DEF Live
    <3>2. CASE q # p
      <4>1. /\ attempts'[q] = attempts[q] /\ Waits(q)
            /\ attempts[q].promise \in PromiseId /\ Live(attempts[q].promise)
        BY <1>10, <3>2 DEF Waits, TvlOK, Base, AttemptsOK, Attempt
      <4>2. QED
        BY <1>10, <4>1 DEF TvlOK, Live
    <3>3. QED
      BY <3>1, <3>2
  <2>5. \A j \in PromiseId : Live(j)' /\ ~promises'[j].flushed => cache'[promises'[j].chain] = j
    <3> SUFFICES ASSUME NEW j \in PromiseId, Live(j)', ~promises'[j].flushed, j # i
                 PROVE  cache'[promises'[j].chain] = j
      BY <1>4, <1>11
    <3>1. promises'[j] = promises[j] /\ Live(j)
      BY <1>10 DEF Live
    <3>2. promises[j].chain \in Configured /\ cache[promises[j].chain] = j
      BY <3>1 DEF TvlOK, Live, Promise
    <3>3. promises[j].chain # c
      BY <1>4, <3>2, TvlAssumption
    <3>4. QED
      BY <1>10, <3>1, <3>2, <3>3
  <2>6. QED
    BY <2>1, <2>2, <2>3, <2>4, <2>5 DEF TvlOK, Live
<1>13. CountOK'
  <2>1. \A j, S : promises'[j] = promises[j] => (Complete(j, S)' <=> Complete(j, S))
                                               /\ (PromiseOK(j)' <=> PromiseOK(j))
    <3>1. UNCHANGED ledger
      BY <1>5
    <3>2. QED
      BY <3>1 DEF Complete, PromiseOK, BalancesRead, HasSeparateUnlockBeneficiary
  <2>2. \A S : Complete(i, S) \/ ~Live(i) => Complete(i, S)'
    <3>1. CASE Live(i)
      BY <1>10, <2>1, <1>4, <3>1
    <3>2. CASE ~Live(i)
      BY <1>4, <1>8, <1>10, <3>2 DEF Complete
    <3>3. QED
      BY <3>1, <3>2
  <2>3. Complete(i, reported) \/ ~Live(i)
    BY <1>4 DEF CountOK
  <2>4. \A j \in PromiseId : Live(j)' => PromiseOK(j)'
    <3> SUFFICES ASSUME NEW j \in PromiseId, Live(j)' PROVE PromiseOK(j)'
      OBVIOUS
    <3>1. CASE j = i /\ ~Live(i)
      BY <1>5, <1>8, <1>10, <3>1 DEF PromiseOK, BalancesRead, From
    <3>2. CASE ~(j = i /\ ~Live(i))
      BY <1>10, <2>1, <3>2 DEF CountOK, Live
    <3>3. QED
      BY <3>1, <3>2
  <2>5. \A d \in Configured : cache'[d] # None => \A j : j = cache'[d] => Complete(j, reported)'
    <3> SUFFICES ASSUME NEW d \in Configured, cache'[d] # None, NEW j, j = cache'[d]
                 PROVE  Complete(j, reported)'
      OBVIOUS
    <3>1. CASE j = i
      BY <1>5, <2>2, <2>3, <3>1
    <3>2. CASE j # i
      <4>1. j = cache[d] /\ cache[d] # None /\ j \in PromiseId
        BY <1>10, <3>2 DEF TvlOK
      <4>2. QED
        BY <1>5, <1>10, <2>1, <3>2, <4>1 DEF CountOK
    <3>3. QED
      BY <3>1, <3>2
  <2>6. ASSUME NEW q \in Configured, Waits(q)'
        PROVE  \A j, S : j = attempts'[q].promise /\ S = attempts'[q].reported =>
                 S \subseteq reported' /\ Complete(j, S)'
    <3>1. CASE q = p
      BY <1>5, <1>7, <1>10, <2>2, <2>3, <3>1
    <3>2. CASE q # p
      <4>1. /\ attempts'[q] = attempts[q] /\ Waits(q)
            /\ attempts[q].promise \in PromiseId /\ Live(attempts[q].promise)
        BY <1>10, <2>6, <3>2 DEF Waits, TvlOK, Base, AttemptsOK, Attempt
      <4>2. promises'[attempts[q].promise] = promises[attempts[q].promise]
        BY <1>10, <4>1
      <4>3. QED
        BY <1>5, <2>1, <4>1, <4>2 DEF CountOK
    <3>3. QED
      BY <3>1, <3>2
  <2>7. QED
    BY <1>5, <2>4, <2>5, <2>6 DEF CountOK, Complete
<1>14. QED
  BY <1>12, <1>13

(* The answer, after which a promise nobody else holds is gone.             *)
LEMMA AnswerTvlTvl ==
  ASSUME Base, TvlOK, CountOK, NEW p \in Configured, AnswerTvl(p)
  PROVE  TvlOK' /\ CountOK'
<1>1. PICK a : a = [attempts[p] EXCEPT !.at = "constraints", !.promise = None, !.reported = {}]
  OBVIOUS
<1>2. attempts[p] # None /\ attempts[p] \in Attempt
  BY AttemptLemma DEF AnswerTvl, At
<1>3. a.promise = None
  BY <1>1, <1>2 DEF Attempt
<1>4. PICK b : attempts' = [attempts EXCEPT ![p] = b] /\ (b = None \/ b = a)
  BY <1>1 DEF AnswerTvl, Postpone
<1>5. /\ \A q \in Configured : attempts'[q] = IF q = p THEN b ELSE attempts[q]
      /\ UNCHANGED <<cache, ledger, reported>>
  BY <1>4 DEF AnswerTvl, Base, AttemptsOK
<1>6. \A q \in Configured :
        /\ Waits(q)' <=> q # p /\ Waits(q)
        /\ Waits(q)' => attempts'[q] = attempts[q]
  BY <1>3, <1>4, <1>5 DEF Waits
<1> DEFINE held(i) == \/ \E q \in Configured : Waits(q)' /\ attempts'[q].promise = i
                      \/ \E c \in Configured : cache[c] = i
<1>7. promises' = [i \in PromiseId |-> IF promises[i] = None \/ held(i) THEN promises[i] ELSE None]
  BY TvlAssumption DEF AnswerTvl, Drop, Waits
<1>8. \A i \in PromiseId : /\ Live(i)' <=> Live(i) /\ held(i)
                           /\ Live(i)' => promises'[i] = promises[i]
  BY <1>7 DEF Live
<1>9. \A c \in Configured : cache[c] # None => /\ Live(cache[c])' /\ cache[c] \in PromiseId
                                               /\ promises'[cache[c]] = promises[cache[c]]
  <2> SUFFICES ASSUME NEW c \in Configured, cache[c] # None
               PROVE  Live(cache[c])' /\ cache[c] \in PromiseId
    BY <1>5, <1>8
  <2>1. cache[c] \in PromiseId /\ Live(cache[c]) /\ held(cache[c])
    BY DEF TvlOK
  <2>2. QED
    BY <1>5, <1>8, <2>1 DEF Live
<1>10. \A q \in Configured : Waits(q)' =>
         /\ attempts[q].promise \in PromiseId /\ Live(attempts[q].promise)'
         /\ promises'[attempts[q].promise] = promises[attempts[q].promise]
  <2> SUFFICES ASSUME NEW q \in Configured, Waits(q)'
               PROVE  /\ attempts[q].promise \in PromiseId /\ Live(attempts[q].promise)'
                      /\ promises'[attempts[q].promise] = promises[attempts[q].promise]
    OBVIOUS
  <2>1. attempts'[q] = attempts[q] /\ Waits(q)
    BY <1>6
  <2>2. attempts[q].promise \in PromiseId /\ Live(attempts[q].promise)
    BY <2>1 DEF TvlOK, Waits, Base, AttemptsOK, Attempt
  <2>3. attempts'[q].promise = attempts[q].promise
    BY <2>1
  <2>4. held(attempts[q].promise)
    BY <2>3
  <2>5. PICK j : j = attempts[q].promise
    OBVIOUS
  <2> HIDE DEF held
  <2>6. Live(j)' /\ promises'[j] = promises[j]
    BY <1>8, <2>2, <2>4, <2>5
  <2>7. UNCHANGED attempts[q].promise
    BY <2>3
  <2>8. QED
    BY <2>2, <2>5, <2>6, <2>7 DEF Live
<1>11. TvlOK'
  <2>1. promises' \in [PromiseId -> Promise \cup {None}]
    <3> HIDE DEF held
    <3>1. QED
      BY <1>7 DEF TvlOK
  <2>2. \A i \in PromiseId : Live(i)' =>
          \/ \E q \in Configured : Waits(q)' /\ attempts'[q].promise = i
          \/ \E c \in Configured : cache'[c] = i
    BY <1>5, <1>8
  <2> HIDE DEF held
  <2>3. \A c \in Configured : cache'[c] # None =>
          promises'[cache'[c]] # None /\ promises'[cache'[c]].chain = c /\ ~promises'[cache'[c]].flushed
    BY <1>5, <1>9 DEF TvlOK, Live
  <2>4. \A q \in Configured : Waits(q)' =>
          /\ promises'[attempts'[q].promise] # None
          /\ promises'[attempts'[q].promise].chain = Give(attempts'[q].order).chainId
    BY <1>6, <1>10 DEF TvlOK, Live
  <2>5. \A i \in PromiseId : Live(i)' /\ ~promises'[i].flushed => cache'[promises'[i].chain] = i
    BY <1>5, <1>8 DEF TvlOK
  <2>6. QED
    BY <1>5, <2>1, <2>2, <2>3, <2>4, <2>5 DEF TvlOK, Live
<1> HIDE DEF held
<1>12. CountOK'
  <2>1. \A j, S : promises'[j] = promises[j] => (Complete(j, S)' <=> Complete(j, S))
                                               /\ (PromiseOK(j)' <=> PromiseOK(j))
    <3>1. UNCHANGED ledger
      BY <1>5
    <3>2. QED
      BY <3>1 DEF Complete, PromiseOK, BalancesRead, HasSeparateUnlockBeneficiary
  <2>2. \A i \in PromiseId : Live(i)' => PromiseOK(i)'
    BY <1>8, <2>1 DEF CountOK
  <2>3. \A c \in Configured : cache[c] # None => Complete(cache[c], reported)'
    BY <1>5, <1>9, <2>1 DEF CountOK
  <2>4. ASSUME NEW q \in Configured, Waits(q)'
        PROVE  \A j, S : j = attempts'[q].promise /\ S = attempts'[q].reported =>
                 S \subseteq reported' /\ Complete(j, S)'
    BY <1>5, <1>6, <1>10, <2>1, <2>4 DEF CountOK
  <2>5. QED
    BY <1>5, <2>2, <2>3, <2>4 DEF CountOK, Complete
<1>13. QED
  BY <1>11, <1>12

(* A request of a computation.                                              *)
LEMMA ReadTvl ==
  ASSUME Base, TvlOK, CountOK, UNCHANGED <<reported, attempts>>, NEW i \in PromiseId,
         \/ TakerAccountBalance(i) \/ UnlockBeneficiaryAccountBalance(i)
         \/ PendingUnlockOrders(i) \/ ReadFails(i)
  PROVE  TvlOK' /\ CountOK'
<1> DEFINE c == promises[i].chain
<1>1. PICK r : r = promises'[i]
  OBVIOUS
<1>2. Live(i) /\ promises[i] \in Promise
  BY DEF TakerAccountBalance, UnlockBeneficiaryAccountBalance, PendingUnlockOrders, ReadFails,
         Reads, Running, TvlOK, Live
<1>3. ASSUME NEW from, NEW to \in Phase, NEW orders \in SUBSET OrderId, Reads(i, from, to, orders)
      PROVE  /\ promises[i].phase = from /\ UNCHANGED <<cache, ledger>>
             /\ promises' = [promises EXCEPT ![i] = r] /\ r \in Promise
             /\ r.phase = to /\ r.counted = promises[i].counted \cup orders
             /\ r.chain = c /\ r.claimedBefore = promises[i].claimedBefore
             /\ r.flushed = promises[i].flushed
  <2>1. PICK x : x = [promises[i] EXCEPT !.phase = to, !.counted = promises[i].counted \cup orders]
    OBVIOUS
  <2>2. /\ x \in Promise /\ x.phase = to /\ x.counted = promises[i].counted \cup orders
        /\ x.chain = c /\ x.claimedBefore = promises[i].claimedBefore
        /\ x.flushed = promises[i].flushed
    BY <1>2, <2>1 DEF Promise
  <2>3. /\ promises' = [promises EXCEPT ![i] = x]
        /\ promises[i].phase = from /\ UNCHANGED <<cache, ledger>>
    BY <1>3, <2>1 DEF Reads, TvlOK
  <2>4. r = x
    BY <1>1, <2>3 DEF TvlOK
  <2>5. QED
    BY <2>2, <2>3, <2>4
<1>4. /\ \/ /\ promises[i].phase = "taker" /\ r.phase = "beneficiary"
            /\ ~HasSeparateUnlockBeneficiary(c) => From(c, "claimed") \subseteq r.counted
         \/ /\ promises[i].phase = "beneficiary" /\ r.phase = "pending"
            /\ HasSeparateUnlockBeneficiary(c) => From(c, "claimed") \subseteq r.counted
         \/ /\ promises[i].phase = "pending" /\ r.phase = "done"
            /\ From(c, "indexed") \subseteq r.counted
         \/ r.phase = "failed"
      /\ promises' = [promises EXCEPT ![i] = r] /\ r \in Promise
      /\ promises[i].counted \subseteq r.counted
      /\ r.chain = c /\ r.claimedBefore = promises[i].claimedBefore
      /\ r.flushed = promises[i].flushed
      /\ UNCHANGED <<cache, ledger>>
  <2>1. From(c, "claimed") \in SUBSET OrderId /\ From(c, "indexed") \in SUBSET OrderId
    BY DEF From
  <2>2. CASE TakerAccountBalance(i)
    <3> DEFINE orders == IF HasSeparateUnlockBeneficiary(c) THEN {} ELSE From(c, "claimed")
    <3>1. orders \in SUBSET OrderId
      BY <2>1
    <3>2. Reads(i, "taker", "beneficiary", orders)
      BY <2>2 DEF TakerAccountBalance
    <3>3. /\ promises[i].phase = "taker" /\ UNCHANGED <<cache, ledger>>
          /\ promises' = [promises EXCEPT ![i] = r] /\ r \in Promise
          /\ r.phase = "beneficiary" /\ r.counted = promises[i].counted \cup orders
          /\ r.chain = c /\ r.claimedBefore = promises[i].claimedBefore
          /\ r.flushed = promises[i].flushed
      <4> HIDE DEF orders
      <4>1. QED
        BY <1>3, <3>1, <3>2 DEF Phase
    <3>4. QED
      BY <3>3
  <2>3. CASE UnlockBeneficiaryAccountBalance(i)
    <3> DEFINE orders == IF HasSeparateUnlockBeneficiary(c) THEN From(c, "claimed") ELSE {}
    <3>1. orders \in SUBSET OrderId
      BY <2>1
    <3>2. Reads(i, "beneficiary", "pending", orders)
      BY <2>3 DEF UnlockBeneficiaryAccountBalance
    <3>3. /\ promises[i].phase = "beneficiary" /\ UNCHANGED <<cache, ledger>>
          /\ promises' = [promises EXCEPT ![i] = r] /\ r \in Promise
          /\ r.phase = "pending" /\ r.counted = promises[i].counted \cup orders
          /\ r.chain = c /\ r.claimedBefore = promises[i].claimedBefore
          /\ r.flushed = promises[i].flushed
      <4> HIDE DEF orders
      <4>1. QED
        BY <1>3, <3>1, <3>2 DEF Phase
    <3>4. QED
      BY <3>3
  <2>4. CASE PendingUnlockOrders(i)
    <3>1. Reads(i, "pending", "done", From(c, "indexed"))
      BY <2>4 DEF PendingUnlockOrders
    <3>2. /\ promises[i].phase = "pending" /\ UNCHANGED <<cache, ledger>>
          /\ promises' = [promises EXCEPT ![i] = r] /\ r \in Promise
          /\ r.phase = "done" /\ r.counted = promises[i].counted \cup From(c, "indexed")
          /\ r.chain = c /\ r.claimedBefore = promises[i].claimedBefore
          /\ r.flushed = promises[i].flushed
      BY <1>3, <2>1, <3>1 DEF Phase
    <3>3. QED
      BY <3>2
  <2>5. CASE ReadFails(i)
    <3>1. PICK x : x = [promises[i] EXCEPT !.phase = "failed"]
      OBVIOUS
    <3>2. /\ x \in Promise /\ x.phase = "failed" /\ x.counted = promises[i].counted
          /\ x.chain = c /\ x.claimedBefore = promises[i].claimedBefore
          /\ x.flushed = promises[i].flushed
      BY <1>2, <3>1 DEF Promise, Phase
    <3>3. promises' = [promises EXCEPT ![i] = x] /\ UNCHANGED <<cache, ledger>>
      BY <2>5, <3>1 DEF ReadFails, TvlOK
    <3>4. r = x
      BY <1>1, <3>3 DEF TvlOK
    <3>5. QED
      BY <3>2, <3>3, <3>4
  <2>6. QED
    BY <2>2, <2>3, <2>4, <2>5
<1>5. \A j \in PromiseId : promises'[j] = IF j = i THEN r ELSE promises[j]
  BY <1>4 DEF TvlOK
<1>6. r # None
  BY <1>4, TvlAssumption
<1>7. \A j \in PromiseId : /\ Live(j)' <=> Live(j)
                           /\ Live(j) => /\ promises'[j].chain = promises[j].chain
                                         /\ promises'[j].flushed = promises[j].flushed
  BY <1>2, <1>4, <1>5, <1>6 DEF Live
<1>8. TvlOK'
  <2>1. promises' \in [PromiseId -> Promise \cup {None}]
    BY <1>4 DEF TvlOK
  <2>2. \A j \in PromiseId : Live(j)' =>
          \/ \E q \in Configured : Waits(q)' /\ attempts'[q].promise = j
          \/ \E d \in Configured : cache'[d] = j
    BY <1>4, <1>7 DEF TvlOK, Waits
  <2>3. \A d \in Configured : cache'[d] # None =>
          promises'[cache'[d]] # None /\ promises'[cache'[d]].chain = d /\ ~promises'[cache'[d]].flushed
    BY <1>4, <1>7 DEF TvlOK, Live
  <2>4. \A q \in Configured : Waits(q)' =>
          /\ promises'[attempts'[q].promise] # None
          /\ promises'[attempts'[q].promise].chain = Give(attempts'[q].order).chainId
    BY <1>7 DEF TvlOK, Live, Waits, Base, AttemptsOK, Attempt
  <2>5. \A j \in PromiseId : Live(j)' /\ ~promises'[j].flushed => cache'[promises'[j].chain] = j
    BY <1>4, <1>7 DEF TvlOK
  <2>6. QED
    BY <1>4, <2>1, <2>2, <2>3, <2>4, <2>5 DEF TvlOK, Live
<1>9. PromiseOK(i)'
  <2>1. PromiseOK(i)
    BY <1>2 DEF CountOK
  <2>2. \A o \in r.claimedBefore : ledger[o] = "claimed" /\ Give(o).chainId = c
    BY <1>4, <2>1 DEF PromiseOK
  <2>3. r.claimedBefore \subseteq From(c, "claimed")
    BY <1>4, <2>2 DEF From, Promise
  <2>4. \/ r.phase \in {"pending", "done"}
        \/ r.phase = "beneficiary" /\ ~HasSeparateUnlockBeneficiary(c)
        => r.claimedBefore \subseteq r.counted
    BY <1>4, <2>1, <2>3 DEF PromiseOK, BalancesRead
  <2>5. promises'[i] = r
    BY <1>5
  <2>6. QED
    BY <1>4, <2>2, <2>4, <2>5 DEF PromiseOK, BalancesRead, HasSeparateUnlockBeneficiary
<1>10. \A S : S \subseteq reported => Complete(i, S)'
  <2> SUFFICES ASSUME r.phase = "done", NEW o \in reported, Give(o).chainId = c
               PROVE  o \in r.counted \/ (ledger[o] = "claimed" /\ o \notin r.claimedBefore)
    BY <1>4, <1>5 DEF Complete
  <2>1. ledger[o] \in {"indexed", "claimed"} /\ o \in OrderId
    BY DEF CountOK, Base, WorldOK
  <2>2. From(c, "indexed") \subseteq r.counted
    BY <1>4 DEF Promise
  <2>3. CASE ledger[o] = "indexed"
    BY <2>1, <2>2, <2>3 DEF From
  <2>4. CASE ledger[o] = "claimed" /\ o \in r.claimedBefore
    BY <1>5, <1>9, <2>4 DEF PromiseOK, BalancesRead
  <2>5. QED
    BY <2>1, <2>3, <2>4
<1>11. \A j \in PromiseId : \A S :
         j # i => /\ (Complete(j, S)' <=> Complete(j, S))
                  /\ (PromiseOK(j)' <=> PromiseOK(j))
  BY <1>4, <1>5 DEF Complete, PromiseOK, BalancesRead, HasSeparateUnlockBeneficiary
<1>12. CountOK'
  <2>1. \A o \in reported : ledger'[o] \in {"indexed", "claimed"}
    BY <1>4 DEF CountOK
  <2>2. \A j \in PromiseId : Live(j)' => PromiseOK(j)'
    BY <1>7, <1>9, <1>11 DEF CountOK
  <2>3. \A d \in Configured : cache[d] # None => Complete(cache[d], reported)'
    <3> SUFFICES ASSUME NEW d \in Configured, cache[d] # None
                 PROVE  \A j, S : j = cache[d] /\ S = reported => Complete(j, S)'
      BY <1>4 DEF Complete
    <3>1. QED
      BY <1>10, <1>11 DEF CountOK, TvlOK
  <2>4. ASSUME NEW q \in Configured, Waits(q)
        PROVE  \A j, S : j = attempts[q].promise /\ S = attempts[q].reported =>
                 S \subseteq reported /\ Complete(j, S)'
    BY <1>10, <1>11, <2>4 DEF CountOK, Waits, Base, AttemptsOK, Attempt
  <2>5. QED
    BY <1>4, <2>1, <2>2, <2>3, <2>4 DEF CountOK, Complete, Waits
<1>13. QED
  BY <1>8, <1>12

-----------------------------------------------------------------------------
(* The inductive invariant.                                                 *)

Inv == Base /\ TvlOK /\ CountOK

LEMMA NextBase ==
  ASSUME Base, TvlOK, Next
  PROVE  Base'
<1>1. ASSUME NEW p \in Configured, AttemptStep(p) PROVE Base'
  <2>1. CASE AskTvl(p)
    BY <2>1, AskTvlBase, AskedPromise
  <2>2. CASE ~AskTvl(p)
    BY <1>1, <2>2, CheckOrderBase, CheckStatusBase, CheckFundsBase, AnswerTvlBase,
       CheckConstraintsBase, CheckRoughProfitabilityBase, EvmEstimationBase, RecheckBase,
       EstimateBase, FulfilBase, RecordBase DEF AttemptStep
  <2>3. QED
    BY <2>1, <2>2
<1>2. ledger \in [OrderId -> Status] /\ now \in 0..MaxTime
  BY DEF Base, WorldOK
<1>3. ASSUME NEW o \in OrderId, LedgerMoves(o) PROVE Base'
  BY <1>2, <1>3, WorldBase DEF LedgerMoves, Status
<1>4. ASSUME NEW i \in PromiseId, TvlStep(i) PROVE Base'
  BY <1>2, <1>4, WorldBase DEF TvlStep, TakerAccountBalance, UnlockBeneficiaryAccountBalance,
     PendingUnlockOrders, ReadFails, Reads
<1>5. ASSUME NEW c \in Configured, CacheExpires(c) PROVE Base'
  BY <1>2, <1>5, WorldBase DEF CacheExpires
<1>6. CASE Tick
  BY <1>2, <1>6, WorldBase, ValidationAssumption DEF Tick
<1>7. QED
  BY <1>1, <1>3, <1>4, <1>5, <1>6, CreatedBase, FulfilledBase, CancelledBase, TakeOrderBase
     DEF Next

(* An attempt that neither asks for the TVL nor is answered, nor flushes.   *)
LEMMA OtherAttempts ==
  ASSUME Base, Base', NEW p \in Configured, AttemptStep(p),
         ~AskTvl(p), ~AnswerTvl(p), ~Record(p)
  PROVE  SameWaits /\ UNCHANGED <<tvlVars, reported>>
<1> USE DEF At, untouched
<1>1. ASSUME Reject(p) \/ Postpone(p), attempts[p] # None, attempts[p].at # "await" PROVE SameWaits
  BY <1>1, QuietAttempt DEF Reject, Postpone
<1>2. ASSUME NEW stage \in Stage \ {"await"}, Proceed(p, stage),
             attempts[p] # None, attempts[p].at # "await"
      PROVE  SameWaits
  <2>1. PICK a : a = [attempts[p] EXCEPT !.at = stage]
    OBVIOUS
  <2>2. a.at = stage
    BY <1>2, <2>1, AttemptLemma DEF Attempt
  <2>3. QED
    BY <1>2, <2>1, <2>2, QuietAttempt DEF Proceed
<1>3. ASSUME Moves(p), attempts[p] # None, attempts[p].at # "await" PROVE SameWaits
  BY <1>3, QuietAttempt DEF Moves
<1>4. CASE CheckOrder(p)
  BY <1>1, <1>2, <1>4 DEF CheckOrder, Stage
<1>5. CASE CheckStatus(p, "status", "funds") \/ CheckStatus(p, "recheck", "estimate")
  <2>1. /\ attempts[p] # None /\ attempts[p].at \in {"status", "recheck"}
        /\ UNCHANGED <<tvlVars, reported>>
        /\ Reject(p) \/ Postpone(p) \/ \E to \in {"funds", "estimate"} : Proceed(p, to)
    BY <1>5 DEF CheckStatus
  <2>2. QED
    BY <1>1, <1>2, <2>1 DEF Stage
<1>6. ASSUME NEW balance, CheckFunds(p, balance) PROVE SameWaits /\ UNCHANGED <<tvlVars, reported>>
  <2>1. /\ attempts[p] # None /\ attempts[p].at = "funds" /\ UNCHANGED <<tvlVars, reported>>
        /\ Reject(p) \/ Postpone(p) \/ \E to \in {"tvl", "constraints"} : Proceed(p, to)
    BY <1>6 DEF CheckFunds
  <2>2. QED
    BY <1>1, <1>2, <2>1 DEF Stage
<1>7. CASE CheckConstraints(p)
  <2>1. /\ attempts[p] # None /\ attempts[p].at = "constraints" /\ UNCHANGED <<tvlVars, reported>>
        /\ Reject(p) \/ Postpone(p) \/ Proceed(p, "rough")
    BY <1>7 DEF CheckConstraints
  <2>2. QED
    BY <1>1, <1>2, <2>1 DEF Stage
<1>8. ASSUME NEW outcome, CheckRoughProfitability(p, outcome) PROVE SameWaits
  BY <1>3, <1>8, CheckRoughProfitabilityBase DEF CheckRoughProfitability
<1>9. CASE EvmEstimation(p)
  BY <1>3, <1>9, EvmEstimationBase DEF EvmEstimation
<1>10. CASE Estimate(p)
  BY <1>3, <1>10, EstimateBase DEF Estimate
<1>11. CASE Fulfil(p)
  BY <1>3, <1>11, FulfilBase DEF Fulfil
<1>12. UNCHANGED <<tvlVars, reported>>
  BY DEF AttemptStep, CheckOrder, CheckStatus, CheckFunds, CheckConstraints,
     CheckRoughProfitability, EvmEstimation, Estimate, Fulfil
<1>13. QED
  BY <1>4, <1>5, <1>6, <1>7, <1>8, <1>9, <1>10, <1>11, <1>12 DEF AttemptStep

LEMMA FlushOnly ==
  ASSUME Base, TvlOK, CountOK, SameWaits, UNCHANGED <<ledger, reported>>,
         NEW cs, Flush(cs, Awaited)
  PROVE  TvlOK' /\ CountOK'
<1>0. LedgerGrows
  BY DEF LedgerGrows
<1>1. PICK S : S = {}
  OBVIOUS
<1>2. /\ S \in SUBSET OrderId /\ reported' = reported \cup S
      /\ \A o \in S : Give(o).chainId \in cs /\ ledger[o] \in {"indexed", "claimed"}
  BY <1>1
<1>3. QED
  BY <1>0, <1>2, FlushTvl

LEMMA NextTvl ==
  ASSUME Inv, Next, Base', LedgerGrows
  PROVE  TvlOK' /\ CountOK'
<1> USE DEF Inv
<1>1. ASSUME UNCHANGED attempts PROVE SameWaits
  BY <1>1 DEF SameWaits, Waits
<1>2. ASSUME NEW o \in OrderId, Fulfilled(o) PROVE TvlOK' /\ CountOK'
  <2>1. PICK S, cs : /\ S = {x \in {o} : ledger[x] \in {"indexed", "claimed"}}
                     /\ cs = {Give(o).chainId, Take(o).chainId}
    OBVIOUS
  <2>2. /\ S \in SUBSET OrderId /\ reported' = reported \cup S
        /\ \A x \in S : Give(x).chainId \in cs /\ ledger[x] \in {"indexed", "claimed"}
        /\ Flush(cs, Awaited) /\ UNCHANGED attempts
    BY <1>2, <2>1 DEF Fulfilled
  <2>3. QED
    BY <1>1, <2>2, FlushTvl
<1>3. ASSUME NEW o \in OrderId, Cancelled(o) PROVE TvlOK' /\ CountOK'
  BY <1>1, <1>3, QuietTvl DEF Cancelled
<1>4. ASSUME NEW c \in Configured, CacheExpires(c) PROVE TvlOK' /\ CountOK'
  <2>1. Flush({c}, Awaited) /\ UNCHANGED <<ledger, attempts, reported>>
    BY <1>4 DEF CacheExpires
  <2>2. QED
    BY <1>1, <2>1, FlushOnly
<1>5. ASSUME NEW p \in Configured, AttemptStep(p) PROVE TvlOK' /\ CountOK'
  <2>1. CASE AskTvl(p)
    BY <2>1, AskTvlTvl
  <2>2. CASE AnswerTvl(p)
    BY <2>2, AnswerTvlTvl
  <2>3. CASE Record(p)
    <3>1. /\ attempts[p] # None /\ attempts[p].at = "record"
          /\ attempts' = [attempts EXCEPT ![p] = None]
          /\ Flush({Give(attempts[p].order).chainId}, Awaited)
          /\ UNCHANGED <<ledger, reported>>
      BY <2>3 DEF Record, Postpone, At
    <3>2. SameWaits
      BY <3>1, QuietAttempt
    <3>3. QED
      BY <3>1, <3>2, FlushOnly
  <2>4. CASE ~AskTvl(p) /\ ~AnswerTvl(p) /\ ~Record(p)
    BY <1>5, <2>4, OtherAttempts, QuietTvl
  <2>5. QED
    BY <2>1, <2>2, <2>3, <2>4
<1>6. ASSUME NEW o \in OrderId, TakeOrder(o) PROVE TvlOK' /\ CountOK'
  <2>1. PICK a : a = [order |-> o, finalization |-> known[o].finalization, at |-> "order",
                      payload |-> {}, promise |-> None, reported |-> {}]
    OBVIOUS
  <2>2. /\ attempts[Take(o).chainId] = None
        /\ attempts' = [attempts EXCEPT ![Take(o).chainId] = a] /\ a.promise = None
        /\ UNCHANGED <<tvlVars, reported>>
    BY <1>6, <2>1 DEF TakeOrder
  <2>3. \A q \in Configured : attempts'[q] = IF q = Take(o).chainId THEN a ELSE attempts[q]
    BY <2>2 DEF Base, AttemptsOK
  <2>4. SameWaits
    BY <2>2, <2>3 DEF SameWaits, Waits
  <2>5. QED
    BY <2>2, <2>4, QuietTvl
<1>7. ASSUME NEW i \in PromiseId, TvlStep(i) PROVE TvlOK' /\ CountOK'
  BY <1>7, ReadTvl DEF TvlStep
<1>8. ASSUME NEW o \in OrderId, LedgerMoves(o) \/ \E f \in Finalization : Created(o, f)
      PROVE  TvlOK' /\ CountOK'
  BY <1>1, <1>8, QuietTvl DEF LedgerMoves, Created
<1>9. CASE Tick
  BY <1>1, <1>9, QuietTvl DEF Tick
<1>10. QED
  BY <1>2, <1>3, <1>4, <1>5, <1>6, <1>7, <1>8, <1>9 DEF Next

LEMMA StutterInv ==
  ASSUME Inv, UNCHANGED vars
  PROVE  Inv'
<1> USE DEF Inv, vars
<1>1. Base'
  BY WorldBase DEF Base, WorldOK
<1>2. LedgerGrows /\ SameWaits /\ UNCHANGED <<tvlVars, reported>>
  BY DEF LedgerGrows, SameWaits, Waits, tvlVars
<1>3. QED
  BY <1>1, <1>2, QuietTvl

(* The inductive invariant holds of every execution: what the attempts know *)
(* of their order and left in the payload (order-validator.ts:47-72), and   *)
(* what the promises of the TVL count of the orders that the API listed     *)
(* when an event of them was handled (TVLBudgetController.ts:59-113).       *)
THEOREM Invariance == Spec => []Inv
<1>1. Init => Inv
  BY InitBase, InitTvl DEF Inv
<1>2. Inv /\ [Next]_vars => Inv'
  <2> SUFFICES ASSUME Inv, [Next]_vars PROVE Inv'
    OBVIOUS
  <2>1. CASE Next
    BY <2>1, NextBase, NextGrows, NextTvl DEF Inv
  <2>2. CASE UNCHANGED vars
    BY <2>2, StutterInv
  <2>3. QED
    BY <2>1, <2>2
<1>3. QED
  BY <1>1, <1>2, PTL DEF Spec

-----------------------------------------------------------------------------
(* The properties.                                                          *)

(* A range of the source chain is one of those it was configured with.      *)
LEMMA RangeIsConfigured ==
  ASSUME NEW o \in OrderId, NEW f, f # Finalized, NEW r \in SrcRange(o, f)
  PROVE  LET raw == Definition[Give(o).chainId].constraints.requiredConfirmationsThresholds
         IN \E i \in DOMAIN raw : /\ raw[i].minBlockConfirmations <= f
                                  /\ r.upperThreshold = raw[i].thresholdAmountInUSD
<1> DEFINE c == Give(o).chainId
           raw == Definition[c].constraints.requiredConfirmationsThresholds
           ranges == SrcRanges(c)
<1>1. DOMAIN ranges = DOMAIN raw
  BY DEF SrcRanges
<1>2. \A i \in DOMAIN raw : /\ ranges[i].minBlockConfirmations = raw[i].minBlockConfirmations
                            /\ ranges[i].upperThreshold = raw[i].thresholdAmountInUSD
  BY DEF SrcRanges
<1>3. \E i \in DOMAIN ranges : ranges[i].minBlockConfirmations <= BlockConfirmations(o, f) /\ r = ranges[i]
  <2> HIDE DEF ranges
  <2>1. r \in {ranges[i] : i \in {i \in {i \in DOMAIN ranges :
                 ranges[i].minBlockConfirmations <= BlockConfirmations(o, f)} :
               \A j \in {k \in DOMAIN ranges :
                  ranges[k].minBlockConfirmations <= BlockConfirmations(o, f)} :
                 \/ ranges[i].minBlockConfirmations > ranges[j].minBlockConfirmations
                 \/ /\ ranges[i].minBlockConfirmations = ranges[j].minBlockConfirmations
                    /\ \/ ranges[i].upperThreshold < ranges[j].upperThreshold
                       \/ ranges[i].upperThreshold = ranges[j].upperThreshold /\ i <= j}}
    BY DEF SrcRange, ranges
  <2>2. QED
    BY <2>1
<1>4. BlockConfirmations(o, f) = f
  BY DEF BlockConfirmations
<1> HIDE DEF ranges, raw
<1>5. \E i \in DOMAIN raw : /\ raw[i].minBlockConfirmations <= f
                            /\ r.upperThreshold = raw[i].thresholdAmountInUSD
  BY <1>1, <1>2, <1>3, <1>4
<1>6. QED
  BY <1>5 DEF raw

(* Half a cent at most is rounded away.                                     *)
LEMMA Rounding ==
  ASSUME NEW v \in Nat, NEW limit \in Nat, (v + 5) \div 10 <= 100 * limit
  PROVE  v < 1000 * limit + 5
OBVIOUS

(* The variables keep their types (processor.ts:127-148,                    *)
(* TVLBudgetController.ts:59-78).                                           *)
THEOREM TypeCorrect == Spec => []TypeOK
<1>1. Inv => TypeOK
  BY DEF Inv, Base, WorldOK, KnownOK, AttemptsOK, TvlOK, Sound, TypeOK, Status, Known
<1>2. QED
  BY <1>1, Invariance, PTL

(* An order is fulfilled before it is final only where a configured range   *)
(* allows its worth at a number of confirmations that the feed announced    *)
(* it with (order-validator.ts:202-234).                                    *)
THEOREM WithinRange == Spec => []UnfinalizedWithinRange
<1>1. Inv => UnfinalizedWithinRange
  <2> SUFFICES ASSUME Inv, NEW p \in Configured, At(p, "fulfil") PROVE
        LET o == attempts[p].order
            raw == Definition[Give(o).chainId].constraints.requiredConfirmationsThresholds
        IN \/ announced[o] = Finalized
           \/ \E i \in DOMAIN raw :
                /\ raw[i].minBlockConfirmations <= announced[o]
                /\ UsdValueOfAsset(Give(o)) < 1000 * raw[i].thresholdAmountInUSD + 5
    BY DEF UnfinalizedWithinRange
  <2> DEFINE o == attempts[p].order
             f == attempts[p].finalization
             g == announced[o]
             raw == Definition[Give(o).chainId].constraints.requiredConfirmationsThresholds
  <2>1. /\ o \in OrderId /\ f \in Finalization /\ Reached(f, g) /\ AcceptsUnfinalized(o, f)
        /\ g \in Finalization
    BY AttemptLemma DEF Inv, Base, WorldOK, At, Sound, Late, Reached
  <2>2. CASE g = Finalized
    BY <2>2
  <2>3. CASE g # Finalized
    <3>1. f # Finalized /\ f \in Nat /\ g \in Nat /\ f <= g
      BY <2>1, <2>3, ValidationAssumption DEF Reached
    <3>2. PICK r \in SrcRange(o, f) : GetUsdValue(o) <= 100 * r.upperThreshold
      BY <2>1, <3>1 DEF AcceptsUnfinalized
    <3>3. PICK i \in DOMAIN raw : /\ raw[i].minBlockConfirmations <= f
                                  /\ r.upperThreshold = raw[i].thresholdAmountInUSD
      BY <2>1, <3>1, <3>2, RangeIsConfigured
    <3>4. /\ raw[i].minBlockConfirmations \in Nat /\ raw[i].thresholdAmountInUSD \in Nat
          /\ UsdValueOfAsset(Give(o)) \in Nat
      BY <2>1, <3>3, ChainsConfigured, ExecutorAssumption, ValidationAssumption
    <3>5. UsdValueOfAsset(Give(o)) < 1000 * raw[i].thresholdAmountInUSD + 5
      BY <3>2, <3>3, <3>4, Rounding DEF GetUsdValue
    <3>6. raw[i].minBlockConfirmations <= g
      BY <3>1, <3>3, <3>4
    <3> HIDE DEF raw, o
    <3>7. \E j \in DOMAIN raw : /\ raw[j].minBlockConfirmations <= g
                                /\ UsdValueOfAsset(Give(o)) < 1000 * raw[j].thresholdAmountInUSD + 5
      BY <3>3, <3>5, <3>6
    <3>8. QED
      BY <3>7 DEF raw, o
  <2>4. QED
    BY <2>2, <2>3
<1>2. QED
  BY <1>1, Invariance, PTL

(* No assertion about the payload ever fails                                *)
(* (order-evaluation-context.ts:22, order-estimator.ts:94,                  *)
(* createOrderFullfillTx.ts:17 and 59).                                     *)
THEOREM PayloadComplete == Spec => []AssertionsHold
<1>1. Inv => AssertionsHold
  BY DEF Inv, Base, AssertionsHold
<1>2. QED
  BY <1>1, Invariance, PTL

(* The TVL an attempt is answered with has every order that the API listed  *)
(* when an event of it was handled, if that was before the attempt asked    *)
(* (TVLBudgetController.ts:10 and 55-113).  An order whose event came       *)
(* before the API listed it may be missing, and the theorem leaves it out.  *)
THEOREM NothingMissed == Spec => []FlushedOrdersCounted
<1>1. Inv => FlushedOrdersCounted
  <2> SUFFICES ASSUME Inv, NEW p \in Configured, At(p, "await"),
                      promises[attempts[p].promise].phase = "done",
                      NEW o \in attempts[p].reported,
                      Give(o).chainId = promises[attempts[p].promise].chain
               PROVE  \/ o \in promises[attempts[p].promise].counted
                      \/ /\ o \in From(promises[attempts[p].promise].chain, "claimed")
                         /\ o \notin promises[attempts[p].promise].claimedBefore
    BY DEF FlushedOrdersCounted
  <2>1. Waits(p)
    BY DEF Inv, Base, AttemptsOK, Sound, At, Waits
  <2>2. o \in OrderId /\ Complete(attempts[p].promise, attempts[p].reported)
    BY <2>1 DEF Inv, CountOK, Base, WorldOK
  <2>3. QED
    BY <2>2 DEF Complete, From
<1>2. QED
  BY <1>1, Invariance, PTL

(* Of the computations that run for a chain, only one was not let go of     *)
(* (TVLBudgetController.ts:59-69).                                          *)
THEOREM OneComputation == Spec => []SharedComputation
<1>1. Inv => SharedComputation
  BY DEF Inv, TvlOK, SharedComputation, Running, Live
<1>2. QED
  BY <1>1, Invariance, PTL
=============================================================================
