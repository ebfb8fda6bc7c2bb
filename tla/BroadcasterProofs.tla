-------------------------- MODULE BroadcasterProofs --------------------------
(***************************************************************************)
(* Proofs about Broadcaster, for any calls, chains, markets and bounds.    *)
(***************************************************************************)
EXTENDS Broadcaster, TLAPS

-----------------------------------------------------------------------------
(* Lemmas about the prices.                                                 *)

LEMMA ScaledLemma ==
  ASSUME NEW x \in Nat, NEW y \in Nat
  PROVE  Scaled(x, y) \in Nat
BY DEF Scaled, Unit

LEMMA RoundedLemma ==
  ASSUME NEW x \in Nat
  PROVE  (x + Unit \div 2) \div Unit \in Nat
BY DEF Unit

LEMMA MaxOfTwoLemma ==
  ASSUME NEW x \in Nat, NEW y \in Nat
  PROVE  Max({x, y}) \in Nat
<1>1. \E m \in {x, y} : \A z \in {x, y} : m >= z
  <2>1. CASE x >= y
    BY <2>1
  <2>2. CASE y >= x
    BY <2>2
  <2>3. QED
    BY <2>1, <2>2
<1>2. Max({x, y}) \in {x, y}
  BY <1>1 DEF Max
<1>3. QED
  BY <1>2

LEMMA EffectiveCategoryLemma ==
  ASSUME NEW ch, NEW category \in {"AGGRESSIVE", "undefined"}
  PROVE  EffectiveCategory(ch, category) \in GasCategory
BY DEF EffectiveCategory, GasCategory

LEMMA PopulateTxLemma ==
  ASSUME NEW ch \in Chains, NEW mkt \in Markets
  PROVE  PopulateTx(ch, "undefined", mkt) \in Price
<1> DEFINE category == EffectiveCategory(ch, "undefined")
<1>1. Fetched[ch][category][mkt] \in [baseFee: Nat, tip: Nat, max: Nat]
  BY EffectiveCategoryLemma, FeesAssumption
<1>2. QED
  BY <1>1 DEF PopulateTx, Price

LEMMA PopulateReplacementTxLemma ==
  ASSUME NEW ch \in Chains, NEW mkt \in Markets, NEW old \in Price,
         NEW category \in {"AGGRESSIVE", "undefined"}
  PROVE  PopulateReplacementTx(ch, old, category, mkt) \in Price
<1> DEFINE fee == Fetched[ch][EffectiveCategory(ch, category)][mkt]
           tip == Max({fee.tip, Scaled(old.tip, ReplaceBumper(ch))})
           max == Max({fee.baseFee + tip, Scaled(old.max, ReplaceBumper(ch))})
<1>1. fee \in [baseFee: Nat, tip: Nat, max: Nat]
  BY EffectiveCategoryLemma, FeesAssumption
<1>2. ReplaceBumper(ch) \in Nat
  BY FeesAssumption DEF ReplaceBumper
<1>3. /\ Scaled(old.tip, ReplaceBumper(ch)) \in Nat
      /\ Scaled(old.max, ReplaceBumper(ch)) \in Nat
  BY <1>2, ScaledLemma DEF Price
<1>4. tip \in Nat
  BY <1>1, <1>3, MaxOfTwoLemma
<1>5. max \in Nat
  <2> HIDE DEF fee, tip
  <2>1. fee.baseFee + tip \in Nat
    BY <1>1, <1>4
  <2>2. QED
    BY <2>1, <1>3, MaxOfTwoLemma
<1>6. PopulateReplacementTx(ch, old, category, mkt) =
        [tip |-> tip, max |-> IF IsLegacy(ch) THEN tip ELSE max]
  BY DEF PopulateReplacementTx
<1> HIDE DEF tip, max
<1>7. [tip |-> tip, max |-> IF IsLegacy(ch) THEN tip ELSE max] \in Price
  BY <1>4, <1>5 DEF Price
<1>8. QED
  BY <1>6, <1>7

LEMMA EstimatedFeeLemma ==
  ASSUME NEW ch \in Chains, NEW mkt \in Markets
  PROVE  EstimatedFee(ch, mkt) \in Nat
<1>1. GetGasPrice(ch, "PROJECTED", mkt) \in Nat
  BY FeesAssumption DEF GetGasPrice, GasCategory
<1>2. EstimateTx(ch) \in Nat
  <2> DEFINE multiplier == FeeOpts[ch].gasLimitMultiplier
  <2>1. GasLimit \in Nat /\ multiplier \in Nat
    BY FeesAssumption
  <2>2. GasLimit * multiplier \in Nat
    <3> HIDE DEF multiplier
    <3> QED BY <2>1
  <2>3. QED
    BY <2>2, RoundedLemma DEF EstimateTx
<1>3. QED
  BY <1>1, <1>2 DEF EstimatedFee

-----------------------------------------------------------------------------
(* The types.                                                               *)

LEMMA MarketLemma ==
  ASSUME TypeOK
  PROVE  market \in Markets
BY DEF TypeOK, market

LEMMA LatestLemma ==
  ASSUME TypeOK, NEW c \in Call, broadcasts[c] # <<>>
  PROVE  /\ Len(broadcasts[c]) \in DOMAIN broadcasts[c]
         /\ Latest(c) \in Broadcast
         /\ Latest(c) = broadcasts[c][Len(broadcasts[c])]
BY DEF TypeOK, Latest

LEMMA TemplateNonceLemma ==
  ASSUME TypeOK, NEW c \in Call
  PROVE  TemplateNonce(c) \in Nat
<1>1. CASE broadcasts[c] = <<>>
  BY <1>1 DEF TemplateNonce, NextNonce, TypeOK
<1>2. CASE broadcasts[c] # <<>>
  <2>1. Latest(c).nonce \in Nat
    BY <1>2, LatestLemma DEF Broadcast
  <2>2. QED
    BY <1>2, <2>1 DEF TemplateNonce
<1>3. QED
  BY <1>1, <1>2

(* What is pushed is one more broadcast, or nothing.                        *)
LEMMA PushLemma ==
  ASSUME TypeOK, NEW c \in Call, NEW n \in Nat, NEW price \in Price,
         PushPriced(c, n, price)
  PROVE  /\ TypeOK'
         /\ UNCHANGED <<chain, cap, nonce, polls, result, nodeVars>>
         /\ \/ pc' = [pc EXCEPT ![c] = "seek"] /\ UNCHANGED broadcasts
            \/ /\ pc' = [pc EXCEPT ![c] = "publish"]
               /\ broadcasts' = [broadcasts EXCEPT ![c] =
                    Append(@, [nonce |-> n, price |-> price, hash |-> FALSE])]
<1>1. UNCHANGED <<chain, cap, nonce, polls, result, nodeVars>>
  BY DEF PushPriced
<1>2. CASE pc' = [pc EXCEPT ![c] = "seek"] /\ UNCHANGED broadcasts
  BY <1>1, <1>2 DEF TypeOK, nodeVars, PC
<1>3. CASE ~(pc' = [pc EXCEPT ![c] = "seek"] /\ UNCHANGED broadcasts)
  <2> DEFINE b == [nonce |-> n, price |-> price, hash |-> FALSE]
  <2>1. /\ AttemptsLeft(c)
        /\ pc' = [pc EXCEPT ![c] = "publish"]
        /\ broadcasts' = [broadcasts EXCEPT ![c] = Append(@, b)]
    BY <1>3 DEF PushPriced, InitiateBroadcast, Goto
  <2>2. b \in Broadcast
    BY DEF Broadcast
  <2> HIDE DEF b
  <2>3. broadcasts' \in [Call -> Seq(Broadcast)]
    BY <2>1, <2>2 DEF TypeOK
  <2>4. \A d \in Call : Len(broadcasts'[d]) <= SendMaxAttempts
    BY <2>1, <2>2 DEF TypeOK, AttemptsLeft
  <2>5. pc' \in [Call -> PC]
    BY <2>1 DEF TypeOK, PC
  <2>6. TypeOK'
    BY <1>1, <2>3, <2>4, <2>5 DEF TypeOK, nodeVars
  <2>7. QED
    BY <1>1, <2>1, <2>6 DEF b
<1>4. QED
  BY <1>1, <1>2, <1>3

(* What is published was broadcast last.                                    *)
LEMMA AcceptedLemma ==
  ASSUME TypeOK, NEW c \in Call, broadcasts[c] # <<>>, Accepted(c)
  PROVE  \E p \in [call: Call, attempt: Nat, nonce: Nat, price: Price] :
           /\ p.call = c /\ p.nonce = Latest(c).nonce
           /\ ~SpentNonce(p.nonce)
           /\ pool' = pool \cup {p}
<1> DEFINE p == Published(c, Len(broadcasts[c]))
<1>1. Latest(c) \in Broadcast /\ Latest(c) = broadcasts[c][Len(broadcasts[c])]
  BY LatestLemma
<1>2. p = [call |-> c, attempt |-> Len(broadcasts[c]), nonce |-> Latest(c).nonce,
           price |-> Latest(c).price]
  BY <1>1 DEF Published
<1>3. Len(broadcasts[c]) \in Nat
  BY DEF TypeOK
<1>4. p \in [call: Call, attempt: Nat, nonce: Nat, price: Price]
  BY <1>1, <1>2, <1>3 DEF Broadcast
<1>5. ~SpentNonce(p.nonce) /\ pool' = pool \cup {p}
  BY DEF Accepted
<1>6. QED
  BY <1>2, <1>4, <1>5

-----------------------------------------------------------------------------
(* The inductive invariant.  A nonce that any broadcaster holds is at most  *)
(* the next one, so what the node accepts, which is not spent, has the next *)
(* nonce: this makes NoNonceGap inductive.  And a call that succeeded would *)
(* fail its estimation, and holds spent nonces only, so that nothing of it  *)
(* can be accepted any more: this makes NothingAfterSuccess inductive.      *)

Pushed ==
  \A c \in Call :
    /\ pc[c] \in {"publish", "poll", "replace"} => broadcasts[c] # <<>>
    /\ pc[c] \in {"absent", "idle"} => broadcasts[c] = <<>>

NoncesReached ==
  \A c \in Call :
    /\ pc[c] = "push" => nonce[c] <= NextNonce
    /\ \A i \in DOMAIN broadcasts[c] : broadcasts[c][i].nonce <= NextNonce
    /\ pc[c] = "template" /\ broadcasts[c] # <<>> => Latest(c).nonce < NextNonce

SucceededIsOver ==
  \A c \in Call \ Repeatable : Succeeded(c) =>
    /\ \A p \in pool : p.call # c
    /\ pc[c] = "push" => nonce[c] < NextNonce
    /\ \A i \in DOMAIN broadcasts[c] : broadcasts[c][i].nonce < NextNonce

NonceInv == NoNonceGap /\ NoncesReached
OnceInv == SucceededIsOver /\ NothingAfterSuccess
IInv == TypeOK /\ Pushed /\ NonceInv /\ OnceInv /\ ReportsTheChain

LEMMA InitInv == Init => IInv
<1> SUFFICES ASSUME Init PROVE IInv
  OBVIOUS
<1>1. PICK scenario \in Scenarios :
        /\ chain = scenario.chain
        /\ pc = [c \in Call |-> IF c \in scenario.calls THEN "idle" ELSE "absent"]
        /\ trend = scenario.trend
  BY DEF Init
<1>2. scenario \in [chain: Chains, calls: SUBSET Call, trend: Seq(Markets) \ {<<>>}]
  BY BroadcasterAssumption
<1>3. TypeOK
  <2>1. chain \in Chains /\ pc \in [Call -> PC] /\ trend \in Seq(Markets) \ {<<>>}
    BY <1>1, <1>2 DEF PC
  <2>2. broadcasts \in [Call -> Seq(Broadcast)] /\ \A c \in Call : Len(broadcasts[c]) = 0
    BY DEF Init
  <2>3. mined \in Seq([call: Call, attempt: Nat, status: BOOLEAN])
    BY DEF Init
  <2>4. QED
    BY <2>1, <2>2, <2>3, BroadcasterAssumption DEF Init, TypeOK, Result
<1>4. \A c \in Call : pc[c] \in {"idle", "absent"} /\ broadcasts[c] = <<>>
  BY <1>1 DEF Init
<1>5. Pushed /\ NonceInv
  BY <1>4 DEF Init, Pushed, NonceInv, NoNonceGap, NoncesReached
<1>6. OnceInv /\ ReportsTheChain
  BY DEF Init, OnceInv, SucceededIsOver, NothingAfterSuccess, Succeeded, ReportsTheChain
<1>7. QED
  BY <1>3, <1>5, <1>6 DEF IInv

(* A step of one broadcaster that holds no new nonce and ends nothing.      *)
LEMMA QuietStep ==
  ASSUME IInv, TypeOK', NEW c \in Call, NEW label \in PC \ {"absent", "idle", "push"},
         pc' = [pc EXCEPT ![c] = label],
         UNCHANGED <<nonce, broadcasts, result, pool, mined>>,
         label \in {"publish", "poll", "replace"} => broadcasts[c] # <<>>,
         label = "template" /\ broadcasts[c] # <<>> => Latest(c).nonce < NextNonce
  PROVE  IInv'
<1>1. \A d \in Call : pc'[d] = IF d = c THEN label ELSE pc[d]
  BY DEF IInv, TypeOK
<1>2. NextNonce' = NextNonce /\ \A d \in Call : Latest(d)' = Latest(d)
  BY DEF NextNonce, Latest
<1>3. Pushed'
  BY <1>1 DEF IInv, Pushed
<1>4. NonceInv'
  BY <1>1, <1>2 DEF IInv, NonceInv, NoNonceGap, NoncesReached
<1>5. OnceInv'
  BY <1>1, <1>2 DEF IInv, OnceInv, SucceededIsOver, NothingAfterSuccess, Succeeded
<1>6. ReportsTheChain'
  BY DEF IInv, ReportsTheChain, Receipt
<1>7. QED
  BY <1>3, <1>4, <1>5, <1>6 DEF IInv

(* The end of a call, with what the chain says if it says anything.         *)
LEMMA EndStep ==
  ASSUME IInv, NEW c \in Call, NEW r \in Result,
         pc' = [pc EXCEPT ![c] = "done"],
         result' = [result EXCEPT ![c] = r],
         UNCHANGED <<chain, cap, nonce, broadcasts, polls, nodeVars>>,
         r \in {"success", "reverted"} =>
           \E j \in DOMAIN mined : mined[j].call = c /\ Receipt(j) = r
  PROVE  IInv'
<1>1. \A d \in Call :
        /\ pc'[d] = IF d = c THEN "done" ELSE pc[d]
        /\ result'[d] = IF d = c THEN r ELSE result[d]
  BY DEF IInv, TypeOK
<1>2. NextNonce' = NextNonce /\ \A d \in Call : Latest(d)' = Latest(d)
  BY DEF NextNonce, Latest, nodeVars
<1>3. TypeOK'
  BY DEF IInv, TypeOK, PC, nodeVars
<1>4. Pushed'
  BY <1>1 DEF IInv, Pushed
<1>5. NonceInv'
  BY <1>1, <1>2 DEF IInv, NonceInv, NoNonceGap, NoncesReached, nodeVars
<1>6. OnceInv'
  BY <1>1, <1>2 DEF IInv, OnceInv, SucceededIsOver, NothingAfterSuccess, Succeeded, nodeVars
<1>7. ReportsTheChain'
  BY <1>1 DEF IInv, ReportsTheChain, Receipt, nodeVars
<1>8. QED
  BY <1>3, <1>4, <1>5, <1>6, <1>7 DEF IInv

-----------------------------------------------------------------------------
(* The steps of a broadcaster.                                              *)

LEMMA SendTransactionInv ==
  ASSUME IInv, NEW c \in Call, SendTransaction(c)
  PROVE  IInv'
<1>1. broadcasts[c] = <<>>
  BY DEF IInv, Pushed, SendTransaction
<1>2. cap' \in [Call -> Nat]
  <2>1. EstimatedFee(chain, market) \in Nat
    BY MarketLemma, EstimatedFeeLemma DEF IInv, TypeOK
  <2>2. QED
    BY <2>1 DEF IInv, TypeOK, SendTransaction
<1>3. TypeOK'
  BY <1>2 DEF IInv, TypeOK, SendTransaction, Goto, PC, nodeVars
<1>4. QED
  BY <1>1, <1>3, QuietStep DEF SendTransaction, Goto, PC, nodeVars

LEMMA GetTransactionTemplateInv ==
  ASSUME IInv, NEW c \in Call, GetTransactionTemplate(c)
  PROVE  IInv'
<1> USE DEF IInv, GetTransactionTemplate, Goto, nodeVars
<1>1. TemplateNonce(c) \in Nat
  BY TemplateNonceLemma
<1>2. TemplateNonce(c) <= NextNonce
  <2>1. CASE broadcasts[c] = <<>>
    BY <1>1, <2>1 DEF TemplateNonce
  <2>2. CASE broadcasts[c] # <<>>
    <3>1. Latest(c).nonce \in Nat /\ NextNonce \in Nat
      <4>1. Latest(c) \in Broadcast
        BY <2>2, LatestLemma
      <4>2. QED
        BY <4>1 DEF Broadcast, NextNonce, TypeOK
    <3>2. Latest(c).nonce < NextNonce
      BY <2>2 DEF NonceInv, NoncesReached
    <3>3. QED
      BY <2>2, <3>1, <3>2 DEF TemplateNonce
  <2>3. QED
    BY <2>1, <2>2
<1>3. \A d \in Call :
        /\ pc'[d] = IF d = c THEN "push" ELSE pc[d]
        /\ nonce'[d] = IF d = c THEN TemplateNonce(c) ELSE nonce[d]
  BY DEF TypeOK
<1>4. NextNonce' = NextNonce /\ \A d \in Call : Latest(d)' = Latest(d)
  BY DEF NextNonce, Latest
<1>5. TypeOK'
  BY <1>1 DEF TypeOK, PC
<1>6. Pushed'
  BY <1>3 DEF Pushed
<1>7. NonceInv'
  BY <1>2, <1>3, <1>4 DEF NonceInv, NoNonceGap, NoncesReached
<1>8. OnceInv'
  <2>1. c \in Repeatable \/ ~Succeeded(c)
    BY DEF EstimationPasses, MaySucceed
  <2>2. \A d \in Call : Succeeded(d)' = Succeeded(d)
    BY DEF Succeeded
  <2>3. SucceededIsOver'
    BY <1>3, <1>4, <2>1, <2>2 DEF OnceInv, SucceededIsOver
  <2>4. QED
    BY <2>3 DEF OnceInv, NothingAfterSuccess
<1>9. ReportsTheChain'
  BY DEF ReportsTheChain, Receipt
<1>10. QED
  BY <1>5, <1>6, <1>7, <1>8, <1>9

LEMMA TemplateFailsInv ==
  ASSUME IInv, NEW c \in Call, TemplateFails(c)
  PROVE  IInv'
<1>1. CASE broadcasts[c] = <<>>
  BY <1>1, EndStep DEF TemplateFails, Fail, Goto, Result
<1>2. CASE broadcasts[c] # <<>>
  <2>1. pc' = [pc EXCEPT ![c] = "seek"]
    BY <1>2 DEF TemplateFails, Goto
  <2>2. TypeOK'
    BY <1>2, <2>1 DEF IInv, TypeOK, TemplateFails, PC, nodeVars
  <2>3. QED
    BY <1>2, <2>1, <2>2, QuietStep DEF TemplateFails, PC, nodeVars
<1>3. QED
  BY <1>1, <1>2

(* What is pushed has a nonce that was reached, and a spent one if the call *)
(* succeeded.                                                               *)
LEMMA PushInv ==
  ASSUME IInv, NEW c \in Call, NEW n \in Nat, NEW price \in Price,
         pc[c] \in {"push", "replace"},
         PushPriced(c, n, price),
         n <= NextNonce,
         c \notin Repeatable /\ Succeeded(c) => n < NextNonce
  PROVE  IInv'
<1> DEFINE b == [nonce |-> n, price |-> price, hash |-> FALSE]
<1>1. /\ TypeOK'
      /\ UNCHANGED <<chain, cap, nonce, polls, result, nodeVars>>
      /\ \/ pc' = [pc EXCEPT ![c] = "seek"] /\ UNCHANGED broadcasts
         \/ /\ pc' = [pc EXCEPT ![c] = "publish"]
            /\ broadcasts' = [broadcasts EXCEPT ![c] = Append(@, b)]
  BY PushLemma DEF IInv
<1>2. CASE pc' = [pc EXCEPT ![c] = "seek"] /\ UNCHANGED broadcasts
  BY <1>1, <1>2, QuietStep DEF PC, nodeVars
<1>3. CASE /\ pc' = [pc EXCEPT ![c] = "publish"]
           /\ broadcasts' = [broadcasts EXCEPT ![c] = Append(@, b)]
  <2>1. b \in Broadcast /\ b.nonce = n
    BY DEF Broadcast
  <2> HIDE DEF b
  <2>2. \A d \in Call :
        /\ pc'[d] = IF d = c THEN "publish" ELSE pc[d]
        /\ d # c => broadcasts'[d] = broadcasts[d]
    BY <1>3 DEF IInv, TypeOK
  <2>3. broadcasts[c] \in Seq(Broadcast) /\ broadcasts'[c] = Append(broadcasts[c], b)
    BY <1>3 DEF IInv, TypeOK
  <2>4. broadcasts'[c] # <<>>
    BY <2>1, <2>3
  <2>5. \A i \in DOMAIN broadcasts'[c] :
          \/ i \in DOMAIN broadcasts[c] /\ broadcasts'[c][i] = broadcasts[c][i]
          \/ broadcasts'[c][i] = b
    BY <2>1, <2>3
  <2>6. UNCHANGED <<pool, mined, nonce, result>>
    BY <1>1 DEF nodeVars
  <2>7. NextNonce' = NextNonce
    BY <2>6 DEF NextNonce
  <2>8. Pushed'
    BY <2>2, <2>4 DEF IInv, Pushed
  <2>9. NonceInv'
    <3>1. \A d \in Call : \A i \in DOMAIN broadcasts'[d] : broadcasts'[d][i].nonce <= NextNonce
      BY <2>1, <2>2, <2>5 DEF IInv, NonceInv, NoncesReached
    <3>2. \A d \in Call : d # c => Latest(d)' = Latest(d)
      BY <2>2 DEF Latest
    <3>3. QED
      BY <2>2, <2>6, <2>7, <3>1, <3>2
         DEF IInv, NonceInv, NoNonceGap, NoncesReached
  <2>10. OnceInv'
    <3>1. \A d \in Call : Succeeded(d)' = Succeeded(d)
      BY <2>6 DEF Succeeded
    <3>2. \A d \in Call \ Repeatable : Succeeded(d) =>
            \A i \in DOMAIN broadcasts'[d] : broadcasts'[d][i].nonce < NextNonce
      BY <2>1, <2>2, <2>5 DEF IInv, OnceInv, SucceededIsOver
    <3>3. SucceededIsOver'
      BY <2>2, <2>6, <2>7, <3>1, <3>2 DEF IInv, OnceInv, SucceededIsOver
    <3>4. QED
      BY <2>6, <3>3 DEF IInv, OnceInv, NothingAfterSuccess
  <2>11. ReportsTheChain'
    BY <2>6 DEF IInv, ReportsTheChain, Receipt
  <2>12. QED
    BY <1>1, <2>8, <2>9, <2>10, <2>11 DEF IInv
<1>4. QED
  BY <1>1, <1>2, <1>3

LEMMA NextNonceLemma ==
  ASSUME TypeOK
  PROVE  NextNonce \in Nat /\ NextNonce = Len(mined)
BY DEF TypeOK, NextNonce

LEMMA PushTransactionInv ==
  ASSUME IInv, NEW c \in Call, PushTransaction(c)
  PROVE  IInv'
<1>1. PopulateTx(chain, "undefined", market) \in Price
  BY MarketLemma, PopulateTxLemma DEF IInv, TypeOK
<1>2. pc[c] = "push" /\ PushPriced(c, nonce[c], PopulateTx(chain, "undefined", market))
  BY DEF PushTransaction
<1>3. nonce[c] \in Nat /\ nonce[c] <= NextNonce
  BY <1>2 DEF IInv, TypeOK, NonceInv, NoncesReached
<1>4. c \notin Repeatable /\ Succeeded(c) => nonce[c] < NextNonce
  BY <1>2 DEF IInv, OnceInv, SucceededIsOver
<1>5. QED
  BY <1>1, <1>2, <1>3, <1>4, PushInv

LEMMA PushReplacementTransactionInv ==
  ASSUME IInv, NEW c \in Call, PushReplacementTransaction(c)
  PROVE  IInv'
<1>1. pc[c] = "replace" /\ broadcasts[c] # <<>>
  BY DEF IInv, Pushed, PushReplacementTransaction
<1>2. /\ Len(broadcasts[c]) \in DOMAIN broadcasts[c]
      /\ Latest(c) \in Broadcast
      /\ Latest(c) = broadcasts[c][Len(broadcasts[c])]
  BY <1>1, LatestLemma DEF IInv
<1>3. PICK category \in {"AGGRESSIVE", "undefined"} :
        PushPriced(c, Latest(c).nonce,
                   PopulateReplacementTx(chain, Latest(c).price, category, market))
  BY DEF PushReplacementTransaction
<1>4. Latest(c).nonce \in Nat /\ Latest(c).price \in Price
  BY <1>2 DEF Broadcast
<1>5. PopulateReplacementTx(chain, Latest(c).price, category, market) \in Price
  BY <1>4, MarketLemma, PopulateReplacementTxLemma DEF IInv, TypeOK
<1>6. Latest(c).nonce <= NextNonce
  BY <1>2 DEF IInv, NonceInv, NoncesReached
<1>7. c \notin Repeatable /\ Succeeded(c) => Latest(c).nonce < NextNonce
  BY <1>2 DEF IInv, OnceInv, SucceededIsOver
<1>8. QED
  BY <1>1, <1>3, <1>4, <1>5, <1>6, <1>7, PushInv

LEMMA PricingFailsInv ==
  ASSUME IInv, NEW c \in Call, PricingFails(c)
  PROVE  IInv'
<1>1. TypeOK'
  BY DEF IInv, TypeOK, PricingFails, Goto, PC, nodeVars
<1>2. QED
  BY <1>1, QuietStep DEF PricingFails, Goto, PC, nodeVars

(* What the node accepts has the next nonce, and is not of a call that      *)
(* succeeded.                                                               *)
LEMMA AcceptedInv ==
  ASSUME IInv, NEW c \in Call, pc[c] = "publish", Accepted(c),
         UNCHANGED <<nonce, result, mined>>,
         TypeOK', NEW label \in {"poll", "seek"}, pc' = [pc EXCEPT ![c] = label],
         \A d \in Call :
           /\ broadcasts[d] # <<>> => broadcasts'[d] # <<>>
           /\ d # c => broadcasts'[d] = broadcasts[d]
           /\ DOMAIN broadcasts'[d] = DOMAIN broadcasts[d]
           /\ \A i \in DOMAIN broadcasts[d] : broadcasts'[d][i].nonce = broadcasts[d][i].nonce
  PROVE  IInv'
<1>1. broadcasts[c] # <<>>
  BY DEF IInv, Pushed
<1>2. PICK p \in [call: Call, attempt: Nat, nonce: Nat, price: Price] :
        /\ p.call = c /\ p.nonce = Latest(c).nonce
        /\ ~SpentNonce(p.nonce)
        /\ pool' = pool \cup {p}
  BY <1>1, AcceptedLemma DEF IInv
<1>3. /\ Len(broadcasts[c]) \in DOMAIN broadcasts[c]
      /\ Latest(c) = broadcasts[c][Len(broadcasts[c])]
  BY <1>1, LatestLemma DEF IInv
<1>4. NextNonce \in Nat /\ NextNonce' = NextNonce
  BY NextNonceLemma DEF IInv, NextNonce
<1>5. p.nonce = NextNonce
  BY <1>2, <1>3, <1>4 DEF IInv, NonceInv, NoncesReached, SpentNonce
<1>6. \A q \in pool' : q.nonce = NextNonce
  BY <1>2, <1>5 DEF IInv, NonceInv, NoNonceGap
<1>7. \A d \in Call : pc'[d] = IF d = c THEN label ELSE pc[d]
  BY DEF IInv, TypeOK
<1>8. Pushed'
  BY <1>1, <1>7 DEF IInv, Pushed
<1>9. NonceInv'
  <2>1. \A d \in Call : d # c => Latest(d)' = Latest(d)
    BY DEF Latest
  <2>2. NoncesReached'
    BY <1>4, <1>7, <2>1 DEF IInv, NonceInv, NoncesReached
  <2>3. QED
    BY <1>4, <1>5, <1>6, <2>2 DEF NonceInv, NoNonceGap
<1>10. OnceInv'
  <2>1. \A d \in Call : Succeeded(d)' = Succeeded(d)
    BY DEF Succeeded
  <2>2. c \in Repeatable \/ ~Succeeded(c)
    BY <1>2, <1>3, <1>4, <1>5 DEF IInv, OnceInv, SucceededIsOver
  <2>3. SucceededIsOver'
    BY <1>2, <1>4, <1>6, <1>7, <2>1, <2>2 DEF IInv, OnceInv, SucceededIsOver
  <2>4. QED
    BY <2>3 DEF IInv, OnceInv, NothingAfterSuccess
<1>11. ReportsTheChain'
  BY DEF IInv, ReportsTheChain, Receipt
<1>12. QED
  BY <1>8, <1>9, <1>10, <1>11 DEF IInv

LEMMA PublishInv ==
  ASSUME IInv, NEW c \in Call, Publish(c)
  PROVE  IInv'
<1> DEFINE last == Len(broadcasts[c])
<1>1. broadcasts[c] # <<>>
  BY DEF IInv, Pushed, Publish
<1>2. last \in DOMAIN broadcasts[c] /\ broadcasts[c][last] \in Broadcast
  BY <1>1, LatestLemma DEF IInv
<1>3. broadcasts[c] \in Seq(Broadcast)
  BY DEF IInv, TypeOK
<1>4. broadcasts' = [broadcasts EXCEPT ![c] =
                       [broadcasts[c] EXCEPT ![last] = [broadcasts[c][last] EXCEPT !.hash = TRUE]]]
  BY DEF Publish
<1> DEFINE b == [broadcasts[c][last] EXCEPT !.hash = TRUE]
           bs == [broadcasts[c] EXCEPT ![last] = b]
<1>5. b \in Broadcast /\ b.nonce = broadcasts[c][last].nonce
  BY <1>2 DEF Broadcast
<1> HIDE DEF b
<1>6. /\ bs \in Seq(Broadcast) /\ Len(bs) = Len(broadcasts[c])
      /\ DOMAIN bs = DOMAIN broadcasts[c] /\ bs # <<>>
      /\ \A i \in DOMAIN bs : bs[i].nonce = broadcasts[c][i].nonce
  BY <1>1, <1>2, <1>3, <1>5
<1> HIDE DEF bs
<1>7. broadcasts' = [broadcasts EXCEPT ![c] = bs]
  BY <1>4 DEF bs, b
<1>8. \A d \in Call : broadcasts'[d] = IF d = c THEN bs ELSE broadcasts[d]
  BY <1>7 DEF IInv, TypeOK
<1>9. TypeOK'
  <2>1. /\ broadcasts' \in [Call -> Seq(Broadcast)]
        /\ \A d \in Call : Len(broadcasts'[d]) <= SendMaxAttempts
    BY <1>6, <1>7, <1>8 DEF IInv, TypeOK
  <2>2. TypeOK /\ Accepted(c)
    BY DEF IInv, Publish
  <2>3. pool' \subseteq [call: Call, attempt: Nat, nonce: Nat, price: Price]
    <3>1. PICK p \in [call: Call, attempt: Nat, nonce: Nat, price: Price] :
            pool' = pool \cup {p}
      BY <1>1, <2>2, AcceptedLemma
    <3>2. QED
      BY <2>2, <3>1 DEF TypeOK
  <2>4. QED
    BY <2>1, <2>2, <2>3 DEF TypeOK, Publish, Goto, PC
<1>10. /\ pc[c] = "publish" /\ pc' = [pc EXCEPT ![c] = "poll"]
       /\ Accepted(c)
       /\ UNCHANGED <<nonce, result, mined>>
  BY DEF Publish, Goto
<1>11. \A d \in Call :
         /\ broadcasts[d] # <<>> => broadcasts'[d] # <<>>
         /\ d # c => broadcasts'[d] = broadcasts[d]
         /\ DOMAIN broadcasts'[d] = DOMAIN broadcasts[d]
         /\ \A i \in DOMAIN broadcasts[d] : broadcasts'[d][i].nonce = broadcasts[d][i].nonce
  BY <1>6, <1>8
<1>12. QED
  BY <1>9, <1>10, <1>11, AcceptedInv

LEMMA PublishAnswerLostInv ==
  ASSUME IInv, NEW c \in Call, PublishAnswerLost(c)
  PROVE  IInv'
<1>1. broadcasts[c] # <<>>
  BY DEF IInv, Pushed, PublishAnswerLost
<1>2. pool' \subseteq [call: Call, attempt: Nat, nonce: Nat, price: Price]
  BY <1>1, AcceptedLemma DEF PublishAnswerLost, IInv, TypeOK
<1>3. TypeOK'
  BY <1>2 DEF IInv, TypeOK, PublishAnswerLost, Goto, PC
<1>4. QED
  BY <1>3, AcceptedInv DEF PublishAnswerLost, Goto

LEMMA NonceTooLowInv ==
  ASSUME IInv, NEW c \in Call, NonceTooLow(c)
  PROVE  IInv'
<1>1. TypeOK'
  BY DEF IInv, TypeOK, NonceTooLow, Goto, PC, nodeVars
<1>2. Latest(c).nonce < NextNonce
  BY DEF NonceTooLow, SpentNonce
<1>3. QED
  BY <1>1, <1>2, QuietStep DEF NonceTooLow, Goto, PC, nodeVars

LEMMA TransactionUnderpricedInv ==
  ASSUME IInv, NEW c \in Call, TransactionUnderpriced(c)
  PROVE  IInv'
<1>1. TypeOK'
  BY DEF IInv, TypeOK, TransactionUnderpriced, Goto, PC, nodeVars
<1>2. broadcasts[c] # <<>>
  BY DEF IInv, Pushed, TransactionUnderpriced
<1>3. QED
  BY <1>1, <1>2, QuietStep DEF TransactionUnderpriced, Goto, PC, nodeVars

LEMMA OtherErrorInv ==
  ASSUME IInv, NEW c \in Call, OtherError(c)
  PROVE  IInv'
<1>1. TypeOK'
  BY DEF IInv, TypeOK, OtherError, Goto, PC, nodeVars
<1>2. QED
  BY <1>1, QuietStep DEF OtherError, Goto, PC, nodeVars

LEMMA PollFindsInv ==
  ASSUME IInv, NEW c \in Call, PollFinds(c)
  PROVE  IInv'
<1>1. PICK j \in Included(c, Len(broadcasts[c])) : result' = [result EXCEPT ![c] = Receipt(j)]
  BY DEF PollFinds
<1>2. j \in DOMAIN mined /\ mined[j].call = c
  BY <1>1 DEF Included
<1>3. Receipt(j) \in Result
  BY DEF Receipt, Result
<1>4. QED
  BY <1>1, <1>2, <1>3, EndStep DEF PollFinds, Goto

LEMMA PollMissesInv ==
  ASSUME IInv, NEW c \in Call, PollMisses(c)
  PROVE  IInv'
<1>1. PICK label \in {"replace", "poll"} : pc' = [pc EXCEPT ![c] = label]
  BY DEF PollMisses, Goto
<1>2. polls' \in [Call -> Nat]
  BY DEF IInv, TypeOK, PollMisses, Counted
<1>3. TypeOK'
  BY <1>1, <1>2 DEF IInv, TypeOK, PollMisses, PC, nodeVars
<1>4. broadcasts[c] # <<>>
  BY DEF IInv, Pushed, PollMisses
<1>5. QED
  BY <1>1, <1>3, <1>4, QuietStep DEF PollMisses, PC, nodeVars

(* Whatever receipts of the call can be read, the answer is one of theirs.  *)
LEMMA SoughtResultLemma ==
  ASSUME NEW c \in Call, NEW read \in SUBSET SoughtReceipts(c)
  PROVE  /\ SoughtResult(read) \in Result
         /\ SoughtResult(read) \in {"success", "reverted"} =>
              \E j \in DOMAIN mined : mined[j].call = c /\ Receipt(j) = SoughtResult(read)
<1>1. \A j \in read : j \in DOMAIN mined /\ mined[j].call = c
  BY DEF SoughtReceipts, Included
<1>2. CASE \E j \in read : mined[j].status
  BY <1>1, <1>2 DEF SoughtResult, Result, Receipt
<1>3. CASE ~\E j \in read : mined[j].status
  BY <1>1, <1>3 DEF SoughtResult, Result, Receipt
<1>4. QED
  BY <1>2, <1>3

LEMMA SeekInv ==
  ASSUME IInv, NEW c \in Call, SeekSuccessfulBroadcast(c) \/ SeekUnanswered(c)
  PROVE  IInv'
<1>1. PICK read \in SUBSET SoughtReceipts(c) : result' = [result EXCEPT ![c] = SoughtResult(read)]
  BY DEF SeekSuccessfulBroadcast, SeekUnanswered
<1>2. /\ pc' = [pc EXCEPT ![c] = "done"]
      /\ UNCHANGED <<chain, cap, nonce, broadcasts, polls, nodeVars>>
  BY DEF SeekSuccessfulBroadcast, SeekUnanswered, Goto
<1>3. QED
  BY <1>1, <1>2, SoughtResultLemma, EndStep

-----------------------------------------------------------------------------
(* The steps of the node.                                                   *)

LEMMA MineInv ==
  ASSUME IInv, NEW p \in pool, Mine(p)
  PROVE  IInv'
<1>1. /\ p.call \in Call /\ p.attempt \in Nat /\ p.nonce \in Nat
      /\ p.nonce = NextNonce
      /\ pool' = pool \ Rivals(p.nonce)
      /\ UNCHANGED <<chain, callVars, trend>>
  BY DEF IInv, TypeOK, Mine
<1>2. PICK status \in BOOLEAN :
        mined' = Append(mined, [call |-> p.call, attempt |-> p.attempt, status |-> status])
  BY DEF Mine, MaySucceed, Succeeded
<1> DEFINE tx == [call |-> p.call, attempt |-> p.attempt, status |-> status]
<1>3. /\ tx \in [call: Call, attempt: Nat, status: BOOLEAN]
      /\ tx.call = p.call /\ mined' = Append(mined, tx)
  BY <1>1, <1>2
<1> HIDE DEF tx
<1>4. /\ mined \in Seq([call: Call, attempt: Nat, status: BOOLEAN])
      /\ mined' \in Seq([call: Call, attempt: Nat, status: BOOLEAN])
  BY <1>3 DEF IInv, TypeOK
<1>5. /\ DOMAIN mined' = DOMAIN mined \cup {Len(mined) + 1}
      /\ \A j \in DOMAIN mined : mined'[j] = mined[j]
      /\ mined'[Len(mined) + 1] = tx
      /\ Len(mined) + 1 \notin DOMAIN mined
  BY <1>3, <1>4
<1>6. NextNonce \in Nat /\ NextNonce' = NextNonce + 1
  BY <1>3, <1>4 DEF NextNonce
<1>7. pool' = {}
  BY <1>1 DEF IInv, NonceInv, NoNonceGap, Rivals
<1>8. TypeOK'
  BY <1>1, <1>4, <1>7 DEF IInv, TypeOK, callVars
<1>9. Pushed'
  BY <1>1 DEF IInv, Pushed, callVars
<1>10. \A c \in Call :
         /\ Latest(c)' = Latest(c)
         /\ nonce[c] \in Nat
         /\ \A i \in DOMAIN broadcasts[c] : broadcasts[c][i].nonce \in Nat
         /\ broadcasts[c] # <<>> => Latest(c).nonce \in Nat
  <2>1. \A c \in Call : \A i \in DOMAIN broadcasts[c] : broadcasts[c][i] \in Broadcast
    BY DEF IInv, TypeOK
  <2>2. \A c \in Call : broadcasts[c] # <<>> => Latest(c) \in Broadcast
    BY LatestLemma DEF IInv
  <2>3. QED
    BY <1>1, <2>1, <2>2 DEF IInv, TypeOK, Latest, Broadcast, callVars
<1>11. NonceInv'
  <2>1. NoncesReached'
    BY <1>1, <1>6, <1>10 DEF IInv, NonceInv, NoncesReached, callVars
  <2>2. QED
    BY <1>7, <2>1 DEF NonceInv, NoNonceGap
<1>12. OnceInv'
  <2>1. \A c \in Call :
          /\ pc[c] = "push" => nonce[c] < NextNonce + 1
          /\ \A i \in DOMAIN broadcasts[c] : broadcasts[c][i].nonce < NextNonce + 1
    BY <1>6, <1>10 DEF IInv, NonceInv, NoncesReached
  <2>2. SucceededIsOver'
    BY <1>1, <1>6, <1>7, <2>1 DEF SucceededIsOver, callVars
  <2>3. NothingAfterSuccess'
    <3> SUFFICES ASSUME NEW c \in Call \ Repeatable,
                        NEW i \in DOMAIN mined', NEW j \in DOMAIN mined',
                        mined'[i].call = c, mined'[i].status, mined'[j].call = c
                 PROVE  j <= i
      BY DEF NothingAfterSuccess
    <3>1. Len(mined) \in Nat /\ i \in 1..Len(mined) + 1 /\ j \in 1..Len(mined) + 1
      BY <1>4, <1>5
    <3>2. CASE i = Len(mined) + 1
      BY <3>1, <3>2
    <3>3. CASE i # Len(mined) + 1
      <4>1. i \in DOMAIN mined /\ mined[i].call = c /\ mined[i].status
        BY <1>5, <3>3
      <4>2. j # Len(mined) + 1
        BY <1>3, <1>5, <4>1 DEF IInv, OnceInv, SucceededIsOver, Succeeded
      <4>3. j \in DOMAIN mined /\ mined[j].call = c
        BY <1>5, <4>2
      <4>4. QED
        BY <4>1, <4>3 DEF IInv, OnceInv, NothingAfterSuccess
    <3>4. QED
      BY <3>2, <3>3
  <2>4. QED
    BY <2>2, <2>3 DEF OnceInv
<1>13. ReportsTheChain'
  BY <1>1, <1>5 DEF IInv, ReportsTheChain, Receipt, callVars
<1>14. QED
  BY <1>8, <1>9, <1>11, <1>12, <1>13 DEF IInv

LEMMA EvictInv ==
  ASSUME IInv, NEW p \in pool, Evict(p)
  PROVE  IInv'
<1>1. TypeOK' /\ Pushed'
  BY DEF IInv, TypeOK, Pushed, Evict, callVars
<1>2. NextNonce' = NextNonce /\ \A c \in Call : Latest(c)' = Latest(c)
  BY DEF Evict, NextNonce, Latest, callVars
<1>3. NonceInv'
  BY <1>2 DEF IInv, NonceInv, NoNonceGap, NoncesReached, Evict, callVars
<1>4. OnceInv'
  BY <1>2 DEF IInv, OnceInv, SucceededIsOver, NothingAfterSuccess, Succeeded,
       Evict, callVars
<1>5. ReportsTheChain'
  BY DEF IInv, ReportsTheChain, Receipt, Evict, callVars
<1>6. QED
  BY <1>1, <1>3, <1>4, <1>5 DEF IInv

(* A step that leaves all but the market alone, or all.                     *)
LEMMA IdleInv ==
  ASSUME IInv, UNCHANGED <<chain, callVars, pool, mined>>,
         trend' \in Seq(Markets) \ {<<>>}
  PROVE  IInv'
<1>1. TypeOK' /\ Pushed'
  BY DEF IInv, TypeOK, Pushed, callVars
<1>2. NextNonce' = NextNonce /\ \A d \in Call : Latest(d)' = Latest(d)
  BY DEF NextNonce, Latest, callVars
<1>3. NonceInv'
  BY <1>2 DEF IInv, NonceInv, NoNonceGap, NoncesReached, callVars
<1>4. OnceInv'
  BY <1>2 DEF IInv, OnceInv, SucceededIsOver, NothingAfterSuccess, Succeeded,
       callVars
<1>5. ReportsTheChain'
  BY DEF IInv, ReportsTheChain, Receipt, callVars
<1>6. QED
  BY <1>1, <1>3, <1>4, <1>5 DEF IInv

LEMMA MarketMovesInv ==
  ASSUME IInv, MarketMoves
  PROVE  IInv'
<1>1. trend' \in Seq(Markets) \ {<<>>}
  <2>1. trend \in Seq(Markets) /\ Len(trend) > 1 /\ trend' = Tail(trend)
    BY DEF IInv, TypeOK, MarketMoves
  <2>2. PICK rest \in Seq(Markets) : rest = Tail(trend) /\ Len(rest) = Len(trend) - 1
    BY <2>1
  <2>3. rest # <<>>
    BY <2>1, <2>2
  <2>4. QED
    BY <2>1, <2>2, <2>3
<1>2. QED
  BY <1>1, IdleInv DEF MarketMoves

-----------------------------------------------------------------------------
LEMMA NextStep ==
  ASSUME IInv, [Next]_vars
  PROVE  IInv'
<1>1. ASSUME NEW c \in Call, CallStep(c) PROVE IInv'
  BY <1>1, SendTransactionInv, GetTransactionTemplateInv, TemplateFailsInv, PushTransactionInv,
     PushReplacementTransactionInv, PricingFailsInv, PublishInv, PublishAnswerLostInv,
     NonceTooLowInv, TransactionUnderpricedInv, OtherErrorInv, PollFindsInv, PollMissesInv,
     SeekInv DEF CallStep
<1>2. ASSUME NEW p \in pool, Mine(p) \/ Evict(p) PROVE IInv'
  BY <1>2, MineInv, EvictInv
<1>3. CASE MarketMoves
  BY <1>3, MarketMovesInv
<1>4. CASE UNCHANGED vars
  <2>1. /\ UNCHANGED <<chain, callVars, pool, mined>>
        /\ trend' \in Seq(Markets) \ {<<>>}
    BY <1>4 DEF vars, nodeVars, IInv, TypeOK
  <2>2. QED
    BY <2>1, IdleInv
<1>5. QED
  BY <1>1, <1>2, <1>3, <1>4 DEF Next, NodeStep, Done

THEOREM Invariance == Spec => []IInv
BY InitInv, NextStep, PTL DEF Spec

(* The types of the broadcasters and the node, and no more broadcasts than  *)
(* sendMaxAttempts (broadcaster.ts:147).                                    *)
THEOREM TypeCorrect == Spec => []TypeOK
<1>1. IInv => TypeOK
  BY DEF IInv
<1>2. QED
  BY <1>1, Invariance, PTL

(* No published transaction waits for a nonce that nobody uses              *)
(* (broadcaster.ts:263, :343).                                              *)
THEOREM NoGap == Spec => []NoNonceGap
<1>1. IInv => NoNonceGap
  BY DEF IInv, NonceInv
<1>2. QED
  BY <1>1, Invariance, PTL

(* A call that succeeded and may not be repeated is not included again      *)
(* (broadcaster.ts:262-266).                                                *)
THEOREM SuccessIsLast == Spec => []NothingAfterSuccess
<1>1. IInv => NothingAfterSuccess
  BY DEF IInv, OnceInv
<1>2. QED
  BY <1>1, Invariance, PTL

(* sendTransaction answers what the chain says of that call                 *)
(* (signer.ts:69-71).                                                       *)
THEOREM AnswersAreTrue == Spec => []ReportsTheChain
<1>1. IInv => ReportsTheChain
  BY DEF IInv
<1>2. QED
  BY <1>1, Invariance, PTL

(* When the last attempt was refused and the receipts can be read, a call   *)
(* that fails has none of its known transactions included                   *)
(* (broadcaster.ts:290-311).                                                *)
THEOREM RefusalSought == Spec => RefusalIsSought
<1>1. ASSUME NEW c \in Call, SeekSuccessfulBroadcast(c), IInv,
             result'[c] = "failed", broadcasts[c] # <<>> => ~Latest(c).hash
      PROVE  \A i \in DOMAIN broadcasts[c] : broadcasts[c][i].hash => Included(c, i) = {}
  <2> SUFFICES ASSUME NEW i \in DOMAIN broadcasts[c], broadcasts[c][i].hash
               PROVE  Included(c, i) = {}
    OBVIOUS
  <2>1. SoughtReceipts(c) = {}
    <3>1. SoughtResult(SoughtReceipts(c)) = "failed"
      BY <1>1 DEF SeekSuccessfulBroadcast, IInv, TypeOK
    <3>2. QED
      BY <3>1 DEF SoughtResult
  <2>2. broadcasts[c] \in Seq(Broadcast)
    BY <1>1 DEF IInv, TypeOK
  <2>3. i # Len(broadcasts[c])
    BY <1>1, <2>2 DEF Latest
  <2>4. i \in Sought(c)
    BY <2>2, <2>3 DEF Sought
  <2>5. QED
    BY <2>1, <2>4 DEF SoughtReceipts
<1>2. IInv => [\A c \in Call :
                 /\ SeekSuccessfulBroadcast(c)
                 /\ result'[c] = "failed"
                 /\ broadcasts[c] # <<>> => ~Latest(c).hash
                 => \A i \in DOMAIN broadcasts[c] :
                      broadcasts[c][i].hash => Included(c, i) = {}]_vars
  BY <1>1
<1>3. QED
  BY <1>2, Invariance, PTL DEF RefusalIsSought

-----------------------------------------------------------------------------
(* Prices escalate, unless they are too small to be bumped.  What a         *)
(* broadcaster pushed under one nonce outbids all it pushed before under    *)
(* that nonce and can be bumped again, if the earlier price could; and a    *)
(* nonce it takes later is a later one.  What the node holds of a call is   *)
(* one of its broadcasts, so the last one outbids it.                       *)

LEMMA BumpLemma ==
  ASSUME NEW x \in Nat, NEW bumper \in Nat, Raises(bumper, x)
  PROVE  /\ bumper > 11000
         /\ Scaled(x, bumper) \in Nat
         /\ Scaled(x, bumper) > x
         /\ Scaled(x, bumper) * 100 >= x * 110
<1> DEFINE product == x * bumper
           y == product \div 10000
<1>0. x * (bumper - 11000) >= 10000
  BY DEF Raises, Unit
<1>1. bumper > 11000
  <2>1. CASE bumper - 11000 > 0
    BY <2>1
  <2>2. CASE bumper - 11000 <= 0
    <3> DEFINE d == 11000 - bumper
    <3>1. d \in Nat /\ x * d \in Nat
      BY <2>2
    <3>2. x * (bumper - 11000) = -(x * d)
      OBVIOUS
    <3>3. QED
      BY <1>0, <3>1, <3>2
  <2>3. QED
    BY <2>1, <2>2
<1>2. product \in Nat /\ product >= x * 11000 + 10000
  BY <1>0
<1>3. Scaled(x, bumper) = y
  BY DEF Scaled, Unit
<1> HIDE DEF product
<1>4. y \in Nat /\ y * 10000 > product - 10000
  BY <1>2
<1> HIDE DEF y
<1>5. y * 10000 > x * 11000
  BY <1>2, <1>4
<1>6. y * 100 >= x * 110 /\ y >= x
  BY <1>4, <1>5
<1>7. y # x
  BY <1>4, <1>5
<1>8. QED
  BY <1>1, <1>3, <1>4, <1>6, <1>7

LEMMA RaisesMore ==
  ASSUME NEW x \in Nat, NEW y \in Nat, NEW bumper \in Nat, Raises(bumper, x), y >= x
  PROVE  Raises(bumper, y)
<1> DEFINE d == y - x
           k == bumper - 11000
<1>1. k \in Nat /\ x * k >= Unit
  <2>1. bumper > 11000
    BY BumpLemma
  <2>2. x * k >= Unit
    BY DEF Raises
  <2>3. QED
    BY <2>1, <2>2
<1>2. d \in Nat /\ y = x + d
  OBVIOUS
<1> HIDE DEF d, k
<1>3. d * k \in Nat /\ y * k = x * k + d * k
  BY <1>1, <1>2
<1>4. y * k >= Unit
  BY <1>1, <1>3 DEF Unit
<1>5. QED
  BY <1>4 DEF Raises, k

LEMMA MaxCoversBoth ==
  ASSUME NEW x \in Nat, NEW y \in Nat
  PROVE  Max({x, y}) \in Nat /\ Max({x, y}) >= x /\ Max({x, y}) >= y
<1>1. \E m \in {x, y} : \A z \in {x, y} : m >= z
  <2>1. CASE x >= y
    BY <2>1
  <2>2. CASE y >= x
    BY <2>2
  <2>3. QED
    BY <2>1, <2>2
<1>2. Max({x, y}) \in {x, y} /\ \A z \in {x, y} : Max({x, y}) >= z
  BY <1>1 DEF Max
<1>3. QED
  BY <1>2

(* A legacy price is both the tip and the maximum, on the market and when   *)
(* it replaces another.                                                     *)
OnePrice(ch, price) == IsLegacy(ch) => price.max = price.tip

LEMMA PopulateTxOnePrice ==
  ASSUME NEW ch \in Chains, NEW mkt \in Markets
  PROVE  OnePrice(ch, PopulateTx(ch, "undefined", mkt))
<1> DEFINE category == EffectiveCategory(ch, "undefined")
           price == LegacyFee(ch, FeeOpts[ch], category, mkt)
<1>1. category \in GasCategory
  BY EffectiveCategoryLemma
<1> HIDE DEF category
<1>2. IsLegacy(ch) =>
        Fetched[ch][category][mkt] = [baseFee |-> 0, tip |-> price, max |-> price]
  BY <1>1 DEF Fetched
<1> HIDE DEF price
<1>3. QED
  BY <1>2 DEF OnePrice, PopulateTx, category

LEMMA ReplacementEscalates ==
  ASSUME NEW ch \in Chains, NEW mkt \in Markets, NEW old \in Price,
         NEW category \in {"AGGRESSIVE", "undefined"},
         OnePrice(ch, old)
  PROVE  LET new == PopulateReplacementTx(ch, old, category, mkt)
         IN /\ OnePrice(ch, new)
            /\ Bumpable(ch, old) => Bumpable(ch, new) /\ Outbids(new, old)
<1> DEFINE fee == Fetched[ch][EffectiveCategory(ch, category)][mkt]
           bumper == ReplaceBumper(ch)
           bumpedTip == Scaled(old.tip, bumper)
           bumpedMax == Scaled(old.max, bumper)
           tip == Max({fee.tip, bumpedTip})
           cap0 == fee.baseFee + tip
           max == Max({cap0, bumpedMax})
           new == [tip |-> tip, max |-> IF IsLegacy(ch) THEN tip ELSE max]
<1>1. PopulateReplacementTx(ch, old, category, mkt) = new
  BY DEF PopulateReplacementTx
<1>2. fee.tip \in Nat /\ fee.baseFee \in Nat
  BY EffectiveCategoryLemma, FeesAssumption
<1>3. bumper \in Nat
  BY FeesAssumption DEF ReplaceBumper
<1>4. OnePrice(ch, new)
  BY DEF OnePrice
<1>5. SUFFICES ASSUME Bumpable(ch, old) PROVE Bumpable(ch, new) /\ Outbids(new, old)
  BY <1>1, <1>4
<1>6. /\ old.tip \in Nat /\ Raises(bumper, old.tip)
      /\ old.max \in Nat /\ Raises(bumper, old.max)
      /\ IsLegacy(ch) => old.max = old.tip
  BY <1>5 DEF Bumpable, OnePrice, Price
<1> HIDE DEF fee, bumper
<1>7. bumpedTip \in Nat /\ bumpedTip > old.tip /\ bumpedTip * 100 >= old.tip * 110
  BY <1>3, <1>6, BumpLemma
<1>8. bumpedMax \in Nat /\ bumpedMax > old.max /\ bumpedMax * 100 >= old.max * 110
  BY <1>3, <1>6, BumpLemma
<1> HIDE DEF bumpedTip, bumpedMax
<1>9. tip \in Nat /\ tip >= bumpedTip
  BY <1>2, <1>7, MaxCoversBoth
<1> HIDE DEF tip
<1>10. cap0 \in Nat
  BY <1>2, <1>9
<1> HIDE DEF cap0
<1>11. max \in Nat /\ max >= bumpedMax
  BY <1>8, <1>10, MaxCoversBoth
<1> HIDE DEF max
<1>12. tip > old.tip /\ tip * 100 >= old.tip * 110
  BY <1>6, <1>7, <1>9
<1>13. max > old.max /\ max * 100 >= old.max * 110
  BY <1>6, <1>8, <1>11
<1>14. Outbids(new, old)
  BY <1>6, <1>12, <1>13 DEF Outbids
<1>15. Raises(bumper, tip) /\ Raises(bumper, max)
  <2>1. tip >= old.tip /\ max >= old.max
    BY <1>6, <1>9, <1>11, <1>12, <1>13
  <2>2. QED
    BY <1>3, <1>6, <1>9, <1>11, <2>1, RaisesMore
<1>16. Bumpable(ch, new)
  BY <1>15 DEF Bumpable, bumper
<1>17. QED
  BY <1>14, <1>16

LEMMA OutbidsTransitive ==
  ASSUME NEW x \in Price, NEW y \in Price, NEW z \in Price, Outbids(z, y), Outbids(y, x)
  PROVE  Outbids(z, x)
BY DEF Outbids, Price

-----------------------------------------------------------------------------
Outgrows(new, old) ==
  Bumpable(chain, old) => Bumpable(chain, new) /\ Outbids(new, old)

Escalates ==
  \A c \in Call :
    /\ \A i \in DOMAIN broadcasts[c] : OnePrice(chain, broadcasts[c][i].price)
    /\ \A i, j \in DOMAIN broadcasts[c] : i < j =>
         /\ broadcasts[c][i].nonce <= broadcasts[c][j].nonce
         /\ broadcasts[c][i].nonce = broadcasts[c][j].nonce =>
              Outgrows(broadcasts[c][j].price, broadcasts[c][i].price)
    /\ pc[c] = "push" => \A i \in DOMAIN broadcasts[c] : broadcasts[c][i].nonce < nonce[c]

IsBroadcast(p, i) ==
  /\ i \in DOMAIN broadcasts[p.call]
  /\ broadcasts[p.call][i].nonce = p.nonce /\ broadcasts[p.call][i].price = p.price
  /\ pc[p.call] = "publish" => i < Len(broadcasts[p.call])

PendingWasPushed == \A p \in pool : \E i \in Nat : IsBroadcast(p, i)

PriceInv == Escalates /\ PendingWasPushed

(* A step that pushes nothing and starts nothing, and keeps the prices.     *)
LEMMA SamePrices ==
  ASSUME PriceInv, TypeOK, TypeOK', chain' = chain,
         \A c \in Call :
           /\ Len(broadcasts'[c]) = Len(broadcasts[c])
           /\ \A i \in DOMAIN broadcasts[c] :
                /\ broadcasts'[c][i].nonce = broadcasts[c][i].nonce
                /\ broadcasts'[c][i].price = broadcasts[c][i].price
           /\ pc'[c] = "push" => pc[c] = "push" /\ nonce'[c] = nonce[c]
           /\ pc'[c] = "publish" => pc[c] = "publish",
         \A p \in pool' \ pool : \E i \in Nat : IsBroadcast(p, i)'
  PROVE  PriceInv'
<1>1. \A c \in Call : DOMAIN broadcasts'[c] = DOMAIN broadcasts[c]
  BY DEF TypeOK
<1>2. Escalates'
  BY <1>1 DEF PriceInv, Escalates, Outgrows
<1>3. PendingWasPushed'
  <2> SUFFICES ASSUME NEW p \in pool', p \in pool
               PROVE  \E i \in Nat : IsBroadcast(p, i)'
    BY DEF PendingWasPushed
  <2>1. PICK i \in Nat : IsBroadcast(p, i)
    BY DEF PriceInv, PendingWasPushed
  <2>2. p.call \in Call
    BY DEF TypeOK
  <2>3. IsBroadcast(p, i)'
    BY <1>1, <2>1, <2>2 DEF IsBroadcast
  <2>4. QED
    BY <2>3
<1>4. QED
  BY <1>2, <1>3 DEF PriceInv

(* A template takes a nonce after those of all broadcasts.                  *)
LEMMA TemplatePrices ==
  ASSUME PriceInv, IInv, TypeOK', NEW c \in Call, GetTransactionTemplate(c)
  PROVE  PriceInv'
<1> USE DEF GetTransactionTemplate, Goto, nodeVars
<1>1. \A d \in Call :
        /\ pc'[d] = IF d = c THEN "push" ELSE pc[d]
        /\ nonce'[d] = IF d = c THEN TemplateNonce(c) ELSE nonce[d]
  BY DEF IInv, TypeOK
<1>2. \A i \in DOMAIN broadcasts[c] : broadcasts[c][i].nonce < TemplateNonce(c)
  <2> SUFFICES ASSUME NEW i \in DOMAIN broadcasts[c]
               PROVE  broadcasts[c][i].nonce < TemplateNonce(c)
    OBVIOUS
  <2>1. broadcasts[c] # <<>> /\ broadcasts[c] \in Seq(Broadcast)
    BY DEF IInv, TypeOK
  <2>2. /\ Latest(c) = broadcasts[c][Len(broadcasts[c])]
        /\ Latest(c).nonce \in Nat /\ broadcasts[c][i].nonce \in Nat
    <3>1. /\ Latest(c) \in Broadcast /\ broadcasts[c][i] \in Broadcast
          /\ Latest(c) = broadcasts[c][Len(broadcasts[c])]
      BY <2>1, LatestLemma DEF IInv
    <3>2. QED
      BY <3>1 DEF Broadcast
  <2>3. broadcasts[c][i].nonce <= Latest(c).nonce
    <3>1. CASE i = Len(broadcasts[c])
      BY <2>2, <3>1
    <3>2. CASE i < Len(broadcasts[c])
      BY <2>1, <2>2, <3>2 DEF PriceInv, Escalates
    <3>3. QED
      BY <2>1, <3>1, <3>2
  <2>4. QED
    BY <2>1, <2>2, <2>3 DEF TemplateNonce
<1>3. Escalates'
  BY <1>1, <1>2 DEF PriceInv, Escalates, Outgrows
<1>4. PendingWasPushed'
  <2>1. pool' = pool /\ \A p \in pool : p.call \in Call
    BY DEF IInv, TypeOK
  <2>2. \A p \in pool, i \in Nat : IsBroadcast(p, i) => IsBroadcast(p, i)'
    BY <1>1, <2>1 DEF IsBroadcast
  <2>3. QED
    BY <2>1, <2>2 DEF PriceInv, PendingWasPushed
<1>5. QED
  BY <1>3, <1>4 DEF PriceInv

(* What is pushed has a new nonce, or outbids the broadcast it replaces.    *)
LEMMA PushPrices ==
  ASSUME PriceInv, IInv, NEW c \in Call, NEW n \in Nat, NEW price \in Price,
         PushPriced(c, n, price),
         OnePrice(chain, price),
         \A i \in DOMAIN broadcasts[c] :
           /\ broadcasts[c][i].nonce <= n
           /\ broadcasts[c][i].nonce = n => Outgrows(price, broadcasts[c][i].price)
  PROVE  PriceInv'
<1> DEFINE b == [nonce |-> n, price |-> price, hash |-> FALSE]
<1>1. /\ TypeOK'
      /\ UNCHANGED <<chain, cap, nonce, polls, result, nodeVars>>
      /\ \/ pc' = [pc EXCEPT ![c] = "seek"] /\ UNCHANGED broadcasts
         \/ /\ pc' = [pc EXCEPT ![c] = "publish"]
            /\ broadcasts' = [broadcasts EXCEPT ![c] = Append(@, b)]
  BY PushLemma DEF IInv
<1>2. CASE pc' = [pc EXCEPT ![c] = "seek"] /\ UNCHANGED broadcasts
  <2>1. \A d \in Call : pc'[d] = IF d = c THEN "seek" ELSE pc[d]
    BY <1>2 DEF IInv, TypeOK
  <2>2. pool' = pool
    BY <1>1 DEF nodeVars
  <2>3. QED
    BY <1>1, <1>2, <2>1, <2>2, SamePrices DEF IInv
<1>3. CASE /\ pc' = [pc EXCEPT ![c] = "publish"]
           /\ broadcasts' = [broadcasts EXCEPT ![c] = Append(@, b)]
  <2>1. b \in Broadcast /\ b.nonce = n /\ b.price = price
    BY DEF Broadcast
  <2> HIDE DEF b
  <2> DEFINE last == Len(broadcasts[c]) + 1
  <2>2. \A d \in Call :
          /\ pc'[d] = IF d = c THEN "publish" ELSE pc[d]
          /\ d # c => broadcasts'[d] = broadcasts[d]
    BY <1>3 DEF IInv, TypeOK
  <2>3. broadcasts[c] \in Seq(Broadcast) /\ broadcasts'[c] = Append(broadcasts[c], b)
    BY <1>3 DEF IInv, TypeOK
  <2>4. /\ Len(broadcasts'[c]) = last /\ last \in Nat
        /\ DOMAIN broadcasts'[c] = DOMAIN broadcasts[c] \cup {last}
        /\ broadcasts'[c][last] = b
        /\ \A i \in DOMAIN broadcasts[c] :
             i \in Nat /\ i < last /\ broadcasts'[c][i] = broadcasts[c][i]
    BY <2>1, <2>3
  <2> HIDE DEF last
  <2>5. Escalates'
    <3>1. \A i, j \in DOMAIN broadcasts'[c] : i < j =>
            /\ broadcasts'[c][i].nonce <= broadcasts'[c][j].nonce
            /\ broadcasts'[c][i].nonce = broadcasts'[c][j].nonce =>
                 Outgrows(broadcasts'[c][j].price, broadcasts'[c][i].price)
      <4> SUFFICES ASSUME NEW i \in DOMAIN broadcasts'[c], NEW j \in DOMAIN broadcasts'[c], i < j
                   PROVE  /\ broadcasts'[c][i].nonce <= broadcasts'[c][j].nonce
                          /\ broadcasts'[c][i].nonce = broadcasts'[c][j].nonce =>
                               Outgrows(broadcasts'[c][j].price, broadcasts'[c][i].price)
        OBVIOUS
      <4>1. i \in DOMAIN broadcasts[c]
        BY <2>4
      <4>2. CASE j = last
        BY <2>1, <2>4, <4>1, <4>2
      <4>3. CASE j # last
        BY <2>4, <4>1, <4>3 DEF PriceInv, Escalates
      <4>4. QED
        BY <4>2, <4>3
    <3>2. \A i \in DOMAIN broadcasts'[c] : OnePrice(chain, broadcasts'[c][i].price)
      BY <2>1, <2>4 DEF PriceInv, Escalates
    <3>3. chain' = chain /\ nonce' = nonce
      BY <1>1
    <3>4. QED
      BY <2>2, <3>1, <3>2, <3>3 DEF PriceInv, Escalates, Outgrows
  <2>6. PendingWasPushed'
    <3>1. pool' = pool /\ \A p \in pool : p.call \in Call
      BY <1>1 DEF IInv, TypeOK, nodeVars
    <3>2. \A p \in pool, i \in Nat : IsBroadcast(p, i) => IsBroadcast(p, i)'
      BY <2>2, <2>4, <3>1 DEF IsBroadcast
    <3>3. QED
      BY <3>1, <3>2 DEF PriceInv, PendingWasPushed
  <2>7. QED
    BY <2>5, <2>6 DEF PriceInv
<1>4. QED
  BY <1>1, <1>2, <1>3

LEMMA PushTransactionPrices ==
  ASSUME PriceInv, IInv, NEW c \in Call, PushTransaction(c)
  PROVE  PriceInv'
<1> DEFINE price == PopulateTx(chain, "undefined", market)
<1>1. chain \in Chains /\ market \in Markets /\ nonce[c] \in Nat
  BY MarketLemma DEF IInv, TypeOK
<1>2. price \in Price /\ OnePrice(chain, price)
  BY <1>1, PopulateTxLemma, PopulateTxOnePrice
<1>3. pc[c] = "push" /\ PushPriced(c, nonce[c], price)
  BY DEF PushTransaction
<1>4. \A i \in DOMAIN broadcasts[c] :
        broadcasts[c][i].nonce \in Nat /\ broadcasts[c][i].nonce < nonce[c]
  <2>1. \A i \in DOMAIN broadcasts[c] : broadcasts[c][i] \in Broadcast
    BY DEF IInv, TypeOK
  <2>2. QED
    BY <1>3, <2>1 DEF PriceInv, Escalates, Broadcast
<1> HIDE DEF price
<1>5. QED
  BY <1>1, <1>2, <1>3, <1>4, PushPrices

LEMMA PushReplacementTransactionPrices ==
  ASSUME PriceInv, IInv, NEW c \in Call, PushReplacementTransaction(c)
  PROVE  PriceInv'
<1>1. broadcasts[c] # <<>> /\ broadcasts[c] \in Seq(Broadcast)
  BY DEF IInv, TypeOK, Pushed, PushReplacementTransaction
<1> DEFINE last == Len(broadcasts[c])
<1>2. /\ last \in DOMAIN broadcasts[c]
      /\ Latest(c) \in Broadcast
      /\ Latest(c) = broadcasts[c][last]
  BY <1>1, LatestLemma DEF IInv
<1>3. PICK category \in {"AGGRESSIVE", "undefined"} :
        PushPriced(c, Latest(c).nonce,
                   PopulateReplacementTx(chain, Latest(c).price, category, market))
  BY DEF PushReplacementTransaction
<1> DEFINE price == PopulateReplacementTx(chain, Latest(c).price, category, market)
<1>4. chain \in Chains /\ market \in Markets
  BY MarketLemma DEF IInv, TypeOK
<1>5. Latest(c).nonce \in Nat /\ Latest(c).price \in Price /\ OnePrice(chain, Latest(c).price)
  BY <1>2 DEF PriceInv, Escalates, Broadcast
<1>6. price \in Price
  BY <1>4, <1>5, PopulateReplacementTxLemma
<1>7. OnePrice(chain, price) /\ Outgrows(price, Latest(c).price)
  BY <1>4, <1>5, ReplacementEscalates DEF Outgrows
<1> HIDE DEF price
<1>8. ASSUME NEW i \in DOMAIN broadcasts[c]
      PROVE  /\ broadcasts[c][i].nonce <= Latest(c).nonce
             /\ broadcasts[c][i].nonce = Latest(c).nonce => Outgrows(price, broadcasts[c][i].price)
  <2>1. CASE i = last
    BY <1>2, <1>5, <1>7, <2>1
  <2>2. CASE i # last
    <3>1. i < last
      BY <1>1, <2>2
    <3>2. broadcasts[c][i].price \in Price
      <4>1. broadcasts[c][i] \in Broadcast
        BY <1>1
      <4>2. QED
        BY <4>1 DEF Broadcast
    <3>3. /\ broadcasts[c][i].nonce <= Latest(c).nonce
          /\ broadcasts[c][i].nonce = Latest(c).nonce =>
               Outgrows(Latest(c).price, broadcasts[c][i].price)
      BY <1>2, <3>1 DEF PriceInv, Escalates
    <3>4. QED
      BY <1>5, <1>6, <1>7, <3>2, <3>3, OutbidsTransitive DEF Outgrows
  <2>3. QED
    BY <2>1, <2>2
<1>9. PushPriced(c, Latest(c).nonce, price)
  BY <1>3 DEF price
<1>10. QED
  BY <1>5, <1>6, <1>7, <1>8, <1>9, PushPrices

(* What the node takes is the last broadcast, and no longer to be replaced  *)
(* by itself.                                                               *)
LEMMA PublishPrices ==
  ASSUME PriceInv, IInv, TypeOK', NEW c \in Call, Publish(c) \/ PublishAnswerLost(c)
  PROVE  PriceInv'
<1> DEFINE last == Len(broadcasts[c])
           tx == Published(c, last)
<1>1. broadcasts[c] # <<>> /\ broadcasts[c] \in Seq(Broadcast)
  BY DEF IInv, TypeOK, Pushed, Publish, PublishAnswerLost
<1>2. last \in Nat /\ last \in DOMAIN broadcasts[c] /\ broadcasts[c][last] \in Broadcast
  BY <1>1, LatestLemma DEF IInv
<1>3. PICK label \in {"poll", "seek"} : pc' = [pc EXCEPT ![c] = label]
  BY DEF Publish, PublishAnswerLost, Goto
<1>4. \A d \in Call : pc'[d] = IF d = c THEN label ELSE pc[d]
  BY <1>3 DEF IInv, TypeOK
<1>5. chain' = chain /\ nonce' = nonce /\ Accepted(c)
  BY DEF Publish, PublishAnswerLost
<1>6. \A d \in Call :
        /\ Len(broadcasts'[d]) = Len(broadcasts[d])
        /\ DOMAIN broadcasts'[d] = DOMAIN broadcasts[d]
        /\ \A i \in DOMAIN broadcasts[d] :
             /\ broadcasts'[d][i].nonce = broadcasts[d][i].nonce
             /\ broadcasts'[d][i].price = broadcasts[d][i].price
  <2>1. CASE Publish(c)
    <3> DEFINE b == [broadcasts[c][last] EXCEPT !.hash = TRUE]
               bs == [broadcasts[c] EXCEPT ![last] = b]
    <3>1. broadcasts' = [broadcasts EXCEPT ![c] = bs]
      BY <2>1 DEF Publish
    <3>2. /\ b \in Broadcast /\ b.nonce = broadcasts[c][last].nonce
          /\ b.price = broadcasts[c][last].price
      BY <1>2 DEF Broadcast
    <3> HIDE DEF b
    <3>3. /\ Len(bs) = Len(broadcasts[c]) /\ DOMAIN bs = DOMAIN broadcasts[c]
          /\ \A i \in DOMAIN bs :
               /\ bs[i].nonce = broadcasts[c][i].nonce
               /\ bs[i].price = broadcasts[c][i].price
      BY <1>1, <1>2, <3>2
    <3> HIDE DEF bs
    <3>4. \A d \in Call : broadcasts'[d] = IF d = c THEN bs ELSE broadcasts[d]
      BY <3>1 DEF IInv, TypeOK
    <3>5. QED
      BY <3>3, <3>4
  <2>2. CASE PublishAnswerLost(c)
    BY <2>2 DEF PublishAnswerLost
  <2>3. QED
    BY <2>1, <2>2
<1>7. tx.call = c /\ tx.nonce = broadcasts[c][last].nonce /\ tx.price = broadcasts[c][last].price
  BY DEF Published
<1>8. \A p \in pool' \ pool : p = tx
  BY <1>5 DEF Accepted
<1> HIDE DEF tx
<1>9. PICK i \in DOMAIN broadcasts[c] : i \in Nat /\ i = last
  BY <1>2
<1>10. \A p \in pool' \ pool : IsBroadcast(p, i)'
  BY <1>4, <1>6, <1>7, <1>8, <1>9 DEF IsBroadcast
<1>11. QED
  BY <1>4, <1>5, <1>6, <1>9, <1>10, SamePrices DEF IInv

(* All other steps of a broadcaster, and those of the node.                 *)
LEMMA OtherCallPrices ==
  ASSUME PriceInv, IInv, TypeOK', NEW c \in Call,
         \/ SendTransaction(c) \/ TemplateFails(c) \/ PricingFails(c)
         \/ NonceTooLow(c) \/ TransactionUnderpriced(c) \/ OtherError(c)
         \/ PollFinds(c) \/ PollMisses(c)
         \/ SeekSuccessfulBroadcast(c) \/ SeekUnanswered(c)
  PROVE  PriceInv'
<1>1. UNCHANGED <<chain, nonce, broadcasts, pool>>
  BY DEF SendTransaction, TemplateFails, PricingFails, NonceTooLow, TransactionUnderpriced,
     OtherError, PollFinds, PollMisses, SeekSuccessfulBroadcast, SeekUnanswered, nodeVars
<1>2. PICK label \in PC \ {"push", "publish"} : pc' = [pc EXCEPT ![c] = label]
  BY DEF SendTransaction, TemplateFails, PricingFails, NonceTooLow, TransactionUnderpriced,
     OtherError, PollFinds, PollMisses, SeekSuccessfulBroadcast, SeekUnanswered, Fail, Goto, PC
<1>3. \A d \in Call : pc'[d] = IF d = c THEN label ELSE pc[d]
  BY <1>2 DEF IInv, TypeOK
<1>4. QED
  BY <1>1, <1>3, SamePrices DEF IInv

LEMMA NodePrices ==
  ASSUME PriceInv, IInv, TypeOK', NodeStep \/ UNCHANGED vars
  PROVE  PriceInv'
<1>1. UNCHANGED <<chain, pc, nonce, broadcasts>> /\ pool' \subseteq pool
  BY DEF NodeStep, Mine, Evict, MarketMoves, vars, callVars, nodeVars
<1>2. QED
  BY <1>1, SamePrices DEF IInv

LEMMA InitPrices == Init => PriceInv
BY DEF Init, PriceInv, Escalates, PendingWasPushed

LEMMA NextPrices ==
  ASSUME PriceInv, IInv, [Next]_vars
  PROVE  PriceInv'
<1>1. TypeOK'
  BY NextStep DEF IInv
<1>2. ASSUME NEW c \in Call, CallStep(c) PROVE PriceInv'
  BY <1>1, <1>2, TemplatePrices, PushTransactionPrices, PushReplacementTransactionPrices,
     PublishPrices, OtherCallPrices DEF CallStep
<1>3. CASE NodeStep \/ UNCHANGED vars
  BY <1>1, <1>3, NodePrices
<1>4. QED
  BY <1>2, <1>3 DEF Next, Done

(* A broadcaster's own pending transaction is no reason to refuse its       *)
(* replacement, after any sequence of refusals and polls, unless its price  *)
(* is too small for the bump (defaults.ts:51, manager.ts:283).              *)
THEOREM ReplacementsOutbid == Spec => []ReplacementOutbids
<1>1. PriceInv /\ IInv => ReplacementOutbids
  <2> SUFFICES ASSUME PriceInv, IInv, NEW c \in Call, pc[c] = "publish",
                      NEW p \in pool, p.nonce = Latest(c).nonce, p.call = c,
                      Bumpable(chain, p.price)
               PROVE  Outbids(Latest(c).price, p.price)
    BY DEF ReplacementOutbids, Rivals
  <2>1. /\ Len(broadcasts[c]) \in DOMAIN broadcasts[c]
        /\ Latest(c) = broadcasts[c][Len(broadcasts[c])]
    BY LatestLemma DEF IInv, Pushed
  <2>2. PICK i \in Nat : IsBroadcast(p, i)
    BY DEF PriceInv, PendingWasPushed
  <2>3. QED
    BY <2>1, <2>2 DEF IsBroadcast, PriceInv, Escalates, Outgrows
<1>2. Init => PriceInv /\ IInv
  BY InitPrices, InitInv
<1>3. PriceInv /\ IInv /\ [Next]_vars => (PriceInv /\ IInv)'
  BY NextPrices, NextStep
<1>4. QED
  BY <1>1, <1>2, <1>3, PTL DEF Spec
=============================================================================
