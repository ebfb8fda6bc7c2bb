----------------------------- MODULE Broadcaster -----------------------------
(***************************************************************************)
(* EvmTxBroadcaster (chain-evm/networking/broadcaster.ts) as EvmTxSigner   *)
(* uses it: every call of an authority (a fulfilment, a batch unlock, an   *)
(* approval) gets a broadcaster of its own, nothing queues them, and they  *)
(* run concurrently against one chain.                                     *)
(*                                                                         *)
(* A broadcaster is a machine: template -> push -> publish -> poll ->      *)
(* replace -> publish ..., and seek when it has to give up.  Every await   *)
(* on the node is the boundary of a step.  The node is external: it keeps  *)
(* published transactions in a pool, refuses a spent nonce and a           *)
(* replacement that does not outbid, includes one transaction of the next  *)
(* nonce, and may answer any question with an error.                       *)
(*                                                                         *)
(* Abstracted: a hash is the call and the number of its broadcast, the     *)
(* answers "underpriced" and "not mined" are handled alike and are one,    *)
(* and poll intervals have no length.                                      *)
(***************************************************************************)
EXTENDS Fees

CONSTANTS
  Call,
  Repeatable,           (* calls that succeed however often they are made  *)
  CappedCall,           (* calls that come with a capped fee: fulfilments  *)
  Scenarios,            (* the chain of the authority, the calls it makes, *)
                        (* and how the market goes                         *)
  SendMaxAttempts,
  PollingMaxAttempts

ASSUME BroadcasterAssumption ==
  /\ Repeatable \subseteq Call
  /\ CappedCall \subseteq Call
  /\ Scenarios \subseteq [chain: Chains, calls: SUBSET Call, trend: Seq(Markets) \ {<<>>}]
  /\ SendMaxAttempts \in Nat
  /\ PollingMaxAttempts \in Nat

VARIABLES
  chain,       (* the chain of the authority                               *)
  pc,          (* of each call: where its broadcaster is                   *)
  cap,         (* of each call: cappedFee                                  *)
  nonce,       (* of each call: the nonce of its template                  *)
  broadcasts,  (* of each call: #broadcasts                                *)
  polls,       (* of each call: pollingAttempt                             *)
  result,      (* of each call: how sendTransaction ended                  *)
  pool,        (* the node: published transactions, not included           *)
  mined,       (* the node: the included transaction of each nonce         *)
  trend        (* the answers to a fee query, the current one first        *)

callVars == <<pc, cap, nonce, broadcasts, polls, result>>
nodeVars == <<pool, mined, trend>>
market == Head(trend)
vars == <<chain, callVars, nodeVars>>

PC == {"absent", "idle", "template", "push", "publish", "poll", "replace", "seek", "done"}
Result == {"none", "success", "reverted", "failed"}

Published(c, i) ==
  [call |-> c, attempt |-> i, nonce |-> broadcasts[c][i].nonce,
   price |-> broadcasts[c][i].price]

Latest(c) == broadcasts[c][Len(broadcasts[c])]
Goto(c, label) == pc' = [pc EXCEPT ![c] = label]

-----------------------------------------------------------------------------
(* The node (external).                                                     *)

NextNonce == Len(mined)
Succeeded(c) == \E i \in DOMAIN mined : mined[i].call = c /\ mined[i].status
(* Whether a call reverts is decided anew by every estimation and every     *)
(* inclusion: slippage, gas or a balance may fail once and suffice later.   *)
(* Only a call that succeeded and cannot be repeated reverts for ever.      *)
MaySucceed(c) == c \in Repeatable \/ ~Succeeded(c)
Included(c, i) == {j \in DOMAIN mined : mined[j].call = c /\ mined[j].attempt = i}
SpentNonce(n) == n < NextNonce

(* go-ethereum's rule of replacement: both prices higher, and by 10%.       *)
Outbids(new, old) ==
  /\ new.tip > old.tip /\ new.max > old.max
  /\ new.tip * 100 >= old.tip * 110 /\ new.max * 100 >= old.max * 110

Rivals(n) == {p \in pool : p.nonce = n}

(* A replaced transaction may still be included, by a node that did not see *)
(* its replacement (broadcaster.ts:292-293).                                *)
Mine(p) ==
  /\ p.nonce = NextNonce
  /\ \E status \in {FALSE, MaySucceed(p.call)} :
       mined' = Append(mined, [call |-> p.call, attempt |-> p.attempt, status |-> status])
  /\ pool' = pool \ Rivals(p.nonce)
  /\ UNCHANGED <<chain, callVars, trend>>

Evict(p) ==
  /\ pool' = pool \ {p}
  /\ UNCHANGED <<chain, callVars, mined, trend>>

MarketMoves ==
  /\ Len(trend) > 1
  /\ trend' = Tail(trend)
  /\ UNCHANGED <<chain, callVars, pool, mined>>

-----------------------------------------------------------------------------
Init ==
  /\ \E scenario \in Scenarios :
       /\ chain = scenario.chain
       /\ pc = [c \in Call |-> IF c \in scenario.calls THEN "idle" ELSE "absent"]
       /\ trend = scenario.trend
  /\ cap = [c \in Call |-> 0]
  /\ nonce = [c \in Call |-> 0]
  /\ broadcasts = [c \in Call |-> <<>>]
  /\ polls = [c \in Call |-> 0]
  /\ result = [c \in Call |-> "none"]
  /\ pool = {}
  /\ mined = <<>>

(* sendTransaction: a fulfilment's fee was estimated when the market was    *)
(* as it was then.                                                          *)
SendTransaction(c) ==
  /\ pc[c] = "idle"
  /\ cap' = [cap EXCEPT ![c] = IF c \in CappedCall THEN EstimatedFee(chain, market) ELSE 0]
  /\ Goto(c, "template")
  /\ UNCHANGED <<chain, nonce, broadcasts, polls, result, nodeVars>>

(* An error before anything was pushed is not caught by run().              *)
Fail(c) ==
  /\ Goto(c, "done")
  /\ result' = [result EXCEPT ![c] = "failed"]

(* getTransactionTemplate(useNonce), a wrong nonce being spent or 0.        *)
TemplateNonce_Fault(c) == NextNonce + Cardinality(pool)
TemplateNonce(c) == IF broadcasts[c] = <<>> THEN NextNonce ELSE Latest(c).nonce + 1

EstimationPasses_Fault(c) == broadcasts[c] # <<>> \/ MaySucceed(c)
EstimationPasses(c) == MaySucceed(c)

GetTransactionTemplate(c) ==
  /\ pc[c] = "template"
  /\ EstimationPasses(c)
  /\ nonce' = [nonce EXCEPT ![c] = TemplateNonce(c)]
  /\ Goto(c, "push")
  /\ UNCHANGED <<chain, cap, broadcasts, polls, result, nodeVars>>

(* The estimation reverts, or the node answers with an error.               *)
TemplateFails(c) ==
  /\ pc[c] = "template"
  /\ IF broadcasts[c] = <<>> THEN Fail(c)
     ELSE Goto(c, "seek") /\ UNCHANGED result
  /\ UNCHANGED <<chain, cap, nonce, broadcasts, polls, nodeVars>>

AttemptsLeft_Fault(c) == Len(broadcasts[c]) <= SendMaxAttempts
AttemptsLeft(c) == Len(broadcasts[c]) + 1 <= SendMaxAttempts

(* initiateBroadcast, of a priced transaction.                              *)
InitiateBroadcast(c, n, price) ==
  IF ~AttemptsLeft(c)
  THEN Goto(c, "seek") /\ UNCHANGED broadcasts
  ELSE /\ broadcasts' =
            [broadcasts EXCEPT ![c] = Append(@, [nonce |-> n, price |-> price, hash |-> FALSE])]
       /\ Goto(c, "publish")

PushPriced(c, n, price) ==
  /\ IF CheckCapping(chain, price, cap[c]) THEN InitiateBroadcast(c, n, price)
     ELSE Goto(c, "seek") /\ UNCHANGED broadcasts
  /\ UNCHANGED <<chain, cap, nonce, polls, result, nodeVars>>

PushTransaction(c) ==
  /\ pc[c] = "push"
  /\ PushPriced(c, nonce[c], PopulateTx(chain, "undefined", market))

PushReplacementTransaction(c) ==
  /\ pc[c] = "replace"
  /\ LET isLastAttempt == SendMaxAttempts = Len(broadcasts[c]) + 1
         category == IF isLastAttempt THEN "AGGRESSIVE" ELSE "undefined"
     IN PushPriced(c, Latest(c).nonce,
                   PopulateReplacementTx(chain, Latest(c).price, category, market))

(* The fees cannot be fetched.                                              *)
PricingFails(c) ==
  /\ pc[c] \in {"push", "replace"}
  /\ Goto(c, "seek")
  /\ UNCHANGED <<chain, cap, nonce, broadcasts, polls, result, nodeVars>>

-----------------------------------------------------------------------------
(* broadcast(): the node takes the transaction if it outbids its rivals,    *)
(* which other nodes may still know; its answer arrives or is lost.         *)
Accepted(c) ==
  LET tx == Published(c, Len(broadcasts[c]))
  IN /\ ~SpentNonce(tx.nonce)
     /\ \A p \in Rivals(tx.nonce) : Outbids(tx.price, p.price)
     /\ pool' = pool \cup {tx}

Publish(c) ==
  /\ pc[c] = "publish"
  /\ Accepted(c)
  /\ broadcasts' = [broadcasts EXCEPT ![c][Len(broadcasts[c])].hash = TRUE]
  /\ polls' = [polls EXCEPT ![c] = 0]
  /\ Goto(c, "poll")
  /\ UNCHANGED <<chain, cap, nonce, result, mined, trend>>

PublishAnswerLost(c) ==
  /\ pc[c] = "publish"
  /\ Accepted(c)
  /\ Goto(c, "seek")
  /\ UNCHANGED <<chain, cap, nonce, broadcasts, polls, result, mined, trend>>

(* handleBroadcastRejection, by the code of the error.                      *)
NonceTooLow(c) ==
  /\ pc[c] = "publish"
  /\ SpentNonce(Latest(c).nonce)
  /\ Goto(c, "template")
  /\ UNCHANGED <<chain, cap, nonce, broadcasts, polls, result, nodeVars>>

(* A node may also find a price too low that outbids its rivals.            *)
TransactionUnderpriced(c) ==
  /\ pc[c] = "publish"
  /\ ~SpentNonce(Latest(c).nonce)
  /\ Goto(c, "replace")
  /\ UNCHANGED <<chain, cap, nonce, broadcasts, polls, result, nodeVars>>

OtherError(c) ==
  /\ pc[c] = "publish"
  /\ Goto(c, "seek")
  /\ UNCHANGED <<chain, cap, nonce, broadcasts, polls, result, nodeVars>>

(* handleBroadcastSuccess: a poll ends with a receipt, or counts.           *)
Receipt(j) == IF mined[j].status THEN "success" ELSE "reverted"

PollFinds(c) ==
  /\ pc[c] = "poll"
  /\ \E j \in Included(c, Len(broadcasts[c])) :
       result' = [result EXCEPT ![c] = Receipt(j)]
  /\ Goto(c, "done")
  /\ UNCHANGED <<chain, cap, nonce, broadcasts, polls, nodeVars>>

Counted_Fault(n) == n
Counted(n) == n + 1

(* No receipt yet, or an error of the node.                                 *)
PollMisses(c) ==
  /\ pc[c] = "poll"
  /\ polls' = [polls EXCEPT ![c] = Counted(@)]
  /\ Goto(c, IF polls'[c] >= PollingMaxAttempts THEN "replace" ELSE "poll")
  /\ UNCHANGED <<chain, cap, nonce, broadcasts, result, nodeVars>>

-----------------------------------------------------------------------------
(* seekSuccessfulBroadcast: the broadcasts but the last, if their hash is   *)
(* known.                                                                   *)
Sought_Fault(c) == {i \in DOMAIN broadcasts[c] : i = Len(broadcasts[c]) /\ broadcasts[c][i].hash}

Sought(c) == {i \in DOMAIN broadcasts[c] : i < Len(broadcasts[c]) /\ broadcasts[c][i].hash}

SoughtReceipts(c) == UNION {Included(c, i) : i \in Sought(c)}

SoughtResult_Fault(read) == IF read = {} THEN "failed" ELSE "success"

SoughtResult(read) ==
  IF \E j \in read : mined[j].status THEN "success"
  ELSE IF read # {} THEN "reverted" ELSE "failed"

SeekSuccessfulBroadcast(c) ==
  /\ pc[c] = "seek"
  /\ result' = [result EXCEPT ![c] = SoughtResult(SoughtReceipts(c))]
  /\ Goto(c, "done")
  /\ UNCHANGED <<chain, cap, nonce, broadcasts, polls, nodeVars>>

(* A receipt that cannot be read is as one that is not there.               *)
SeekUnanswered(c) ==
  /\ pc[c] = "seek"
  /\ \E read \in SUBSET SoughtReceipts(c) :
       /\ read # SoughtReceipts(c)
       /\ result' = [result EXCEPT ![c] = SoughtResult(read)]
  /\ Goto(c, "done")
  /\ UNCHANGED <<chain, cap, nonce, broadcasts, polls, nodeVars>>

CallStep(c) ==
  \/ SendTransaction(c)
  \/ GetTransactionTemplate(c)
  \/ TemplateFails(c)
  \/ PushTransaction(c)
  \/ PushReplacementTransaction(c)
  \/ PricingFails(c)
  \/ Publish(c)
  \/ PublishAnswerLost(c)
  \/ NonceTooLow(c)
  \/ TransactionUnderpriced(c)
  \/ OtherError(c)
  \/ PollFinds(c)
  \/ PollMisses(c)
  \/ SeekSuccessfulBroadcast(c)
  \/ SeekUnanswered(c)

NodeStep ==
  \/ \E p \in pool : Mine(p) \/ Evict(p)
  \/ MarketMoves

Done == (\A c \in Call : pc[c] \in {"absent", "done"}) /\ UNCHANGED vars

Next == (\E c \in Call : CallStep(c)) \/ NodeStep \/ Done

(* The broadcasters run as long as every request to the node ends, with an  *)
(* answer or an error: rpcCall sets no timeout, so this is assumed of the   *)
(* provider.  That the node includes anything is not assumed.               *)
Running(c) == pc[c] \notin {"absent", "idle", "done"}
Spec == Init /\ [][Next]_vars /\ WF_vars(\E c \in Call : Running(c) /\ CallStep(c))

-----------------------------------------------------------------------------
Price == [tip: Nat, max: Nat]
Broadcast == [nonce: Nat, price: Price, hash: BOOLEAN]

(* The type invariant of the broadcasters and the node; no call is          *)
(* published more often than sendMaxAttempts (broadcaster.ts:147).          *)
TypeOK ==
  /\ chain \in Chains
  /\ pc \in [Call -> PC]
  /\ cap \in [Call -> Nat]
  /\ nonce \in [Call -> Nat]
  /\ broadcasts \in [Call -> Seq(Broadcast)]
  /\ polls \in [Call -> Nat]
  /\ result \in [Call -> Result]
  /\ pool \subseteq [call: Call, attempt: Nat, nonce: Nat, price: Price]
  /\ mined \in Seq([call: Call, attempt: Nat, status: BOOLEAN])
  /\ trend \in Seq(Markets) \ {<<>>}
  /\ \A c \in Call : Len(broadcasts[c]) <= SendMaxAttempts

(* Whatever two calls of the authority do to each other's nonces, a         *)
(* published transaction is the next to be included: none is stuck behind a *)
(* nonce that nobody uses (broadcaster.ts:263, :343).                       *)
NoNonceGap == \A p \in pool : p.nonce = NextNonce

(* A call that succeeded is not included again, though it is published      *)
(* again under the next nonce when its nonce was spent: the estimation      *)
(* before it tells whether the call itself spent it                         *)
(* (broadcaster.ts:262-266).  A call that was included and reverted may be  *)
(* included again, and so may approvals.                                    *)
NothingAfterSuccess ==
  \A c \in Call \ Repeatable :
    \A i, j \in DOMAIN mined :
      mined[i].call = c /\ mined[i].status /\ mined[j].call = c => j <= i

(* What sendTransaction answers is what the chain says of that very call,   *)
(* whichever of its broadcasts was included (signer.ts:69-71).              *)
ReportsTheChain ==
  \A c \in Call : result[c] \in {"success", "reverted"} =>
    \E j \in DOMAIN mined : mined[j].call = c /\ Receipt(j) = result[c]

(* A broadcaster's own pending transaction is no reason for the node to     *)
(* refuse its replacement: prices escalate over any sequence of refusals    *)
(* and polls, as go-ethereum wants it (defaults.ts:51, manager.ts:283).     *)
(* Except for a price too small for the bump, which truncates, as the tip   *)
(* of 0 that is found when no tips were paid (fetcher-eip1559.ts:20).       *)
ReplacementOutbids ==
  \A c \in Call : pc[c] = "publish" =>
    \A p \in Rivals(Latest(c).nonce) :
      p.call = c /\ Bumpable(chain, p.price) => Outbids(Latest(c).price, p.price)

(* When the last attempt was refused and the receipts can be read, a call   *)
(* that fails has none of its known transactions included                   *)
(* (broadcaster.ts:290-311).                                                *)
RefusalIsSought ==
  [][\A c \in Call :
       /\ SeekSuccessfulBroadcast(c)
       /\ result'[c] = "failed"
       /\ broadcasts[c] # <<>> => ~Latest(c).hash
       => \A i \in DOMAIN broadcasts[c] : broadcasts[c][i].hash => Included(c, i) = {}]_vars

(* The same of every call that fails: "the broadcaster goes over all        *)
(* previous unconfirmed broadcasts to find a confirmed one"                 *)
(* (broadcaster.test.ts:185-186).                                           *)
AllBroadcastsSought ==
  [][\A c \in Call :
       SeekSuccessfulBroadcast(c) /\ result'[c] = "failed"
       => \A i \in DOMAIN broadcasts[c] : broadcasts[c][i].hash => Included(c, i) = {}]_vars

(* Every call that was made ends, included or not, however the node answers *)
(* (broadcaster.ts:147, :197).                                              *)
CallsSettle == []<>(\A c \in Call : ~Running(c))
=============================================================================
