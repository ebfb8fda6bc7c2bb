-------------------------------- MODULE Fees --------------------------------
(***************************************************************************)
(* The fees of an EVM chain's transactions (chain-evm/fees/ and            *)
(* chain-evm/preferences/): the options a chain ends up with, the fee      *)
(* fetchers, and the pricing of a transaction and of its replacement by    *)
(* EvmFeeManager.                                                          *)
(*                                                                         *)
(* Multipliers and percentiles are integers in units of 1/10_000, as       *)
(* safeIntToBigInt(x * 10_000) makes them, and division truncates.  The    *)
(* node's answer to a fee query is a record: gasPrice, the base fees of    *)
(* its last blocks, and the tips paid at each percentile it is asked for.  *)
(* A price is a pair of tip and max; a legacy gas price is both.           *)
(***************************************************************************)
EXTENDS Integers, Sequences, FiniteSetsExt, TLC

CONSTANTS
  Chains,             (* the chains looked at                              *)
  Markets,            (* the node's answers to a fee query                 *)
  Eip1559Compatible,  (* the chains that take EIP-1559 transactions        *)
  InputOpts,          (* of each chain: what the operator configures       *)
  GasLimit            (* estimateGas of a call                             *)

Unit == 10000
Scaled(x, multiplier) == (x * multiplier) \div Unit
Highest(S) == Max(S \cup {0})

(* The categories; a caller may also leave the category undefined.          *)
GasCategory == {"PROJECTED", "NORMAL", "AGGRESSIVE"}

PerCategory(projected, normal, aggressive) ==
  [c \in GasCategory |-> CASE c = "PROJECTED" -> projected
                           [] c = "NORMAL" -> normal
                           [] OTHER -> aggressive]

DefaultFeeManagerOpts ==
  [gasLimitMultiplier |-> 11000,
   legacyGasPriceMultiplier |-> PerCategory(11000, 11000, 13000),
   legacyEnforceAggressive |-> FALSE,
   eip1559BaseFeeMultiplier |-> PerCategory(10750, 10750, 11250),
   eip1559PriorityFeePercentile |-> PerCategory(500000, 500000, 750000),
   eip1559PriorityFeeIncreaseBoundary |-> 200,
   eip1559EnforceAggressive |-> FALSE,
   replaceBumperNormalMultiplier |-> 11100,
   replaceBumperAggressiveMultiplier |-> 13000,
   replaceBumperEnforceAggressive |-> TRUE,
   overcappingAllowed |-> TRUE,
   overcappingAllowance |-> 30000]

ChainSuggestions(ch) ==
  IF ch = "Polygon"
  THEN [legacyEnforceAggressive |-> TRUE, eip1559EnforceAggressive |-> TRUE]
  ELSE <<>>

(* EvmChainPreferencesStore.set: what the operator gives goes before what   *)
(* the chain suggests, and that before the defaults.                        *)
FeeOpts ==
  [ch \in Chains |-> InputOpts[ch] @@ ChainSuggestions(ch) @@ DefaultFeeManagerOpts]

-----------------------------------------------------------------------------
(* Array.sort() of bigints compares their decimal strings.                  *)
Digits(n) == CHOOSE d \in 1..9 : 10^(d-1) <= n /\ n < 10^d
StringBefore(m, n) ==
  LET width == 9
      Padded(x) == x * 10^(width - Digits(x))
  IN Padded(m) < Padded(n) \/ (Padded(m) = Padded(n) /\ m < n)

(* priorityFeeEstimator: the median of the tips, or of those from the       *)
(* largest increase on when that is large and in the upper half.            *)
PriorityFeeEstimator(rewards, boundary) ==
  LET tips == SortSeq(SelectSeq(rewards, LAMBDA r : r # 0), StringBefore)
      n == Len(tips)
      increase == [i \in 1..(n - 1) |-> ((tips[i + 1] - tips[i]) * 100) \div tips[i]]
      highest == Highest({increase[i] : i \in DOMAIN increase})
      at == {i \in DOMAIN increase : increase[i] = highest}
      skipped == IF highest >= boundary /\ at # {} /\ Min(at) - 1 >= n \div 2
                 THEN Min(at) - 1 ELSE 0
  IN CASE n = 0 -> 0
       [] n = 1 -> tips[1]
       [] OTHER -> tips[skipped + (n - skipped) \div 2 + 1]

(* getDefaultFetchers asks, for aggressive fees, for the percentile that    *)
(* the base fee is multiplied with.                                         *)
Percentile(opts, category) ==
  IF category = "AGGRESSIVE" THEN opts.eip1559BaseFeeMultiplier[category]
  ELSE opts.eip1559PriorityFeePercentile[category]

Eip1559Fee(opts, category, mkt) ==
  LET tip == PriorityFeeEstimator(mkt.reward[Percentile(opts, category)],
                                  opts.eip1559PriorityFeeIncreaseBoundary)
      recent == {mkt.baseFee[i] :
                   i \in {j \in DOMAIN mkt.baseFee : j > Len(mkt.baseFee) - 2}}
      base == Scaled(Highest(recent), opts.eip1559BaseFeeMultiplier[category])
  IN [baseFee |-> base, tip |-> tip, max |-> base + tip]

BnbGasPriceRange == [min |-> 300, max |-> 500]

LegacyFee(ch, opts, category, mkt) ==
  IF ch = "BSC"
  THEN LET floor == IF category = "AGGRESSIVE" THEN BnbGasPriceRange.max
                    ELSE BnbGasPriceRange.min
       IN Min({Max({mkt.gasPrice, floor}), BnbGasPriceRange.max})
  ELSE Scaled(mkt.gasPrice, opts.legacyGasPriceMultiplier[category])

IsLegacy(ch) == ch \notin Eip1559Compatible

(* gasCategory || (enforceAggressive ? ... ): PROJECTED is 0, and falsy.    *)
EffectiveCategory(ch, category) ==
  LET opts == FeeOpts[ch]
      enforce == IF IsLegacy(ch) THEN opts.legacyEnforceAggressive
                 ELSE opts.eip1559EnforceAggressive
  IN IF category \in {"NORMAL", "AGGRESSIVE"} THEN category
     ELSE IF enforce THEN "AGGRESSIVE" ELSE "NORMAL"

(* What the chain's fetcher finds.                                          *)
Fetched ==
  [ch \in Chains |-> [category \in GasCategory |-> [mkt \in Markets |->
     IF IsLegacy(ch)
     THEN LET price == LegacyFee(ch, FeeOpts[ch], category, mkt)
          IN [baseFee |-> 0, tip |-> price, max |-> price]
     ELSE Eip1559Fee(FeeOpts[ch], category, mkt)]]]

ASSUME FeesAssumption ==
  /\ GasLimit \in Nat
  /\ \A ch \in Chains :
       /\ FeeOpts[ch].gasLimitMultiplier \in Nat
       /\ FeeOpts[ch].replaceBumperNormalMultiplier \in Nat
       /\ FeeOpts[ch].replaceBumperAggressiveMultiplier \in Nat
       /\ \A category \in GasCategory, mkt \in Markets :
            Fetched[ch][category][mkt] \in [baseFee: Nat, tip: Nat, max: Nat]

(* estimateTx rounds; a capped fee of zero is no cap.                       *)
EstimateTx(ch) == (GasLimit * FeeOpts[ch].gasLimitMultiplier + Unit \div 2) \div Unit

CheckCapping(ch, price, cappedFee) ==
  LET opts == FeeOpts[ch]
      txFee == price.max * EstimateTx(ch)
  IN \/ cappedFee = 0
     \/ txFee <= cappedFee
     \/ opts.overcappingAllowed /\ txFee <= Scaled(cappedFee, opts.overcappingAllowance)

PopulateTx(ch, category, mkt) ==
  LET fee == Fetched[ch][EffectiveCategory(ch, category)][mkt]
  IN [tip |-> fee.tip, max |-> fee.max]

(* getGasPrice does not enforce a category: PROJECTED stays PROJECTED.      *)
GetGasPrice(ch, category, mkt) == Fetched[ch][category][mkt].max

(* The fee the estimator finds a fulfilment profitable at, which becomes    *)
(* the capped fee of its transaction (createOrderFullfillTx).               *)
EstimatedFee(ch, mkt) == GetGasPrice(ch, "PROJECTED", mkt) * EstimateTx(ch)

ReplaceBumper(ch) ==
  IF FeeOpts[ch].replaceBumperEnforceAggressive
  THEN FeeOpts[ch].replaceBumperAggressiveMultiplier
  ELSE FeeOpts[ch].replaceBumperNormalMultiplier

(* populateReplacementTx: both prices are bumped, and the fee cap covers    *)
(* the base fee and the bumped tip.                                         *)
PopulateReplacementTx_Fault(ch, old, category, mkt) == PopulateTx(ch, category, mkt)

PopulateReplacementTx(ch, old, category, mkt) ==
  LET fee == Fetched[ch][EffectiveCategory(ch, category)][mkt]
      tip == Max({fee.tip, Scaled(old.tip, ReplaceBumper(ch))})
      max == Max({fee.baseFee + tip, Scaled(old.max, ReplaceBumper(ch))})
  IN [tip |-> tip, max |-> IF IsLegacy(ch) THEN tip ELSE max]

(* go-ethereum takes a replacement that pays 10% more.  A price too small   *)
(* for the bumper, as the tip of 0 that PriorityFeeEstimator finds when no  *)
(* tips were paid, is not raised by as much: the division truncates.        *)
Raises(bumper, x) == x * (bumper - 11000) >= Unit

Bumpable(ch, price) ==
  /\ Raises(ReplaceBumper(ch), price.tip)
  /\ Raises(ReplaceBumper(ch), price.max)
=============================================================================
