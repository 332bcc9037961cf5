------------------------ MODULE PricingEngineProofs ------------------------
(***************************************************************************)
(* Theorems about PricingEngine, for any catalog, any requests, policies   *)
(* and signals that the schemas allow.                                     *)
(***************************************************************************)
EXTENDS PricingEngine, FiniteSetTheorems, TLAPS

-----------------------------------------------------------------------------
(* Least and greatest *)

\* A set of numbers that is not empty has a least member.
LEMMA LeastNatural ==
    ASSUME NEW T \in SUBSET Nat, T # {}
    PROVE  \E x \in T : \A y \in T : x <= y
<1> DEFINE R == {ss \in Nat \X Nat : ss[1] < ss[2]}
<1>0. OpToRel(<, Nat) = R
    BY Zenon DEF OpToRel
<1>1. IsWellFoundedOn(R, Nat)
    BY <1>0, NatLessThanWellFounded, Zenon
<1>2. \A x, y \in Nat : <<x, y>> \in R <=> x < y
    OBVIOUS
<1> HIDE DEF R
<1>3. PICK x \in T : \A y \in T : ~(<<y, x>> \in R)
    BY <1>1, WFMin, Zenon
<1>4. \A y \in T : y \in Nat /\ ~(y < x)
    BY <1>2, <1>3
<1> QED
    BY <1>4

LEMMA MinIs ==
    ASSUME NEW S \in SUBSET Nat, NEW z \in S
    PROVE  Min(S) \in S /\ \A y \in S : Min(S) <= y
<1>1. PICK x \in S : \A y \in S : x <= y
    BY LeastNatural
<1> QED
    BY <1>1 DEF Min

LEMMA MinMaxOfTwo ==
    ASSUME NEW a \in Int, NEW b \in Int
    PROVE  /\ Min({a, b}) = IF a <= b THEN a ELSE b
           /\ Max({a, b}) = IF a >= b THEN a ELSE b
BY DEF Min, Max

-----------------------------------------------------------------------------
(* Sums *)

\* SumFunction adds the values up one by one, in the order of CHOOSE.
Some(s) == CHOOSE x \in s : TRUE
AddsUp(f, sum, s) == sum[s] = IF s = {} THEN 0 ELSE f[Some(s)] + sum[s \ {Some(s)}]

LEMMA SmallerByOne ==
    ASSUME NEW S, IsFiniteSet(S), NEW s \in SUBSET S, s # {}
    PROVE  /\ Some(s) \in s /\ s \ {Some(s)} \in SUBSET S
           /\ Cardinality(s) \in Nat \ {0} /\ Cardinality(s \ {Some(s)}) = Cardinality(s) - 1
<1>1. Some(s) \in s
    BY DEF Some
<1>2. IsFiniteSet(s)
    BY FS_Subset
<1>3. Cardinality(s) \in Nat /\ Cardinality(s) # 0
    BY <1>2, FS_CardinalityType, FS_EmptySet
<1>4. Cardinality(s \ {Some(s)}) = Cardinality(s) - 1
    BY <1>1, <1>2, FS_RemoveElement
<1> QED
    BY <1>1, <1>3, <1>4

\* The recursion of SumFunction has a solution: by the least size of a set for
\* which it would have none.
LEMMA SumExists ==
    ASSUME NEW S, IsFiniteSet(S), NEW f
    PROVE  \E sum : /\ sum = [s \in SUBSET S |-> sum[s]]
                    /\ \A s \in SUBSET S : AddsUp(f, sum, s)
<1> DEFINE UpTo(n, sum) == \A s \in SUBSET S : Cardinality(s) <= n => AddsUp(f, sum, s)
           Fail == {n \in Nat : ~\E sum : UpTo(n, sum)}
<1>1. 0 \notin Fail
  <2> DEFINE zero == [s \in SUBSET S |-> 0]
  <2>1. ASSUME NEW s \in SUBSET S, Cardinality(s) <= 0 PROVE AddsUp(f, zero, s)
    <3>1. s # {} => Cardinality(s) \in Nat \ {0}
      BY SmallerByOne
    <3>2. ASSUME Cardinality(s) \in Nat \ {0} PROVE FALSE
      BY <2>1, <3>2
    <3>3. s = {}
      BY <3>1, <3>2
    <3> QED
      BY <3>3 DEF AddsUp
  <2>2. UpTo(0, zero)
    BY <2>1
  <2> HIDE DEF zero, UpTo
  <2> QED
    BY <2>2
<1>2. ASSUME NEW n \in Nat, NEW sum, UpTo(n, sum)
      PROVE  \E next : UpTo(n + 1, next)
  <2> DEFINE next == [s \in SUBSET S |-> IF s = {} THEN 0 ELSE f[Some(s)] + sum[s \ {Some(s)}]]
  <2>1. \A s \in SUBSET S : next[s] = IF s = {} THEN 0 ELSE f[Some(s)] + sum[s \ {Some(s)}]
    OBVIOUS
  <2> HIDE DEF next
  <2>2. \A s \in SUBSET S : Cardinality(s) <= n => next[s] = sum[s]
    BY <1>2, <2>1 DEF AddsUp
  <2>3. ASSUME NEW s \in SUBSET S, Cardinality(s) <= n + 1
        PROVE  AddsUp(f, next, s)
    <3>1. CASE s = {}
      BY <2>1, <3>1 DEF AddsUp
    <3>2. CASE s # {}
      <4>1. /\ s \ {Some(s)} \in SUBSET S
            /\ Cardinality(s) \in Nat /\ Cardinality(s \ {Some(s)}) = Cardinality(s) - 1
        BY <3>2, SmallerByOne
      <4>2. Cardinality(s \ {Some(s)}) <= n
        BY <2>3, <4>1
      <4>3. next[s \ {Some(s)}] = sum[s \ {Some(s)}]
        BY <2>2, <4>1, <4>2
      <4> QED
        BY <2>1, <3>2, <4>3 DEF AddsUp
    <3> QED
      BY <3>1, <3>2
  <2> QED
    BY <2>3
<1> HIDE DEF UpTo
<1>3. Fail = {}
  <2>1. SUFFICES ASSUME Fail # {} PROVE FALSE
    OBVIOUS
  <2>2. PICK n \in Fail : \A k \in Fail : n <= k
    BY <2>1, LeastNatural
  <2>3. n \in Nat \ {0}
    BY <1>1, <2>2
  <2>4. n - 1 \in Nat /\ ~(n <= n - 1) /\ (n - 1) + 1 = n
    BY <2>3
  <2>5. n - 1 \notin Fail
    BY <2>2, <2>4
  <2>6. \E sum : UpTo(n, sum)
    BY <1>2, <2>4, <2>5
  <2> QED
    BY <2>2, <2>6
<1>4. Cardinality(S) \in Nat
    BY FS_CardinalityType
<1>5. PICK any : UpTo(Cardinality(S), any)
    BY <1>3, <1>4
<1> DEFINE sum == [s \in SUBSET S |-> any[s]]
<1>6. \A s \in SUBSET S : sum[s] = any[s]
    OBVIOUS
<1>7. sum = [s \in SUBSET S |-> sum[s]]
    OBVIOUS
<1> HIDE DEF sum
<1>8. ASSUME NEW s \in SUBSET S
      PROVE  AddsUp(f, sum, s)
  <2>1. Cardinality(s) <= Cardinality(S)
    BY FS_Subset
  <2>2. AddsUp(f, any, s)
    BY <1>5, <2>1 DEF UpTo
  <2>3. s # {} => s \ {Some(s)} \in SUBSET S
    OBVIOUS
  <2> QED
    BY <1>6, <2>2, <2>3 DEF AddsUp
<1> QED
    BY <1>7, <1>8

LEMMA SumIs ==
    ASSUME NEW S, IsFiniteSet(S), NEW f, DOMAIN f = S
    PROVE  \E sum : /\ SumFunction(f) = sum[S]
                    /\ \A s \in SUBSET S : AddsUp(f, sum, s)
<1> DEFINE Step(sum) == [s \in SUBSET S |-> IF s = {} THEN 0 ELSE f[Some(s)] + sum[s \ {Some(s)}]]
           iter == CHOOSE sum : sum = Step(sum)
<1>1. SumFunction(f) = (CHOOSE sum : sum = [s \in SUBSET S |->
                           IF s = {} THEN 0 ELSE LET x == CHOOSE x \in s : TRUE IN f[x] + sum[s \ {x}]])[S]
    BY DEF SumFunction, SumFunctionOnSet, FoldFunctionOnSet, MapThenFoldSet
<1>2. SumFunction(f) = iter[S]
    BY <1>1, Zenon DEF Some
<1>3. PICK sum : sum = [s \in SUBSET S |-> sum[s]] /\ \A s \in SUBSET S : AddsUp(f, sum, s)
    BY SumExists
<1>4. sum = Step(sum)
    BY <1>3 DEF AddsUp
<1>5. iter = Step(iter)
  <2> HIDE DEF Step
  <2> QED
    BY <1>4
<1> HIDE DEF iter
<1>6. \A s \in SUBSET S : AddsUp(f, iter, s)
    BY <1>5 DEF AddsUp
<1> QED
    BY <1>2, <1>6

\* A sum of numbers between lo and hi is between as many times lo and hi.
LEMMA SumBetween ==
    ASSUME NEW S, IsFiniteSet(S), NEW f, DOMAIN f = S, NEW lo \in Nat, NEW hi \in Nat,
           \A x \in S : f[x] \in Nat /\ lo <= f[x] /\ f[x] <= hi
    PROVE  /\ SumFunction(f) \in Nat
           /\ lo * Cardinality(S) <= SumFunction(f) /\ SumFunction(f) <= hi * Cardinality(S)
<1>1. PICK sum : SumFunction(f) = sum[S] /\ \A s \in SUBSET S : AddsUp(f, sum, s)
    BY SumIs
<1> DEFINE Between(s) == /\ sum[s] \in Nat
                         /\ lo * Cardinality(s) <= sum[s] /\ sum[s] <= hi * Cardinality(s)
           Fail == {n \in Nat : \E s \in SUBSET S : Cardinality(s) = n /\ ~Between(s)}
<1>2. ASSUME NEW s \in SUBSET S, s # {}, Between(s \ {Some(s)})
      PROVE  Between(s)
  <2> DEFINE x == Some(s)
             y == sum[s \ {x}]
             n == Cardinality(s)
             a == lo * (n - 1)
             b == hi * (n - 1)
  <2>1. x \in S /\ n \in Nat \ {0} /\ Cardinality(s \ {x}) = n - 1
    BY <1>2, SmallerByOne
  <2>2. sum[s] = f[x] + y
    BY <1>1, <1>2 DEF AddsUp
  <2>3. y \in Nat /\ a <= y /\ y <= b
    BY <1>2, <2>1
  <2>4. f[x] \in Nat /\ lo <= f[x] /\ f[x] <= hi
    BY <2>1
  <2> HIDE DEF x, y, n
  <2>5. lo * n = a + lo /\ hi * n = b + hi /\ a \in Nat /\ b \in Nat
    BY <2>1
  <2> HIDE DEF a, b
  <2>6. sum[s] \in Nat /\ lo * n <= sum[s] /\ sum[s] <= hi * n
    BY <2>2, <2>3, <2>4, <2>5
  <2> QED
    BY <2>6 DEF n
<1>3. Between({})
  <2>1. sum[{}] = 0 /\ Cardinality({}) = 0
    BY <1>1, FS_EmptySet DEF AddsUp
  <2> QED
    BY <2>1
<1> HIDE DEF Between
<1>4. Fail = {}
  <2>1. SUFFICES ASSUME Fail # {} PROVE FALSE
    OBVIOUS
  <2>2. PICK n \in Fail : \A k \in Fail : n <= k
    BY <2>1, LeastNatural
  <2>3. PICK s \in SUBSET S : Cardinality(s) = n /\ ~Between(s)
    BY <2>2
  <2>4. s # {}
    BY <1>3, <2>3
  <2>5. /\ s \ {Some(s)} \in SUBSET S
        /\ n \in Nat \ {0} /\ Cardinality(s \ {Some(s)}) = n - 1
    BY <2>3, <2>4, SmallerByOne
  <2>6. n - 1 \in Nat /\ ~(n <= n - 1)
    BY <2>5
  <2>7. Between(s \ {Some(s)})
    BY <2>2, <2>5, <2>6
  <2> QED
    BY <1>2, <2>3, <2>4, <2>7
<1>5. Between(S)
  <2>1. Cardinality(S) \in Nat
    BY FS_CardinalityType
  <2> QED
    BY <1>4, <2>1
<1> QED
    BY <1>1, <1>5 DEF Between

-----------------------------------------------------------------------------
(* The filters *)

\* The first filter that a model fails is its verdict.
LEMMA VerdictIs ==
    ASSUME NEW q, NEW m, NEW s
    PROVE  Verdict(q, m, s) =
              IF ProviderFiltered(q, m) THEN "provider_filtered"
              ELSE IF CapabilityGap(q, m) THEN "capability_filtered"
              ELSE IF OverCapacity(q, m, s) THEN "capacity_filtered"
              ELSE IF OverBudget(q, m, s) THEN "budget_filtered"
              ELSE IF OverLatency(q, m, s) THEN "latency_filtered"
              ELSE "candidate"
<1> DEFINE F == Fails(q, m, s)
           failed == {i \in DOMAIN FilterOrder : F[FilterOrder[i]]}
<1>1. /\ DOMAIN FilterOrder = 1..5
      /\ FilterOrder[1] = "provider_filtered" /\ FilterOrder[2] = "capability_filtered"
      /\ FilterOrder[3] = "capacity_filtered" /\ FilterOrder[4] = "budget_filtered"
      /\ FilterOrder[5] = "latency_filtered"
    BY DEF FilterOrder
<1>2. /\ F["provider_filtered"] = ProviderFiltered(q, m)
      /\ F["capability_filtered"] = CapabilityGap(q, m)
      /\ F["capacity_filtered"] = OverCapacity(q, m, s)
      /\ F["budget_filtered"] = OverBudget(q, m, s)
      /\ F["latency_filtered"] = OverLatency(q, m, s)
    BY DEF Fails
<1> HIDE DEF F
<1>3. /\ failed \in SUBSET Nat /\ failed \subseteq 1..5
      /\ 1 \in failed <=> ProviderFiltered(q, m)
      /\ 2 \in failed <=> CapabilityGap(q, m)
      /\ 3 \in failed <=> OverCapacity(q, m, s)
      /\ 4 \in failed <=> OverBudget(q, m, s)
      /\ 5 \in failed <=> OverLatency(q, m, s)
    BY <1>1, <1>2
<1>4. Verdict(q, m, s) = IF failed = {} THEN "candidate" ELSE FilterOrder[Min(failed)]
    BY DEF Verdict, F
<1> HIDE DEF failed
<1>5. CASE failed = {}
    BY <1>3, <1>4, <1>5
<1>6. CASE failed # {}
  <2>1. Min(failed) \in failed /\ \A y \in failed : Min(failed) <= y
    BY <1>3, <1>6, MinIs
  <2>2. Min(failed) \in 1..5
    BY <1>3, <2>1
  <2>3. CASE 1 \in failed
    <3>1. Min(failed) = 1
      BY <2>1, <2>2, <2>3
    <3> QED
      BY <1>1, <1>3, <1>4, <1>6, <2>3, <3>1
  <2>4. CASE 1 \notin failed /\ 2 \in failed
    <3>1. Min(failed) = 2
      BY <2>1, <2>2, <2>4
    <3> QED
      BY <1>1, <1>3, <1>4, <1>6, <2>4, <3>1
  <2>5. CASE 1 \notin failed /\ 2 \notin failed /\ 3 \in failed
    <3>1. Min(failed) = 3
      BY <2>1, <2>2, <2>5
    <3> QED
      BY <1>1, <1>3, <1>4, <1>6, <2>5, <3>1
  <2>6. CASE 1 \notin failed /\ 2 \notin failed /\ 3 \notin failed /\ 4 \in failed
    <3>1. Min(failed) = 4
      BY <2>1, <2>2, <2>6
    <3> QED
      BY <1>1, <1>3, <1>4, <1>6, <2>6, <3>1
  <2>7. CASE 1 \notin failed /\ 2 \notin failed /\ 3 \notin failed /\ 4 \notin failed
    <3>1. Min(failed) = 5
      BY <2>1, <2>2, <2>7
    <3> QED
      BY <1>1, <1>3, <1>4, <1>6, <2>1, <2>7, <3>1
  <2> QED
    BY <2>3, <2>4, <2>5, <2>6, <2>7
<1> QED
    BY <1>5, <1>6

LEMMA VerdictReason ==
    ASSUME NEW q, NEW m, NEW s, Verdict(q, m, s) # "candidate"
    PROVE  Verdict(q, m, s) \in Reasons
<1>1. Reasons = {"provider_filtered", "capability_filtered", "capacity_filtered",
                 "budget_filtered", "latency_filtered"}
  <2>1. DOMAIN FilterOrder = 1..5
    BY DEF FilterOrder
  <2>2. Reasons = {FilterOrder[1], FilterOrder[2], FilterOrder[3], FilterOrder[4], FilterOrder[5]}
    BY <2>1 DEF Reasons, Range
  <2> QED
    BY <2>2 DEF FilterOrder
<1> QED
    BY <1>1, VerdictIs

-----------------------------------------------------------------------------
(* Cost *)

LEMMA MultiplierNat ==
    ASSUME NEW m, NEW language
    PROVE  Multiplier(m, language) \in Nat
<1> DEFINE hits == {i \in DOMAIN KeywordOrder : KeywordOrder[i] \in m.keywords}
           row == IF hits = {} THEN DefaultMultiplier
                               ELSE TokenMultipliers[KeywordOrder[Min(hits)]]
<1>1. /\ DOMAIN KeywordOrder = 1..5
      /\ \A i \in 1..5 : KeywordOrder[i] \in {"gpt", "openai", "claude", "anthropic", "gemini"}
    BY DEF KeywordOrder
<1>2. \A k \in {"gpt", "openai", "claude", "anthropic", "gemini"} :
         TokenMultipliers[k].zh \in Nat /\ TokenMultipliers[k].en \in Nat
    BY DEF TokenMultipliers
<1>3. row.zh \in Nat /\ row.en \in Nat
  <2>1. CASE hits = {}
    BY <2>1 DEF DefaultMultiplier
  <2>2. CASE hits # {}
    <3>1. hits \in SUBSET Nat
      BY <1>1
    <3>2. Min(hits) \in hits
      BY <2>2, <3>1, MinIs
    <3>3. KeywordOrder[Min(hits)] \in {"gpt", "openai", "claude", "anthropic", "gemini"}
      BY <1>1, <3>2
    <3> QED
      BY <1>2, <2>2, <3>3
  <2> QED
    BY <2>1, <2>2
<1> QED
    BY <1>3 DEF Multiplier

LEMMA TokensNat ==
    ASSUME NEW q \in Request, NEW m
    PROVE  /\ InputTokens(q, m) \in Nat \ {0} /\ OutputTokens(q) \in Nat \ {0}
           /\ TotalTokens(q, m) \in Nat \ {0}
<1>1. q.input_chars \in Nat /\ q.expected_output_tokens \in Nat /\ Multiplier(m, q.language) \in Nat
    BY MultiplierNat DEF Request
<1>2. (q.input_chars * Multiplier(m, q.language)) \div 100 \in Nat
  <2>1. q.input_chars * Multiplier(m, q.language) \in Nat
    BY <1>1
  <2> QED
    BY <2>1
<1>3. ASSUME NEW x \in Nat PROVE Max({1, x}) \in Nat \ {0}
  <2>1. Max({1, x}) = IF 1 >= x THEN 1 ELSE x
    BY MinMaxOfTwo
  <2> QED
    BY <2>1
<1>4. InputTokens(q, m) \in Nat \ {0}
    BY <1>2, <1>3 DEF InputTokens
<1>5. OutputTokens(q) \in Nat \ {0}
    BY <1>1, <1>3 DEF OutputTokens
<1> QED
    BY <1>4, <1>5 DEF TotalTokens

LEMMA CatalogModel ==
    ASSUME NEW m \in Range(Catalog)
    PROVE  /\ m.in_price_1k \in Nat /\ m.out_price_1k \in Nat /\ m.cold_start_cost \in Nat
           /\ m.pricing_tiers \in Seq([upto_tokens : Nat \cup {None}, in_price_1k : Nat, out_price_1k : Nat])
           /\ m.default_ttfb_ms \in Nat /\ m.cold_start_ms \in Nat
           /\ m.throughput_hint_qps \in Nat
           /\ m.hard_capacity_factor \in Nat /\ m.hard_capacity_factor >= 10
           /\ m.accuracy \in Nat /\ m.long_text_discount_rate \in 0..10
           /\ m.concurrency_premium_rate \in Nat /\ m.burst_qps_threshold \in Nat
<1>1. PICK i \in DOMAIN Catalog : m = Catalog[i]
    BY DEF Range
<1>2. /\ m.in_price_1k \in Nat /\ m.out_price_1k \in Nat /\ m.cold_start_cost \in Nat
      /\ m.default_ttfb_ms \in Nat \ {0} /\ m.cold_start_ms \in Nat
      /\ m.throughput_hint_qps \in Nat \ {0}
    BY <1>1, CatalogAssumption
<1>3. m.pricing_tiers \in Seq([upto_tokens : Nat \cup {None}, in_price_1k : Nat, out_price_1k : Nat])
    BY <1>1, CatalogAssumption
<1>4. m.hard_capacity_factor \in Nat /\ m.hard_capacity_factor >= 10
    BY <1>1, CatalogAssumption
<1>5. m.accuracy \in 0..10 /\ m.long_text_discount_rate \in 0..10
    BY <1>1, CatalogAssumption
<1>6. m.concurrency_premium_rate \in Nat /\ m.burst_qps_threshold \in 1..15
    BY <1>1, CatalogAssumption
<1>7. m.accuracy \in Nat /\ m.burst_qps_threshold \in Nat
    BY <1>5, <1>6
<1> QED
    BY <1>2, <1>3, <1>4, <1>5, <1>6, <1>7

LEMMA SignalParts ==
    ASSUME NEW q \in Request, NEW m \in Range(Catalog), NEW s \in Signals \cup {None}
    PROVE  /\ Qps(m, s) \in Nat /\ Ttfb(q, m, s) \in Nat /\ SuccessRate(s) \in Nat
           /\ SuccessRate(s) <= 10 /\ SignalAge(s) \in Nat \cup {None}
<1>1. s # None => /\ s.ttfb_p50_ms \in Nat /\ s.throughput_hint_qps \in Nat
                  /\ s.success_rate \in 0..10 /\ s.age \in Nat \cup {None}
    BY DEF Signals
<1>2. m.default_ttfb_ms \in Nat /\ m.cold_start_ms \in Nat /\ m.throughput_hint_qps \in Nat
    BY CatalogModel
<1>3. (s # None => s.success_rate \in Nat /\ s.success_rate <= 10) /\ 10 \in Nat
    BY <1>1
<1> QED
    BY <1>1, <1>2, <1>3 DEF Qps, Ttfb, SuccessRate, SignalAge

LEMMA BaseCostNat ==
    ASSUME NEW q \in Request, NEW m \in Range(Catalog)
    PROVE  BaseCost(q, m) \in Nat
<1> DEFINE total == TotalTokens(q, m)
           fits == {i \in DOMAIN m.pricing_tiers : Covers(m.pricing_tiers[i], total)}
           tier == PickTier(m, total)
<1>1. tier.in_price_1k \in Nat /\ tier.out_price_1k \in Nat
  <2>1. tier = IF fits = {} THEN [in_price_1k |-> m.in_price_1k, out_price_1k |-> m.out_price_1k]
                            ELSE m.pricing_tiers[Min(fits)]
    BY DEF PickTier
  <2>2. CASE fits = {}
    BY <2>1, <2>2, CatalogModel
  <2>3. CASE fits # {}
    <3>1. DOMAIN m.pricing_tiers \in SUBSET Nat
      BY CatalogModel
    <3>2. Min(fits) \in fits
      BY <2>3, <3>1, MinIs
    <3>3. m.pricing_tiers[Min(fits)] \in [upto_tokens : Nat \cup {None}, in_price_1k : Nat, out_price_1k : Nat]
      <4> DEFINE k == Min(fits)
                 tiers == m.pricing_tiers
                 Tier == [upto_tokens : Nat \cup {None}, in_price_1k : Nat, out_price_1k : Nat]
      <4>1. k \in DOMAIN tiers /\ tiers \in Seq(Tier)
        BY <3>2, CatalogModel
      <4>2. \A seq \in Seq(Tier) : \A j \in DOMAIN seq : seq[j] \in Tier
        <5> HIDE DEF Tier
        <5> QED
          OBVIOUS
      <4> HIDE DEF k, tiers, Tier
      <4>3. tiers[k] \in Tier
        BY <4>1, <4>2
      <4> QED
        BY <4>3 DEF k, tiers, Tier
    <3> QED
      BY <2>1, <2>3, <3>3
  <2> QED
    BY <2>2, <2>3
<1>2. InputTokens(q, m) \in Nat /\ OutputTokens(q) \in Nat /\ m.cold_start_cost \in Nat
    BY TokensNat, CatalogModel
<1>3. BaseCost(q, m) = InputTokens(q, m) * tier.in_price_1k + OutputTokens(q) * tier.out_price_1k
                          + (IF q.throughput_hint_qps <= 0 THEN m.cold_start_cost ELSE 0)
    BY DEF BaseCost
<1> HIDE DEF tier
<1>4. InputTokens(q, m) * tier.in_price_1k \in Nat /\ OutputTokens(q) * tier.out_price_1k \in Nat
    BY <1>1, <1>2
<1> QED
    BY <1>2, <1>3, <1>4

LEMMA PremiumNat ==
    ASSUME NEW q \in Request, NEW m \in Range(Catalog), NEW s \in Signals \cup {None}
    PROVE  Premium(q, m, s) \in Nat
<1> DEFINE over == 10 * q.throughput_hint_qps - m.burst_qps_threshold * Qps(m, s)
<1>1. /\ q.throughput_hint_qps \in Nat /\ Qps(m, s) \in Nat
      /\ m.burst_qps_threshold \in Nat /\ m.concurrency_premium_rate \in Nat
    BY SignalParts, CatalogModel DEF Request
<1>2. m.burst_qps_threshold * Qps(m, s) \in Nat
    BY <1>1
<1>3. over > 0 /\ Qps(m, s) > 0 => m.concurrency_premium_rate * Min({10, over \div Qps(m, s)}) \in Nat
  <2> HAVE over > 0 /\ Qps(m, s) > 0
  <2>1. over \in Nat
    BY <1>1, <1>2
  <2> HIDE DEF over
  <2>2. over \div Qps(m, s) \in Nat
    BY <1>1, <2>1
  <2>3. Min({10, over \div Qps(m, s)}) \in Nat
    BY <2>2, MinMaxOfTwo
  <2> QED
    BY <1>1, <2>3
<1>4. 10 * q.throughput_hint_qps > m.burst_qps_threshold * Qps(m, s) => over > 0
    BY <1>1, <1>2
<1>5. Premium(q, m, s) =
         IF /\ q.throughput_hint_qps > 0 /\ Qps(m, s) > 0
            /\ 10 * q.throughput_hint_qps > m.burst_qps_threshold * Qps(m, s)
         THEN m.concurrency_premium_rate * Min({10, over \div Qps(m, s)})
         ELSE 0
    BY DEF Premium
<1> HIDE DEF over
<1> QED
    BY <1>3, <1>4, <1>5

LEMMA TotalCostNat ==
    ASSUME NEW q \in Request, NEW m \in Range(Catalog), NEW s \in Signals \cup {None}
    PROVE  TotalCost(q, m, s) \in Nat
<1>1. Discount(q, m) \in 0..10
    BY CatalogModel DEF Discount
<1>2. 10 - Discount(q, m) \in Nat /\ 100 + Premium(q, m, s) \in Nat /\ BaseCost(q, m) \in Nat
    BY <1>1, PremiumNat, BaseCostNat
<1>3. BaseCost(q, m) * (10 - Discount(q, m)) \in Nat
    BY <1>2
<1> QED
    BY <1>2, <1>3 DEF TotalCost

\* Half a micro-dollar either way.
LEMMA RoundMoneyIs ==
    ASSUME NEW cost \in Nat
    PROVE  /\ RoundMoney(cost) \in Nat /\ RoundMoney(cost) * MicroDollar <= cost + MicroDollar \div 2
           /\ cost = 0 => RoundMoney(cost) = 0
BY DEF RoundMoney, MicroDollar

\* Requests that differ in their limits alone.
SameButLimits(q, q2) ==
    /\ q2.provider_allowlist = q.provider_allowlist /\ q2.provider_denylist = q.provider_denylist
    /\ q2.capability_requirements = q.capability_requirements /\ q2.task_type = q.task_type
    /\ q2.language = q.language /\ q2.input_chars = q.input_chars
    /\ q2.expected_output_tokens = q.expected_output_tokens
    /\ q2.context_window_tokens = q.context_window_tokens
    /\ q2.throughput_hint_qps = q.throughput_hint_qps

\* Limits change neither what a model costs nor how fast it is, nor the first
\* three filters.
LEMMA LimitsChangeNothing ==
    ASSUME NEW q, NEW q2, SameButLimits(q, q2), NEW m, NEW s
    PROVE  /\ ProviderFiltered(q2, m) = ProviderFiltered(q, m)
           /\ CapabilityGap(q2, m) = CapabilityGap(q, m)
           /\ OverCapacity(q2, m, s) = OverCapacity(q, m, s)
           /\ TotalCost(q2, m, s) = TotalCost(q, m, s)
           /\ Ttfb(q2, m, s) = Ttfb(q, m, s)
<1>1. ProviderFiltered(q2, m) = ProviderFiltered(q, m)
    BY Zenon DEF SameButLimits, ProviderFiltered
<1>2. CapabilityGap(q2, m) = CapabilityGap(q, m)
    BY Zenon DEF SameButLimits, CapabilityGap
<1>3. OverCapacity(q2, m, s) = OverCapacity(q, m, s)
    BY Zenon DEF SameButLimits, OverCapacity
<1>4. Ttfb(q2, m, s) = Ttfb(q, m, s)
    BY Zenon DEF SameButLimits, Ttfb
<1>5. InputTokens(q2, m) = InputTokens(q, m) /\ OutputTokens(q2) = OutputTokens(q)
    BY Zenon DEF SameButLimits, InputTokens, OutputTokens
<1>6. TotalTokens(q2, m) = TotalTokens(q, m)
    BY <1>5, Zenon DEF TotalTokens
<1>7. BaseCost(q2, m) = BaseCost(q, m)
    BY <1>5, <1>6, Zenon DEF SameButLimits, BaseCost
<1>8. Discount(q2, m) = Discount(q, m)
    BY <1>6, Zenon DEF Discount
<1>9. Premium(q2, m, s) = Premium(q, m, s)
    BY Zenon DEF SameButLimits, Premium
<1>10. TotalCost(q2, m, s) = TotalCost(q, m, s)
    BY <1>7, <1>8, <1>9, Zenon DEF TotalCost
<1> QED
    BY <1>1, <1>2, <1>3, <1>4, <1>10

-----------------------------------------------------------------------------
(* Score *)

LEMMA DivGrows ==
    ASSUME NEW a \in Nat, NEW b \in Nat \ {0}, NEW c \in Nat, NEW d \in Nat \ {0}, a * d <= c * b
    PROVE  a \div b \in Nat /\ a \div b <= c \div d
<1> DEFINE x == a \div b
           y == c \div d
<1>1. x \in Nat /\ b * x <= a
    OBVIOUS
<1>2. y \in Nat /\ c < d * y + d
    OBVIOUS
<1> HIDE DEF x, y
<1>3. SUFFICES ASSUME y < x PROVE FALSE
    BY <1>1, <1>2 DEF x, y
<1>4. d * y + d <= d * x
  <2>1. y + 1 <= x
    BY <1>1, <1>2, <1>3
  <2>2. d * (y + 1) <= d * x
    BY <1>1, <1>2, <2>1
  <2>3. d * (y + 1) = d * y + d
    BY <1>2
  <2> QED
    BY <2>2, <2>3
<1>5. c < d * x
    BY <1>1, <1>2, <1>4
<1>6. c * b < (d * x) * b
    BY <1>1, <1>5
<1>7. (b * x) * d <= a * d
    BY <1>1
<1>8. (b * x) * d = (d * x) * b
    BY <1>1
<1> QED
    BY <1>1, <1>6, <1>7, <1>8

LEMMA RoundDivGrows ==
    ASSUME NEW a \in Nat, NEW b \in Nat \ {0}, NEW c \in Nat, NEW d \in Nat \ {0}, a * d <= c * b
    PROVE  RoundDiv(a, b) \in Nat /\ RoundDiv(a, b) <= RoundDiv(c, d)
<1> DEFINE x == 2 * a + b
           y == 2 * c + d
<1>1. x \in Nat /\ y \in Nat /\ 2 * b \in Nat \ {0} /\ 2 * d \in Nat \ {0}
    OBVIOUS
<1>2. x * (2 * d) <= y * (2 * b)
  <2>1. a * d \in Nat /\ c * b \in Nat /\ b * d \in Nat
    OBVIOUS
  <2>2. x * (2 * d) = 4 * (a * d) + 2 * (b * d) /\ y * (2 * b) = 4 * (c * b) + 2 * (b * d)
    OBVIOUS
  <2> QED
    BY <2>1, <2>2
<1>3. RoundDiv(a, b) = x \div (2 * b) /\ RoundDiv(c, d) = y \div (2 * d)
    BY DEF RoundDiv
<1> DEFINE u == 2 * b
           v == 2 * d
<1>4. x \in Nat /\ y \in Nat /\ u \in Nat \ {0} /\ v \in Nat \ {0} /\ x * v <= y * u
    BY <1>1, <1>2
<1> HIDE DEF x, y, u, v
<1>5. x \div u \in Nat /\ x \div u <= y \div v
    BY <1>4, DivGrows
<1> QED
    BY <1>3, <1>5 DEF u, v

LEMMA RoundDivNat ==
    ASSUME NEW a \in Nat, NEW b \in Nat \ {0}
    PROVE  RoundDiv(a, b) \in Nat
BY RoundDivGrows

LEMMA ClampIs ==
    ASSUME NEW x \in Int
    PROVE  /\ Clamp(x) = IF x >= One THEN One ELSE IF x <= 0 THEN 0 ELSE x
           /\ Clamp(x) \in Nat /\ Clamp(x) <= One
<1>1. One \in Nat
    BY DEF One
<1>2. Min({One, x}) = IF One <= x THEN One ELSE x
    BY <1>1, MinMaxOfTwo
<1>3. Min({One, x}) \in Int
    BY <1>1, <1>2
<1>4. Clamp(x) = IF 0 >= Min({One, x}) THEN 0 ELSE Min({One, x})
    BY <1>3, MinMaxOfTwo DEF Clamp
<1>5. One > 0
    BY DEF One
<1> QED
    BY <1>1, <1>2, <1>4, <1>5

LEMMA ClampGrows ==
    ASSUME NEW x \in Int, NEW y \in Int, x <= y
    PROVE  Clamp(x) <= Clamp(y)
<1>1. One \in Nat /\ One > 0
    BY DEF One
<1> QED
    BY <1>1, ClampIs

LEMMA BenefitGrows ==
    ASSUME NEW x \in Nat, NEW y \in Nat, x <= y, NEW b \in Nat \ {0}
    PROVE  BenefitScore(x, b) \in Nat /\ BenefitScore(x, b) <= BenefitScore(y, b)
<1>1. One \in Nat
    BY DEF One
<1>2. One * x \in Nat /\ One * y \in Nat /\ x + b \in Nat \ {0} /\ y + b \in Nat \ {0}
    BY <1>1
<1>3. (One * x) * (y + b) <= (One * y) * (x + b)
  <2>1. x * (y + b) <= y * (x + b)
    <3>1. x * b <= y * b /\ x * b \in Nat /\ y * b \in Nat /\ x * y \in Nat
      OBVIOUS
    <3>2. x * (y + b) = x * y + x * b /\ y * (x + b) = x * y + y * b
      OBVIOUS
    <3> QED
      BY <3>1, <3>2
  <2>2. One * (x * (y + b)) <= One * (y * (x + b))
    BY <1>1, <2>1
  <2>3. (One * x) * (y + b) = One * (x * (y + b)) /\ (One * y) * (x + b) = One * (y * (x + b))
    BY <1>1
  <2> QED
    BY <2>2, <2>3
<1> QED
    BY <1>2, <1>3, RoundDivGrows DEF BenefitScore

LEMMA CostScoreNat ==
    ASSUME NEW x \in Nat, NEW b \in Nat \ {0}
    PROVE  CostScore(x, b) \in Nat
<1>1. One * b \in Nat /\ x + b \in Nat \ {0}
    BY DEF One
<1> QED
    BY <1>1, RoundDivNat DEF CostScore

LEMMA BreakdownNat ==
    ASSUME NEW q \in Request, NEW m \in Range(Catalog), NEW s \in Signals \cup {None}
    PROVE  LET b == ScoreBreakdown(q, m, s)
           IN b.token_cost \in Nat /\ b.qps \in Nat /\ b.latency \in Nat /\ b.accuracy \in Nat
<1>1. /\ Baseline.token_cost \in Nat \ {0} /\ Baseline.qps \in Nat \ {0}
      /\ Baseline.latency \in Nat \ {0} /\ Baseline.accuracy \in Nat \ {0}
    BY BaselineAssumption
<1>2. /\ TotalCost(q, m, s) \in Nat /\ 1000 * TotalTokens(q, m) \in Nat \ {0}
      /\ Qps(m, s) \in Nat /\ Ttfb(q, m, s) \in Nat /\ m.accuracy \in Nat /\ SuccessRate(s) \in Nat
    BY TotalCostNat, TokensNat, SignalParts, CatalogModel
<1>3. TotalCost(q, m, s) \div (1000 * TotalTokens(q, m)) \in Nat /\ m.accuracy * SuccessRate(s) \in Nat
  <2>1. \A a \in Nat, b \in Nat \ {0} : a \div b \in Nat
    OBVIOUS
  <2> QED
    BY <1>2, <2>1
<1>4. /\ CostScore(TotalCost(q, m, s) \div (1000 * TotalTokens(q, m)), Baseline.token_cost) \in Nat
      /\ CostScore(Ttfb(q, m, s), Baseline.latency) \in Nat
    BY <1>1, <1>2, <1>3, CostScoreNat
<1>5. /\ BenefitScore(Qps(m, s), Baseline.qps) \in Nat
      /\ BenefitScore(m.accuracy * SuccessRate(s), Baseline.accuracy) \in Nat
  <2>1. \A x \in Nat, b \in Nat \ {0} : BenefitScore(x, b) \in Nat
    BY BenefitGrows
  <2> QED
    BY <1>1, <1>2, <1>3, <2>1
<1> QED
    BY <1>4, <1>5, Zenon DEF ScoreBreakdown

\* The weighted mean of a breakdown grows with its parts.
LEMMA WeightedGrows ==
    ASSUME NEW p \in Policies, NEW b, NEW c,
           b.token_cost \in Nat, b.qps \in Nat, b.latency \in Nat, b.accuracy \in Nat, c.accuracy \in Nat,
           c.token_cost = b.token_cost, c.qps = b.qps, c.latency = b.latency, b.accuracy <= c.accuracy
    PROVE  WeightedScore(p, b) \in Nat /\ WeightedScore(p, b) <= WeightedScore(p, c)
<1> DEFINE w == p.weights
           rest == b.token_cost * w.token_cost + b.qps * w.qps + b.latency * w.latency
           W == w.token_cost + w.qps + w.latency + w.accuracy
<1>1. w.token_cost \in Nat /\ w.qps \in Nat /\ w.latency \in Nat /\ w.accuracy \in Nat /\ W \in Nat \ {0}
    BY PolicyAssumption
<1>2. rest \in Nat
  <2>1. \A x, y \in Nat : x * y \in Nat
    OBVIOUS
  <2>2. b.token_cost * w.token_cost \in Nat /\ b.qps * w.qps \in Nat /\ b.latency * w.latency \in Nat
    BY <1>1, <2>1
  <2> QED
    BY <2>2
<1>3. WeightedScore(p, b) = RoundDiv(rest + b.accuracy * w.accuracy, W)
    BY DEF WeightedScore
<1>4. WeightedScore(p, c) = RoundDiv(rest + c.accuracy * w.accuracy, W)
    BY DEF WeightedScore
<1>5. b.accuracy * w.accuracy \in Nat /\ b.accuracy * w.accuracy <= c.accuracy * w.accuracy
  <2>1. \A x, y, z \in Nat : x <= y => x * z \in Nat /\ x * z <= y * z
    OBVIOUS
  <2> QED
    BY <1>1, <2>1
<1> DEFINE x == rest + b.accuracy * w.accuracy
           y == rest + c.accuracy * w.accuracy
<1>6. x \in Nat /\ y \in Nat /\ x <= y
  <2>1. c.accuracy * w.accuracy \in Nat
    BY <1>1
  <2> HIDE DEF rest
  <2> QED
    BY <1>2, <1>5, <2>1
<1> HIDE DEF x, y, W
<1>7. x * W <= y * W
    BY <1>1, <1>6
<1> QED
    BY <1>1, <1>3, <1>4, <1>6, <1>7, RoundDivGrows DEF x, y

LEMMA BonusGrows ==
    ASSUME NEW p \in Policies, NEW s \in Signals \cup {None}, NEW t \in Signals \cup {None},
           SuccessRate(s) <= SuccessRate(t)
    PROVE  FallbackBonus(p, s) \in Nat /\ FallbackBonus(p, s) <= FallbackBonus(p, t)
<1>1. SuccessRate(s) \in Nat /\ SuccessRate(t) \in Nat /\ p.fallback_bonus \in Nat
  <2>1. \A x \in Signals : x.success_rate \in Nat
    BY DEF Signals
  <2> QED
    BY <2>1, PolicyAssumption DEF SuccessRate
<1> DEFINE x == p.fallback_bonus * SuccessRate(s)
           y == p.fallback_bonus * SuccessRate(t)
<1>2. x \in Nat /\ y \in Nat /\ x <= y
    BY <1>1
<1>3. FallbackBonus(p, s) = RoundDiv(x, 10) /\ FallbackBonus(p, t) = RoundDiv(y, 10)
    BY DEF FallbackBonus
<1> HIDE DEF x, y
<1>4. x * 10 <= y * 10 /\ 10 \in Nat \ {0}
    BY <1>2
<1>5. RoundDiv(x, 10) \in Nat /\ RoundDiv(x, 10) <= RoundDiv(y, 10)
    BY <1>2, <1>4, RoundDivGrows
<1> QED
    BY <1>3, <1>5

\* A signal with no more success, no fewer penalties and the same times scores
\* no more.
LEMMA ScoreGrows ==
    ASSUME NEW q \in Request, NEW p \in Policies, NEW m \in Range(Catalog),
           NEW s \in Signals \cup {None}, NEW t \in Signals \cup {None},
           Qps(m, s) = Qps(m, t), Ttfb(q, m, s) = Ttfb(q, m, t), SuccessRate(s) <= SuccessRate(t),
           FreshnessPenalty(p, t) <= FreshnessPenalty(p, s), DegradedPenalty(p, t) <= DegradedPenalty(p, s)
    PROVE  /\ ConfidenceScore(q, p, m, s) \in Nat /\ ConfidenceScore(q, p, m, s) <= One
           /\ ConfidenceScore(q, p, m, s) <= ConfidenceScore(q, p, m, t)
<1> DEFINE b == ScoreBreakdown(q, m, s)
           c == ScoreBreakdown(q, m, t)
<1>1. Premium(q, m, s) = Premium(q, m, t)
    BY Zenon DEF Premium
<1>2. TotalCost(q, m, s) = TotalCost(q, m, t)
    BY <1>1, Zenon DEF TotalCost
<1>3. c.token_cost = b.token_cost /\ c.qps = b.qps /\ c.latency = b.latency
  <2>1. /\ b.token_cost = CostScore(TotalCost(q, m, s) \div (1000 * TotalTokens(q, m)), Baseline.token_cost)
        /\ b.qps = BenefitScore(Qps(m, s), Baseline.qps)
        /\ b.latency = CostScore(Ttfb(q, m, s), Baseline.latency)
    BY Zenon DEF ScoreBreakdown
  <2>2. /\ c.token_cost = CostScore(TotalCost(q, m, t) \div (1000 * TotalTokens(q, m)), Baseline.token_cost)
        /\ c.qps = BenefitScore(Qps(m, t), Baseline.qps)
        /\ c.latency = CostScore(Ttfb(q, m, t), Baseline.latency)
    BY Zenon DEF ScoreBreakdown
  <2> HIDE DEF b, c
  <2>3. c.token_cost = b.token_cost
    BY <1>2, <2>1, <2>2
  <2>4. c.qps = b.qps /\ c.latency = b.latency
    BY <2>1, <2>2
  <2> QED
    BY <2>3, <2>4
<1>4. b.accuracy <= c.accuracy
  <2>1. m.accuracy \in Nat /\ SuccessRate(s) \in Nat /\ SuccessRate(t) \in Nat
    BY SignalParts, CatalogModel
  <2>2. /\ m.accuracy * SuccessRate(s) \in Nat /\ m.accuracy * SuccessRate(t) \in Nat
        /\ m.accuracy * SuccessRate(s) <= m.accuracy * SuccessRate(t)
    BY <2>1
  <2>3. Baseline.accuracy \in Nat \ {0}
    BY BaselineAssumption
  <2>4. BenefitScore(m.accuracy * SuccessRate(s), Baseline.accuracy)
           <= BenefitScore(m.accuracy * SuccessRate(t), Baseline.accuracy)
    BY <2>2, <2>3, BenefitGrows
  <2> QED
    BY <2>4 DEF ScoreBreakdown
<1>5. /\ b.token_cost \in Nat /\ b.qps \in Nat /\ b.latency \in Nat /\ b.accuracy \in Nat
      /\ c.token_cost \in Nat /\ c.qps \in Nat /\ c.latency \in Nat /\ c.accuracy \in Nat
    BY BreakdownNat
<1> HIDE DEF b, c
<1>6. /\ WeightedScore(p, b) \in Nat /\ WeightedScore(p, c) \in Nat
      /\ WeightedScore(p, b) <= WeightedScore(p, c)
    BY <1>3, <1>4, <1>5, WeightedGrows
<1>7. /\ FallbackBonus(p, s) \in Nat /\ FallbackBonus(p, t) \in Nat
      /\ FallbackBonus(p, s) <= FallbackBonus(p, t)
  <2>1. SuccessRate(t) <= SuccessRate(t)
    BY SignalParts
  <2> QED
    BY <2>1, BonusGrows
<1>8. /\ FreshnessPenalty(p, s) \in Nat /\ FreshnessPenalty(p, t) \in Nat
      /\ DegradedPenalty(p, s) \in Nat /\ DegradedPenalty(p, t) \in Nat
    BY PolicyAssumption DEF FreshnessPenalty, DegradedPenalty
<1> DEFINE x == WeightedScore(p, b) - FreshnessPenalty(p, s) - DegradedPenalty(p, s) + FallbackBonus(p, s)
           y == WeightedScore(p, c) - FreshnessPenalty(p, t) - DegradedPenalty(p, t) + FallbackBonus(p, t)
<1>9. x \in Int /\ y \in Int /\ x <= y
    BY <1>6, <1>7, <1>8
<1>10. ConfidenceScore(q, p, m, s) = Clamp(x) /\ ConfidenceScore(q, p, m, t) = Clamp(y)
    BY DEF ConfidenceScore, b, c
<1> HIDE DEF x, y
<1> QED
    BY <1>9, <1>10, ClampIs, ClampGrows

LEMMA ScoreNat ==
    ASSUME NEW q \in Request, NEW p \in Policies, NEW m \in Range(Catalog), NEW s \in Signals \cup {None}
    PROVE  ConfidenceScore(q, p, m, s) \in Nat /\ ConfidenceScore(q, p, m, s) <= One
<1>1. SuccessRate(s) <= SuccessRate(s)
    BY SignalParts
<1>2. FreshnessPenalty(p, s) <= FreshnessPenalty(p, s) /\ DegradedPenalty(p, s) <= DegradedPenalty(p, s)
    BY PolicyAssumption DEF FreshnessPenalty, DegradedPenalty
<1> QED
    BY <1>1, <1>2, ScoreGrows

LEMMA Refreshed ==
    ASSUME NEW s \in Signals, NEW a, NEW d, NEW x
    PROVE  [s EXCEPT !.age = a, !.degraded = d, !.success_rate = x] =
              [age |-> a, ttfb_p50_ms |-> s.ttfb_p50_ms, throughput_hint_qps |-> s.throughput_hint_qps,
               success_rate |-> x, degraded |-> d]
<1> DEFINE fresh == [s EXCEPT !.age = a]
           sound == [fresh EXCEPT !.degraded = d]
<1>1. s = [age |-> s.age, ttfb_p50_ms |-> s.ttfb_p50_ms, throughput_hint_qps |-> s.throughput_hint_qps,
           success_rate |-> s.success_rate, degraded |-> s.degraded]
    BY DEF Signals
<1>2. fresh = [age |-> a, ttfb_p50_ms |-> s.ttfb_p50_ms, throughput_hint_qps |-> s.throughput_hint_qps,
               success_rate |-> s.success_rate, degraded |-> s.degraded]
    BY <1>1
<1>3. [s EXCEPT !.age = a, !.degraded = d, !.success_rate = x] = [sound EXCEPT !.success_rate = x]
    OBVIOUS
<1> HIDE DEF fresh
<1>4. sound = [age |-> a, ttfb_p50_ms |-> s.ttfb_p50_ms, throughput_hint_qps |-> s.throughput_hint_qps,
               success_rate |-> s.success_rate, degraded |-> d]
    BY <1>2
<1> HIDE DEF sound
<1> QED
    BY <1>3, <1>4

\* The same measurements, but fresh, sound and successful.
LEMMA GoodNewsHelps ==
    ASSUME NEW q \in Request, NEW p \in Policies, NEW m \in Range(Catalog), NEW s \in Signals
    PROVE  ConfidenceScore(q, p, m, s)
              <= ConfidenceScore(q, p, m, [s EXCEPT !.age = 0, !.degraded = FALSE, !.success_rate = 10])
<1> DEFINE t == [s EXCEPT !.age = 0, !.degraded = FALSE, !.success_rate = 10]
<1>1. /\ t \in Signals /\ t.age = 0 /\ t.degraded = FALSE /\ t.success_rate = 10
      /\ t.ttfb_p50_ms = s.ttfb_p50_ms /\ t.throughput_hint_qps = s.throughput_hint_qps
  <2>1. s = [age |-> s.age, ttfb_p50_ms |-> s.ttfb_p50_ms, throughput_hint_qps |-> s.throughput_hint_qps,
             success_rate |-> s.success_rate, degraded |-> s.degraded]
        /\ s.ttfb_p50_ms \in Nat /\ s.throughput_hint_qps \in Nat
    BY DEF Signals
  <2>2. t = [age |-> 0, ttfb_p50_ms |-> s.ttfb_p50_ms, throughput_hint_qps |-> s.throughput_hint_qps,
             success_rate |-> 10, degraded |-> FALSE]
    <3>1. \A a, d, x : [s EXCEPT !.age = a, !.degraded = d, !.success_rate = x] =
             [age |-> a, ttfb_p50_ms |-> s.ttfb_p50_ms, throughput_hint_qps |-> s.throughput_hint_qps,
              success_rate |-> x, degraded |-> d]
      BY Refreshed
    <3> QED
      BY <3>1, Zenon
  <2> HIDE DEF t
  <2>3. 0 \in Nat \cup {None} /\ 10 \in 0..10 /\ FALSE \in BOOLEAN
    OBVIOUS
  <2> QED
    BY <2>1, <2>2, <2>3 DEF Signals
<1> HIDE DEF t
<1>2. s # None /\ t # None /\ 0 # None
    BY <1>1, NoneAssumption
<1>3. Qps(m, s) = Qps(m, t) /\ Ttfb(q, m, s) = Ttfb(q, m, t)
    BY <1>1, <1>2, Zenon DEF Qps, Ttfb
<1>4. SuccessRate(s) <= SuccessRate(t)
    BY <1>1, <1>2, SignalParts DEF SuccessRate
<1>5. FreshnessPenalty(p, t) <= FreshnessPenalty(p, s)
  <2>1. p.freshness_penalty \in Nat
    BY PolicyAssumption
  <2>2. SignalAge(t) = 0 /\ ~(0 > FreshnessLimit)
    BY <1>1, <1>2, FreshnessAssumption DEF SignalAge
  <2> QED
    BY <1>2, <2>1, <2>2 DEF FreshnessPenalty
<1>6. DegradedPenalty(p, t) <= DegradedPenalty(p, s)
  <2>1. p.degraded_penalty \in Nat
    BY PolicyAssumption
  <2>2. ~Degraded(t)
    BY <1>1 DEF Degraded
  <2> QED
    BY <2>1, <2>2 DEF DegradedPenalty
<1>7. ConfidenceScore(q, p, m, s) <= ConfidenceScore(q, p, m, t)
    BY <1>1, <1>3, <1>4, <1>5, <1>6, ScoreGrows
<1> QED
    BY <1>7 DEF t

\* The same measurements, but of unknown age.
LEMMA UnknownAgeHurts ==
    ASSUME NEW q \in Request, NEW p \in Policies, NEW m \in Range(Catalog), NEW s \in Signals
    PROVE  ConfidenceScore(q, p, m, s) >= ConfidenceScore(q, p, m, [s EXCEPT !.age = None])
<1> DEFINE t == [s EXCEPT !.age = None]
<1>1. /\ t \in Signals /\ t.age = None /\ t.degraded = s.degraded /\ t.success_rate = s.success_rate
      /\ t.ttfb_p50_ms = s.ttfb_p50_ms /\ t.throughput_hint_qps = s.throughput_hint_qps
  <2>1. s = [age |-> s.age, ttfb_p50_ms |-> s.ttfb_p50_ms, throughput_hint_qps |-> s.throughput_hint_qps,
             success_rate |-> s.success_rate, degraded |-> s.degraded]
        /\ s.ttfb_p50_ms \in Nat /\ s.throughput_hint_qps \in Nat
        /\ s.success_rate \in 0..10 /\ s.degraded \in BOOLEAN
    BY DEF Signals
  <2>2. t = [age |-> None, ttfb_p50_ms |-> s.ttfb_p50_ms, throughput_hint_qps |-> s.throughput_hint_qps,
             success_rate |-> s.success_rate, degraded |-> s.degraded]
    BY <2>1
  <2> HIDE DEF t
  <2> QED
    BY <2>1, <2>2 DEF Signals
<1> HIDE DEF t
<1>2. s # None /\ t # None
    BY <1>1, NoneAssumption
<1>3. Qps(m, t) = Qps(m, s) /\ Ttfb(q, m, t) = Ttfb(q, m, s)
    BY <1>1, <1>2, Zenon DEF Qps, Ttfb
<1>4. SuccessRate(t) <= SuccessRate(s)
  <2>1. SuccessRate(t) = SuccessRate(s)
    BY <1>1, <1>2, Zenon DEF SuccessRate
  <2> QED
    BY <1>1, <2>1, SignalParts
<1>5. FreshnessPenalty(p, s) <= FreshnessPenalty(p, t)
  <2>1. p.freshness_penalty \in Nat
    BY PolicyAssumption
  <2>2. FreshnessPenalty(p, t) = p.freshness_penalty
    BY <1>1, <1>2 DEF FreshnessPenalty, SignalAge
  <2> QED
    BY <2>1, <2>2 DEF FreshnessPenalty
<1>6. DegradedPenalty(p, s) <= DegradedPenalty(p, t)
  <2>1. DegradedPenalty(p, s) = DegradedPenalty(p, t) /\ p.degraded_penalty \in Nat
    BY <1>1, <1>2, PolicyAssumption DEF Degraded, DegradedPenalty
  <2> QED
    BY <2>1 DEF DegradedPenalty
<1>7. ConfidenceScore(q, p, m, t) <= ConfidenceScore(q, p, m, s)
    BY <1>1, <1>3, <1>4, <1>5, <1>6, ScoreGrows
<1>8. ConfidenceScore(q, p, m, t) \in Nat /\ ConfidenceScore(q, p, m, s) \in Nat
    BY <1>1, ScoreNat
<1> QED
    BY <1>7, <1>8 DEF t

-----------------------------------------------------------------------------
(* The loop over the catalog *)

Candidates ==
    [rank : Nat, idx : Nat, estimated_cost_usd : Nat, expected_ttfb_ms : Nat,
     confidence_score : Nat, signal_freshness_seconds : Nat \cup {None}]

VerdictOf(i) == Verdict(request, Catalog[i], signals[i])

Inputs ==
    /\ request \in Requests /\ policy \in Policies /\ signals \in SignalMaps
    /\ evaluated \in Nat /\ evaluated <= Len(Catalog)
    /\ phase \in {"filter", "ranked", "returned", "raised"}

\* cs is what the loop has kept: the survivors, in catalog order.
KeptList(cs) ==
    /\ cs \in Seq(Candidates)
    /\ \A k \in 1..Len(cs) :
          /\ cs[k].idx \in 1..evaluated /\ VerdictOf(cs[k].idx) = "candidate"
          /\ cs[k] = Candidate(request, policy, cs[k].idx, signals[cs[k].idx], k)
    /\ \A k, l \in 1..Len(cs) : k < l => cs[k].idx < cs[l].idx
    /\ \A i \in 1..evaluated : VerdictOf(i) = "candidate" => \E k \in 1..Len(cs) : cs[k].idx = i

\* And what it has rejected: the others, each with the filter it failed first.
RejectedList ==
    /\ rejections \in Seq([idx : Nat, reason : Reasons])
    /\ \A k \in 1..Len(rejections) :
          /\ rejections[k].idx \in 1..evaluated
          /\ rejections[k].reason = VerdictOf(rejections[k].idx)
    /\ \A k, l \in 1..Len(rejections) : k < l => rejections[k].idx < rejections[l].idx
    /\ \A i \in 1..evaluated : VerdictOf(i) # "candidate" => \E k \in 1..Len(rejections) : rejections[k].idx = i

Counted ==
    /\ filtered \in [Reasons -> Nat]
    /\ \A r \in Reasons : filtered[r] = Cardinality({k \in DOMAIN rejections : rejections[k].reason = r})

\* Once the loop has ended the candidates are that list, ranked.
Outcome ==
    /\ phase = "filter" => KeptList(candidates)
    /\ phase # "filter" => evaluated = Len(Catalog) /\ \E cs : KeptList(cs) /\ candidates = Ranked(cs, policy)
    /\ phase = "raised" => candidates = <<>>
    /\ phase # "returned" => response = None
    /\ phase = "returned" => /\ candidates # <<>>
                             /\ response.recommended = candidates[1]
                             /\ response.fallback_safety_score = FallbackSafety(candidates)

Inv == Inputs /\ RejectedList /\ Counted /\ Outcome

LEMMA InputTypes ==
    ASSUME request \in Requests, signals \in SignalMaps
    PROVE  /\ request \in Request /\ Len(Catalog) \in Nat /\ DOMAIN Catalog = 1..Len(Catalog)
           /\ \A i \in 1..Len(Catalog) : Catalog[i] \in Range(Catalog) /\ signals[i] \in Signals \cup {None}
<1>1. Len(Catalog) \in Nat /\ DOMAIN Catalog = 1..Len(Catalog)
    BY CatalogAssumption
<1>2. \A i \in DOMAIN Catalog : Catalog[i] \in Range(Catalog)
    BY DEF Range
<1> QED
    BY <1>1, <1>2, RequestAssumption, SignalAssumption

LEMMA CandidateIs ==
    ASSUME NEW q \in Request, NEW p \in Policies, NEW i \in Nat, Catalog[i] \in Range(Catalog),
           NEW s \in Signals \cup {None}, NEW k \in Nat
    PROVE  LET c == Candidate(q, p, i, s, k)
           IN /\ c \in Candidates /\ c.rank = k /\ c.idx = i
              /\ c.estimated_cost_usd = RoundMoney(TotalCost(q, Catalog[i], s))
              /\ c.expected_ttfb_ms = Ttfb(q, Catalog[i], s)
              /\ c.confidence_score = ConfidenceScore(q, p, Catalog[i], s)
<1>1. /\ RoundMoney(TotalCost(q, Catalog[i], s)) \in Nat /\ Ttfb(q, Catalog[i], s) \in Nat
      /\ ConfidenceScore(q, p, Catalog[i], s) \in Nat /\ SignalAge(s) \in Nat \cup {None}
    BY TotalCostNat, RoundMoneyIs, SignalParts, ScoreNat
<1> QED
    BY <1>1 DEF Candidate, Candidates

LEMMA InvInit == Init => Inv
<1> SUFFICES ASSUME Init PROVE Inv
    OBVIOUS
<1>1. Inputs
    BY InputTypes DEF Init, Inputs
<1>2. RejectedList
    BY DEF Init, RejectedList
<1>3. Counted
  <2>1. \A r \in Reasons : {k \in DOMAIN rejections : rejections[k].reason = r} = {}
    BY DEF Init
  <2> QED
    BY <2>1, FS_EmptySet DEF Init, Counted
<1>4. Outcome
    BY DEF Init, Outcome, KeptList
<1> QED
    BY <1>1, <1>2, <1>3, <1>4 DEF Inv

\* What is kept of the models that came before stays what it was.
LEMMA KeptListStays ==
    ASSUME NEW cs, KeptList(cs), UNCHANGED <<inputs, evaluated>>
    PROVE  KeptList(cs)'
BY DEF KeptList, VerdictOf, inputs

LEMMA KeepKept ==
    ASSUME Inv, KeepModel
    PROVE  KeptList(candidates)'
<1> DEFINE n == Len(candidates)
           here == evaluated + 1
           c == Candidate(request, policy, here, signals[here], n + 1)
<1>1. /\ KeptList(candidates) /\ candidates \in Seq(Candidates) /\ n \in Nat
      /\ evaluated \in Nat /\ evaluated < Len(Catalog)
    BY DEF Inv, Inputs, Outcome, KeepModel, KeptList
<1>2. c \in Candidates /\ c.idx = here
  <2>1. Catalog[here] \in Range(Catalog) /\ signals[here] \in Signals \cup {None} /\ here \in Nat
    BY <1>1, InputTypes DEF Inv, Inputs
  <2>2. request \in Request /\ policy \in Policies /\ n + 1 \in Nat
    BY <1>1, InputTypes DEF Inv, Inputs
  <2> HIDE DEF here, n
  <2>3. \A k \in Nat : LET d == Candidate(request, policy, here, signals[here], k)
                      IN d \in Candidates /\ d.idx = here
    BY <2>1, <2>2, CandidateIs
  <2> QED
    BY <2>2, <2>3, Zenon
<1>3. candidates' = Append(candidates, c) /\ evaluated' = here /\ UNCHANGED inputs /\ VerdictOf(here) = "candidate"
    BY DEF KeepModel, VerdictHere, Here, Signal, VerdictOf
<1>4. UNCHANGED <<request, policy, signals>>
    BY <1>3 DEF inputs
<1> HIDE DEF c, here
<1>5. /\ candidates' \in Seq(Candidates) /\ Len(candidates') = n + 1
      /\ \A k \in 1..n : candidates'[k] = candidates[k]
      /\ candidates'[n + 1] = c
    BY <1>1, <1>2, <1>3
<1>6. \A i : VerdictOf(i)' = VerdictOf(i)
    BY <1>4 DEF VerdictOf
<1>7. ASSUME NEW k \in 1..(n + 1)
      PROVE  /\ candidates'[k].idx \in 1..evaluated' /\ VerdictOf(candidates'[k].idx) = "candidate"
             /\ candidates'[k] = Candidate(request, policy, candidates'[k].idx, signals[candidates'[k].idx], k)
  <2>1. CASE k = n + 1
    BY <1>1, <1>2, <1>3, <1>5, <2>1 DEF c, here
  <2>2. CASE k \in 1..n
    <3>1. candidates[k].idx \in 1..evaluated
      BY <1>1, <2>2 DEF KeptList
    <3>2. candidates[k].idx \in 1..evaluated'
      BY <1>1, <1>3, <3>1 DEF here
    <3> QED
      BY <1>1, <1>5, <2>2, <3>2 DEF KeptList
  <2> QED
    BY <1>1, <2>1, <2>2
<1>8. ASSUME NEW k \in 1..(n + 1), NEW l \in 1..(n + 1), k < l
      PROVE  candidates'[k].idx < candidates'[l].idx
  <2>1. k \in 1..n
    BY <1>1, <1>8
  <2>2. candidates[k].idx \in 1..evaluated
    BY <1>1, <2>1 DEF KeptList
  <2>3. CASE l = n + 1
    BY <1>1, <1>2, <1>5, <2>1, <2>2, <2>3 DEF here
  <2>4. CASE l \in 1..n
    BY <1>1, <1>5, <1>8, <2>1, <2>4 DEF KeptList
  <2> QED
    BY <1>1, <2>3, <2>4
<1>9. ASSUME NEW i \in 1..evaluated', VerdictOf(i) = "candidate"
      PROVE  \E k \in 1..(n + 1) : candidates'[k].idx = i
  <2>1. CASE i = here
    BY <1>1, <1>2, <1>5, <2>1
  <2>2. CASE i \in 1..evaluated
    <3>1. PICK k \in 1..n : candidates[k].idx = i
      BY <1>1, <1>9, <2>2 DEF KeptList
    <3> QED
      BY <1>1, <1>5, <3>1
  <2> QED
    BY <1>1, <1>3, <2>1, <2>2 DEF here
<1> QED
    BY <1>4, <1>5, <1>6, <1>7, <1>8, <1>9 DEF KeptList

LEMMA RejectKept ==
    ASSUME Inv, RejectModel
    PROVE  KeptList(candidates)'
<1>1. /\ candidates' = candidates /\ evaluated' = evaluated + 1 /\ evaluated \in Nat
      /\ UNCHANGED <<request, policy, signals>> /\ VerdictOf(evaluated + 1) # "candidate"
      /\ KeptList(candidates)
    BY DEF Inv, Inputs, Outcome, RejectModel, VerdictHere, Here, Signal, VerdictOf, inputs
<1>2. \A i : VerdictOf(i)' = VerdictOf(i)
    BY <1>1 DEF VerdictOf
<1>3. \A i \in 1..evaluated' : i \in 1..evaluated \/ i = evaluated + 1
    BY <1>1
<1>4. \A i \in 1..evaluated : i \in 1..evaluated'
    BY <1>1
<1> QED
    BY <1>1, <1>2, <1>3, <1>4 DEF KeptList

LEMMA RejectRejected ==
    ASSUME Inv, RejectModel
    PROVE  RejectedList' /\ Counted'
<1> DEFINE n == Len(rejections)
           here == evaluated + 1
           r == VerdictOf(here)
           e == [idx |-> here, reason |-> r]
<1>1. /\ rejections \in Seq([idx : Nat, reason : Reasons]) /\ n \in Nat
      /\ evaluated \in Nat /\ here \in Nat
    BY DEF Inv, Inputs, RejectedList
<1>2. r # "candidate" /\ r \in Reasons
    BY VerdictReason DEF RejectModel, VerdictHere, Here, Signal, VerdictOf
<1>3. e \in [idx : Nat, reason : Reasons] /\ e.idx = here /\ e.reason = r
    BY <1>1, <1>2
<1>4. /\ rejections' = Append(rejections, e) /\ evaluated' = here /\ UNCHANGED <<request, policy, signals>>
      /\ filtered' = [filtered EXCEPT ![r] = @ + 1]
    BY DEF RejectModel, VerdictHere, Here, Signal, VerdictOf, Noted, inputs
<1>5. \A i : VerdictOf(i)' = VerdictOf(i)
    BY <1>4 DEF VerdictOf
<1> HIDE DEF r, e
<1>6. /\ rejections' \in Seq([idx : Nat, reason : Reasons]) /\ Len(rejections') = n + 1
      /\ \A k \in 1..n : rejections'[k] = rejections[k]
      /\ rejections'[n + 1] = e
    BY <1>1, <1>3, <1>4
<1>7. /\ \A k \in 1..n : rejections[k].idx \in 1..evaluated /\ rejections[k].reason = VerdictOf(rejections[k].idx)
      /\ \A k, l \in 1..n : k < l => rejections[k].idx < rejections[l].idx
      /\ \A i \in 1..evaluated : VerdictOf(i) # "candidate" => \E k \in 1..n : rejections[k].idx = i
    BY DEF Inv, RejectedList
<1> HIDE DEF n
<1>10. n \in Nat /\ evaluated \in Nat /\ evaluated' = evaluated + 1
    BY <1>1, <1>4
<1>8. RejectedList'
  <2>1. ASSUME NEW k \in 1..(n + 1)
        PROVE  /\ rejections'[k].idx \in 1..evaluated'
               /\ rejections'[k].reason = VerdictOf(rejections'[k].idx)
    <3>1. CASE k = n + 1
      BY <1>1, <1>3, <1>4, <1>6, <3>1 DEF r
    <3>2. CASE k \in 1..n
      <4>1. rejections[k].idx \in 1..evaluated'
        BY <1>1, <1>4, <1>7, <3>2
      <4> QED
        BY <1>6, <1>7, <3>2, <4>1
    <3> QED
      BY <1>1, <3>1, <3>2
  <2>2. ASSUME NEW k \in 1..(n + 1), NEW l \in 1..(n + 1), k < l
        PROVE  rejections'[k].idx < rejections'[l].idx
    <3>1. k \in 1..n
      BY <1>1, <2>2
    <3>2. CASE l = n + 1
      <4>1. rejections'[l].idx = evaluated + 1 /\ rejections'[k] = rejections[k]
        BY <1>3, <1>6, <3>1, <3>2
      <4>2. rejections[k].idx \in 1..evaluated
        BY <1>7, <3>1
      <4> QED
        BY <1>10, <4>1, <4>2
    <3>3. CASE l \in 1..n
      BY <1>6, <1>7, <2>2, <3>1, <3>3
    <3> QED
      BY <1>1, <3>2, <3>3
  <2>3. ASSUME NEW i \in 1..evaluated', VerdictOf(i) # "candidate"
        PROVE  \E k \in 1..(n + 1) : rejections'[k].idx = i
    <3>1. CASE i = here
      BY <1>1, <1>3, <1>6, <3>1
    <3>2. CASE i \in 1..evaluated
      <4>1. PICK k \in 1..n : rejections[k].idx = i
        BY <1>7, <2>3, <3>2
      <4> QED
        BY <1>1, <1>6, <4>1
    <3>3. i = here \/ i \in 1..evaluated
      BY <1>10, <2>3
    <3> QED
      BY <3>1, <3>2, <3>3
  <2> QED
    BY <1>5, <1>6, <2>1, <2>2, <2>3 DEF RejectedList
<1>9. Counted'
  <2>1. /\ filtered \in [Reasons -> Nat]
        /\ \A x \in Reasons : filtered[x] = Cardinality({k \in 1..n : rejections[k].reason = x})
    BY <1>1 DEF Inv, Counted, n
  <2>2. filtered' \in [Reasons -> Nat]
    BY <1>2, <1>4, <2>1
  <2>3. DOMAIN rejections' = 1..(n + 1)
    BY <1>6
  <2>4. ASSUME NEW x \in Reasons
        PROVE  filtered'[x] = Cardinality({k \in 1..(n + 1) : rejections'[k].reason = x})
    <3> DEFINE old == {k \in 1..n : rejections[k].reason = x}
               new == {k \in 1..(n + 1) : rejections'[k].reason = x}
    <3>1. IsFiniteSet(old)
      <4>1. IsFiniteSet(1..n) /\ old \in SUBSET (1..n)
        BY <1>10, FS_Interval
      <4> HIDE DEF old
      <4> QED
        BY <4>1, FS_Subset
    <3>2. filtered[x] = Cardinality(old) /\ filtered[x] \in Nat
      BY <2>1
    <3>3. CASE x = r
      <4>1. new = old \cup {n + 1} /\ n + 1 \notin old
        BY <1>1, <1>3, <1>6, <3>3
      <4>2. filtered'[x] = filtered[x] + 1
        BY <1>4, <2>1, <3>3
      <4> HIDE DEF old, new
      <4>3. Cardinality(new) = Cardinality(old) + 1
        BY <3>1, <4>1, FS_AddElement
      <4> QED
        BY <3>2, <4>2, <4>3 DEF new
    <3>4. CASE x # r
      <4>1. new = old
        BY <1>1, <1>3, <1>6, <3>4
      <4>2. filtered'[x] = filtered[x]
        BY <1>4, <2>1, <3>4
      <4> QED
        BY <3>2, <4>1, <4>2
    <3> QED
      BY <3>3, <3>4
  <2> QED
    BY <2>2, <2>3, <2>4 DEF Counted
<1> QED
    BY <1>8, <1>9

LEMMA KeepRejected ==
    ASSUME Inv, KeepModel
    PROVE  RejectedList' /\ Counted'
<1>1. /\ UNCHANGED <<rejections, filtered, request, policy, signals>>
      /\ evaluated' = evaluated + 1 /\ evaluated \in Nat /\ VerdictOf(evaluated + 1) = "candidate"
    BY DEF Inv, Inputs, KeepModel, VerdictHere, Here, Signal, VerdictOf, inputs
<1>2. \A i : VerdictOf(i)' = VerdictOf(i)
    BY <1>1 DEF VerdictOf
<1>3. \A i \in 1..evaluated' : i \in 1..evaluated \/ i = evaluated + 1
    BY <1>1
<1>4. \A i \in 1..evaluated : i \in 1..evaluated'
    BY <1>1
<1>5. RejectedList'
    BY <1>1, <1>2, <1>3, <1>4 DEF Inv, RejectedList
<1>6. Counted'
    BY <1>1 DEF Inv, Counted
<1> QED
    BY <1>5, <1>6

LEMMA LoopDone ==
    ASSUME Inv, UNCHANGED <<inputs, evaluated, rejections, filtered>>, phase' \in {"filter", "ranked", "returned", "raised"}
    PROVE  Inputs' /\ RejectedList' /\ Counted'
<1>1. UNCHANGED <<request, policy, signals>>
    BY DEF inputs
<1>2. \A i : VerdictOf(i)' = VerdictOf(i)
    BY <1>1 DEF VerdictOf
<1>3. Inputs'
    BY <1>1 DEF Inv, Inputs
<1>4. RejectedList'
    BY <1>2 DEF Inv, RejectedList
<1>5. Counted'
    BY DEF Inv, Counted
<1> QED
    BY <1>3, <1>4, <1>5

LEMMA InvNext == Inv /\ [Next]_vars => Inv'
<1> SUFFICES ASSUME Inv, [Next]_vars PROVE Inv'
    OBVIOUS
<1>1. Len(Catalog) \in Nat /\ evaluated \in Nat
    BY InputTypes DEF Inv, Inputs
<1>2. CASE RejectModel
  <2>1. Inputs'
    BY <1>1, <1>2 DEF Inv, Inputs, RejectModel, inputs
  <2>2. Outcome'
    BY <1>2, RejectKept DEF Inv, Outcome, RejectModel
  <2> QED
    BY <1>2, <2>1, <2>2, RejectRejected DEF Inv
<1>3. CASE KeepModel
  <2>1. Inputs'
    BY <1>1, <1>3 DEF Inv, Inputs, KeepModel, inputs
  <2>2. Outcome'
    BY <1>3, KeepKept DEF Inv, Outcome, KeepModel
  <2> QED
    BY <1>3, <2>1, <2>2, KeepRejected DEF Inv
<1>4. CASE RankCandidates
  <2>1. Inputs' /\ RejectedList' /\ Counted'
    BY <1>4, LoopDone DEF RankCandidates
  <2>2. KeptList(candidates) /\ UNCHANGED <<inputs, evaluated>> /\ policy' = policy
    BY <1>4 DEF RankCandidates, Inv, Outcome, inputs
  <2>3. KeptList(candidates) /\ candidates' = Ranked(candidates, policy')
    BY <1>4, <2>2 DEF RankCandidates
  <2> DEFINE kept == candidates
  <2>4. \E cs : cs = candidates
    OBVIOUS
  <2>5. PICK cs : cs = candidates
    BY <2>4
  <2>6. KeptList(cs)
    BY <2>2, <2>5
  <2>7. KeptList(cs)'
    BY <2>2, <2>6, KeptListStays
  <2>8. candidates' = Ranked(cs, policy')
    BY <2>3, <2>5
  <2>9. (\E c : KeptList(c) /\ candidates = Ranked(c, policy))'
    BY <2>7, <2>8
  <2>10. Outcome'
    BY <1>4, <2>9 DEF RankCandidates, Inv, Outcome
  <2> QED
    BY <2>1, <2>10 DEF Inv
<1>5. CASE UNCHANGED <<inputs, evaluated, candidates, rejections, filtered>> /\ (RaiseNoCandidates \/ ReturnDecision \/ UNCHANGED vars)
  <2>1. phase' \in {"filter", "ranked", "returned", "raised"}
    BY <1>5 DEF RaiseNoCandidates, ReturnDecision, vars, Inv, Inputs
  <2>2. Inputs' /\ RejectedList' /\ Counted'
    BY <1>5, <2>1, LoopDone
  <2>3. ASSUME phase # "filter"
        PROVE  (\E c : KeptList(c) /\ candidates = Ranked(c, policy))' /\ evaluated' = Len(Catalog)
    <3>1. PICK cs : KeptList(cs) /\ candidates = Ranked(cs, policy)
      BY <2>3 DEF Inv, Outcome
    <3>2. KeptList(cs)'
      BY <1>5, <3>1, KeptListStays
    <3>3. candidates' = Ranked(cs, policy')
      BY <1>5, <3>1 DEF inputs
    <3> QED
      BY <1>5, <2>3, <3>2, <3>3 DEF Inv, Outcome
  <2>4. CASE UNCHANGED vars
    <3>1. KeptList(candidates) => KeptList(candidates)'
      BY <2>4 DEF vars, inputs, KeptList, VerdictOf
    <3> QED
      BY <2>2, <2>3, <2>4, <3>1 DEF vars, Inv, Outcome
  <2>5. CASE RaiseNoCandidates
    BY <1>5, <2>2, <2>3, <2>5 DEF RaiseNoCandidates, Inv, Outcome
  <2>6. CASE ReturnDecision
    <3>1. /\ response'.recommended = candidates[1]
          /\ response'.fallback_safety_score = FallbackSafety(candidates)
      BY <2>6 DEF ReturnDecision
    <3>2. phase = "ranked" /\ phase' = "returned" /\ candidates' = candidates /\ candidates # <<>>
      BY <2>6 DEF ReturnDecision
    <3>3. FallbackSafety(candidates)' = FallbackSafety(candidates)
      BY <3>2
    <3>4. Outcome'
      BY <2>3, <3>1, <3>2, <3>3 DEF Outcome
    <3> QED
      BY <2>2, <3>4 DEF Inv
  <2> QED
    BY <1>5, <2>4, <2>5, <2>6
<1>6. RaiseNoCandidates \/ ReturnDecision \/ UNCHANGED vars => UNCHANGED <<inputs, evaluated, candidates, rejections, filtered>>
    BY DEF RaiseNoCandidates, ReturnDecision, vars
<1> QED
    BY <1>2, <1>3, <1>4, <1>5, <1>6 DEF Next

\* At every moment the loop's lists are the split of the models it has seen by
\* their verdicts, and what follows the loop is the ranking of what it kept.
THEOREM LoopInvariant == Spec => []Inv
<1>1. Init => Inv
    BY InvInit
<1>2. Inv /\ [Next]_vars => Inv'
    BY InvNext
<1> QED
    BY <1>1, <1>2, PTL DEF Spec

-----------------------------------------------------------------------------
(* The ranking *)

\* The sort key orders candidates of different ranks strictly and totally.
LEMMA SortsBeforeIsAnOrder ==
    ASSUME NEW a \in Candidates, NEW b \in Candidates, NEW c \in Candidates
    PROVE  /\ ~SortsBefore(a, a)
           /\ SortsBefore(a, b) => ~SortsBefore(b, a)
           /\ SortsBefore(a, b) /\ SortsBefore(b, c) => SortsBefore(a, c)
           /\ a.rank # b.rank => SortsBefore(a, b) \/ SortsBefore(b, a)
<1>1. \A x \in Candidates : /\ x.rank \in Nat /\ x.estimated_cost_usd \in Nat
                           /\ x.expected_ttfb_ms \in Nat /\ x.confidence_score \in Nat
    BY DEF Candidates
<1>2. ~SortsBefore(a, a) /\ (SortsBefore(a, b) => ~SortsBefore(b, a))
    BY <1>1 DEF SortsBefore
<1>3. SortsBefore(a, b) /\ SortsBefore(b, c) => SortsBefore(a, c)
    BY <1>1 DEF SortsBefore
<1>4. a.rank # b.rank => SortsBefore(a, b) \/ SortsBefore(b, a)
    BY <1>1 DEF SortsBefore
<1> QED
    BY <1>2, <1>3, <1>4

LEMMA KeptRanks ==
    ASSUME NEW cs, KeptList(cs), Inputs
    PROVE  /\ Len(cs) \in Nat /\ DOMAIN cs = 1..Len(cs)
           /\ Range(cs) \subseteq Candidates
           /\ \A k \in 1..Len(cs) : cs[k] \in Range(cs) /\ cs[k].rank = k
           /\ \A c \in Range(cs) : c.rank \in 1..Len(cs) /\ cs[c.rank] = c
<1>1. Len(cs) \in Nat /\ DOMAIN cs = 1..Len(cs) /\ \A k \in 1..Len(cs) : cs[k] \in Candidates
    BY DEF KeptList
<1>2. Range(cs) \subseteq Candidates /\ \A k \in 1..Len(cs) : cs[k] \in Range(cs)
    BY <1>1 DEF Range
<1>3. ASSUME NEW k \in 1..Len(cs)
      PROVE  cs[k].rank = k
  <2>1. cs[k] = Candidate(request, policy, cs[k].idx, signals[cs[k].idx], k)
    BY DEF KeptList
  <2> QED
    BY <2>1 DEF Candidate
<1>4. ASSUME NEW c \in Range(cs)
      PROVE  c.rank \in 1..Len(cs) /\ cs[c.rank] = c
  <2>1. PICK k \in 1..Len(cs) : cs[k] = c
    BY <1>1 DEF Range
  <2> QED
    BY <1>3, <2>1
<1> QED
    BY <1>1, <1>2, <1>3, <1>4

\* Every place of the sorted list is taken, by one candidate, and the places are
\* in the order of the sort key.
LEMMA SortedIs ==
    ASSUME NEW cs, KeptList(cs), Inputs
    PROVE  /\ DOMAIN Sorted(cs) = 1..Len(cs)
           /\ \A k \in 1..Len(cs) : Sorted(cs)[k] \in Range(cs)
           /\ \A i, j \in 1..Len(cs) : i < j => SortsBefore(Sorted(cs)[i], Sorted(cs)[j])
           /\ \A c \in Range(cs) : \E k \in 1..Len(cs) : Sorted(cs)[k] = c
<1> DEFINE n == Len(cs)
           R == Range(cs)
           Before(c) == {d \in R : SortsBefore(d, c)}
           place == [c \in R |-> Cardinality(Before(c))]
<1>1. /\ n \in Nat /\ DOMAIN cs = 1..n /\ R \subseteq Candidates
      /\ \A k \in 1..n : cs[k] \in R /\ cs[k].rank = k
      /\ \A c \in R : c.rank \in 1..n /\ cs[c.rank] = c
    BY KeptRanks
<1>0. n \in Nat
    BY <1>1
<1>2. Sorted(cs) = [k \in 1..n |-> CHOOSE c \in R : Cardinality(Before(c)) = k - 1]
    BY <1>1 DEF Sorted
<1> HIDE DEF n, R
<1>3. IsFiniteSet(R) /\ Cardinality(R) = n
  <2> DEFINE ranks == [c \in R |-> c.rank]
  <2>1. ranks \in [R -> 1..n] /\ \A c \in R : ranks[c] = c.rank
    BY <1>1
  <2>2. \A k \in 1..n : \E c \in R : ranks[c] = k
    BY <1>1, <2>1
  <2>3. \A c, d \in R : ranks[c] = ranks[d] => c = d
    BY <1>1, <2>1
  <2> HIDE DEF ranks
  <2>4. ranks \in Surjection(R, 1..n) /\ ranks \in Injection(R, 1..n)
    BY <2>1, <2>2, <2>3 DEF Surjection, Injection, IsInjective
  <2>5. IsFiniteSet(1..n) /\ Cardinality(1..n) = n
    BY <1>1, FS_Interval
  <2> QED
    BY <2>4, <2>5, FS_Injection
<1>4. ASSUME NEW c \in R
      PROVE  /\ Before(c) \in SUBSET R /\ IsFiniteSet(Before(c))
             /\ place[c] = Cardinality(Before(c)) /\ place[c] \in 0..(n - 1)
  <2>1. Before(c) \in SUBSET R
    OBVIOUS
  <2>2. c \notin Before(c)
    BY <1>1, SortsBeforeIsAnOrder
  <2> HIDE DEF Before
  <2>3. IsFiniteSet(Before(c)) /\ Cardinality(Before(c)) <= n /\ Cardinality(Before(c)) # n
    BY <1>3, <2>1, <2>2, FS_Subset
  <2>4. Cardinality(Before(c)) \in Nat
    BY <2>3, FS_CardinalityType
  <2> QED
    BY <1>1, <2>1, <2>3, <2>4
<1>14. \A c \in R : place[c] \in Nat /\ place[c] + 1 \in 1..n
  <2>1. \A c \in R : place[c] \in 0..(n - 1)
    BY <1>4
  <2> HIDE DEF place
  <2> QED
    BY <1>0, <2>1
<1>5. ASSUME NEW c \in R, NEW d \in R, SortsBefore(c, d)
      PROVE  place[c] < place[d]
  <2>1. Before(c) \subseteq Before(d)
    <3>1. \A e \in R : SortsBefore(e, c) => SortsBefore(e, d)
      BY <1>1, <1>5, SortsBeforeIsAnOrder
    <3> QED
      BY <3>1
  <2>2. c \in Before(d) /\ c \notin Before(c)
    BY <1>1, <1>5, SortsBeforeIsAnOrder
  <2>3. IsFiniteSet(Before(d)) /\ place[c] = Cardinality(Before(c)) /\ place[d] = Cardinality(Before(d))
    BY <1>4
  <2> HIDE DEF Before, place
  <2>4. place[c] \in Nat /\ place[d] \in Nat
    BY <1>14
  <2>5. Cardinality(Before(c)) <= Cardinality(Before(d)) /\ Cardinality(Before(c)) # Cardinality(Before(d))
    BY <2>1, <2>2, <2>3, FS_Subset
  <2> QED
    BY <2>3, <2>4, <2>5
<1>6. ASSUME NEW c \in R, NEW d \in R, c # d
      PROVE  SortsBefore(c, d) \/ SortsBefore(d, c)
    BY <1>1, <1>6, SortsBeforeIsAnOrder
<1>7. \A k \in 1..n : \E c \in R : place[c] = k - 1
  <2>1. place \in [R -> 0..(n - 1)]
    BY <1>4
  <2>2. \A c, d \in R : place[c] = place[d] => c = d
    <3> HIDE DEF place
    <3>1. \A c \in R : place[c] \in Int
      BY <1>14
    <3> QED
      BY <1>5, <1>6, <3>1
  <2> HIDE DEF place
  <2>3. place \in Injection(R, 0..(n - 1))
    BY <2>1, <2>2 DEF Injection, IsInjective
  <2>4. IsFiniteSet(0..(n - 1)) /\ Cardinality(0..(n - 1)) = n
    <3>1. 0 \in Int /\ n - 1 \in Int /\ (0 > n - 1 => n = 0)
      BY <1>0
    <3>2. /\ IsFiniteSet(0..(n - 1))
          /\ Cardinality(0..(n - 1)) = IF 0 > n - 1 THEN 0 ELSE (n - 1) - 0 + 1
      BY <3>1, FS_Interval
    <3> QED
      BY <1>0, <3>1, <3>2
  <2>5. place \in Surjection(R, 0..(n - 1))
    BY <1>3, <2>3, <2>4, FS_Injection
  <2>6. \A x \in 0..(n - 1) : \E c \in R : place[c] = x
    BY <2>5 DEF Surjection
  <2> QED
    BY <1>1, <2>6
<1> DEFINE s == Sorted(cs)
<1>8. ASSUME NEW k \in 1..n
      PROVE  s[k] \in R /\ place[s[k]] = k - 1
  <2>1. PICK c \in R : place[c] = k - 1
    BY <1>7
  <2>2. Cardinality(Before(c)) = k - 1
    BY <2>1, <1>4
  <2>3. s[k] = CHOOSE d \in R : Cardinality(Before(d)) = k - 1
    BY <1>2
  <2> HIDE DEF s, place, Before
  <2>4. s[k] \in R /\ Cardinality(Before(s[k])) = k - 1
    BY <2>2, <2>3
  <2> QED
    BY <1>4, <2>4
<1>9. ASSUME NEW i \in 1..n, NEW j \in 1..n, i < j
      PROVE  SortsBefore(s[i], s[j])
  <2>1. s[i] \in R /\ s[j] \in R /\ place[s[i]] = i - 1 /\ place[s[j]] = j - 1
    BY <1>8
  <2>2. place[s[i]] # place[s[j]] /\ ~(place[s[j]] < place[s[i]])
    BY <1>1, <1>9, <2>1
  <2> HIDE DEF s, place
  <2> QED
    BY <1>5, <1>6, <2>1, <2>2
<1>10. ASSUME NEW c \in R
       PROVE  \E k \in 1..n : s[k] = c
  <2> HIDE DEF place
  <2>1. place[c] + 1 \in 1..n /\ (place[c] + 1) - 1 = place[c]
    BY <1>14
  <2>2. PICK k \in 1..n : k - 1 = place[c]
    BY <2>1
  <2>3. s[k] \in R /\ place[s[k]] = place[c]
    BY <1>8, <2>2
  <2>4. place[c] \in Int
    BY <1>14
  <2> HIDE DEF s
  <2>5. s[k] = c
    BY <1>5, <1>6, <2>3, <2>4
  <2> QED
    BY <2>5
<1>11. DOMAIN s = 1..n
    BY <1>2
<1> HIDE DEF s, place
<1> QED
    BY <1>8, <1>9, <1>10, <1>11 DEF n, R, s

\* The ranking is the head of the sorted list, renumbered.
LEMMA RankedIs ==
    ASSUME NEW cs, KeptList(cs), Inputs
    PROVE  LET r == Ranked(cs, policy)
               s == Sorted(cs)
           IN  /\ Len(r) \in Nat /\ DOMAIN r = 1..Len(r) /\ r \in Seq(Candidates)
               /\ Len(r) = IF policy.max_candidates <= Len(cs) THEN policy.max_candidates ELSE Len(cs)
               /\ \A k \in 1..Len(r) :
                     /\ k \in 1..Len(cs) /\ r[k].rank = k
                     /\ r[k].idx = s[k].idx
                     /\ r[k].estimated_cost_usd = s[k].estimated_cost_usd
                     /\ r[k].expected_ttfb_ms = s[k].expected_ttfb_ms
                     /\ r[k].confidence_score = s[k].confidence_score
<1> DEFINE n == Len(cs)
           s == Sorted(cs)
           m == Min({policy.max_candidates, Len(s)})
           r == Ranked(cs, policy)
<1>1. n \in Nat /\ Range(cs) \subseteq Candidates
    BY KeptRanks
<1>2. DOMAIN s = 1..n /\ \A k \in 1..n : s[k] \in Candidates
    BY <1>1, SortedIs
<1>3. policy.max_candidates \in Nat
    BY PolicyAssumption DEF Inputs
<1>4. r = Renumber(SubSeq(s, 1, m))
    BY DEF Ranked, Cut
<1>5. s = [k \in 1..n |-> s[k]]
    BY <1>2 DEF Sorted
<1> HIDE DEF s, r, n
<1>6. s \in Seq(Candidates) /\ Len(s) = n
    BY <1>1, <1>2, <1>5
<1>7. m \in Nat /\ m <= n /\ m = IF policy.max_candidates <= n THEN policy.max_candidates ELSE n
    BY <1>1, <1>3, <1>6, MinMaxOfTwo
<1> HIDE DEF m
<1> DEFINE head == SubSeq(s, 1, m)
<1>8. Len(head) = m /\ DOMAIN head = 1..m /\ \A k \in 1..m : head[k] = s[k]
    BY <1>1, <1>6, <1>7
<1>9. r = [k \in 1..m |-> [head[k] EXCEPT !.rank = k]]
    BY <1>4, <1>8 DEF Renumber
<1> HIDE DEF head
<1>10. ASSUME NEW k \in 1..m
       PROVE  /\ k \in 1..n /\ r[k] \in Candidates /\ r[k].rank = k
              /\ r[k].idx = s[k].idx
              /\ r[k].estimated_cost_usd = s[k].estimated_cost_usd
              /\ r[k].expected_ttfb_ms = s[k].expected_ttfb_ms
              /\ r[k].confidence_score = s[k].confidence_score
  <2>1. k \in 1..n /\ k \in Nat
    BY <1>1, <1>7
  <2>2. r[k] = [s[k] EXCEPT !.rank = k] /\ s[k] \in Candidates
    BY <1>2, <1>8, <1>9, <2>1
  <2> QED
    BY <2>1, <2>2 DEF Candidates
<1>11. r = [k \in 1..m |-> r[k]]
    BY <1>9
<1>12. r \in Seq(Candidates) /\ Len(r) = m /\ DOMAIN r = 1..m
  <2>1. \A k \in 1..m : r[k] \in Candidates
    BY <1>10
  <2>2. m \in Nat
    BY <1>7
  <2> QED
    BY <1>11, <2>1, <2>2
<1> QED
    BY <1>7, <1>10, <1>12 DEF r, n, s

\* Every candidate reports what the functions of its model say.
LEMMA KeptIs ==
    ASSUME NEW cs, KeptList(cs), Inputs, NEW k \in 1..Len(cs)
    PROVE  LET i == cs[k].idx
           IN  /\ i \in 1..evaluated /\ VerdictOf(i) = "candidate"
               /\ cs[k].estimated_cost_usd = RoundMoney(TotalCost(request, Catalog[i], signals[i]))
               /\ cs[k].expected_ttfb_ms = Ttfb(request, Catalog[i], signals[i])
               /\ cs[k].confidence_score = ConfidenceScore(request, policy, Catalog[i], signals[i])
<1>1. /\ cs[k].idx \in 1..evaluated /\ VerdictOf(cs[k].idx) = "candidate"
      /\ cs[k] = Candidate(request, policy, cs[k].idx, signals[cs[k].idx], k)
    BY DEF KeptList
<1> QED
    BY <1>1 DEF Candidate

LEMMA SameModelSameCandidate ==
    ASSUME NEW cs, KeptList(cs), Inputs, NEW c \in Range(cs), NEW d \in Range(cs)
    PROVE  /\ c.idx \in Nat /\ d.idx \in Nat
           /\ c.rank < d.rank <=> c.idx < d.idx
           /\ c.idx = d.idx => c = d
<1>1. /\ Len(cs) \in Nat /\ Range(cs) \subseteq Candidates
      /\ c.rank \in 1..Len(cs) /\ cs[c.rank] = c /\ d.rank \in 1..Len(cs) /\ cs[d.rank] = d
    BY KeptRanks
<1>2. c.idx \in Nat /\ d.idx \in Nat
    BY <1>1 DEF Candidates
<1>3. (c.rank < d.rank => c.idx < d.idx) /\ (d.rank < c.rank => d.idx < c.idx)
    BY <1>1 DEF KeptList
<1>4. c.rank < d.rank \/ d.rank < c.rank \/ c = d
    BY <1>1
<1> QED
    BY <1>1, <1>2, <1>3, <1>4

LEMMA CandidatesAre ==
    ASSUME Inv
    PROVE  /\ DOMAIN candidates = 1..Len(candidates) /\ Len(candidates) \in Nat /\ candidates \in Seq(Candidates)
           /\ \A k \in 1..Len(candidates) :
                 LET i == candidates[k].idx
                 IN  /\ i \in 1..evaluated /\ VerdictOf(i) = "candidate" /\ candidates[k].rank = k
                     /\ candidates[k].estimated_cost_usd = RoundMoney(TotalCost(request, Catalog[i], signals[i]))
                     /\ candidates[k].expected_ttfb_ms = Ttfb(request, Catalog[i], signals[i])
                     /\ candidates[k].confidence_score = ConfidenceScore(request, policy, Catalog[i], signals[i])
           /\ \A k, l \in 1..Len(candidates) : candidates[k].idx = candidates[l].idx => k = l
<1>0. Inputs
    BY DEF Inv
<1>1. CASE phase = "filter"
  <2>1. KeptList(candidates)
    BY <1>1 DEF Inv, Outcome
  <2>2. \A k \in 1..Len(candidates) : candidates[k].rank = k
    BY <1>0, <2>1, KeptRanks
  <2>3. candidates \in Seq(Candidates)
    BY <2>1 DEF KeptList
  <2>4. Len(candidates) \in Nat /\ DOMAIN candidates = 1..Len(candidates)
    BY <2>3
  <2>5. ASSUME NEW k \in 1..Len(candidates), NEW l \in 1..Len(candidates), candidates[k].idx = candidates[l].idx
        PROVE  k = l
    <3>1. candidates[k] \in Candidates /\ candidates[l] \in Candidates
      BY <2>3, <2>4
    <3>2. candidates[k].idx \in Nat /\ candidates[l].idx \in Nat
      BY <3>1 DEF Candidates
    <3>3. (k < l => candidates[k].idx < candidates[l].idx) /\ (l < k => candidates[l].idx < candidates[k].idx)
      BY <2>1 DEF KeptList
    <3> QED
      BY <2>4, <2>5, <3>2, <3>3
  <2> QED
    BY <1>0, <2>1, <2>2, <2>3, <2>4, <2>5, KeptIs
<1>2. CASE phase # "filter"
  <2>1. PICK cs : KeptList(cs) /\ candidates = Ranked(cs, policy)
    BY <1>2 DEF Inv, Outcome
  <2> DEFINE s == Sorted(cs)
  <2>2. /\ Len(candidates) \in Nat /\ DOMAIN candidates = 1..Len(candidates) /\ candidates \in Seq(Candidates)
        /\ \A k \in 1..Len(candidates) :
              /\ k \in 1..Len(cs) /\ candidates[k].rank = k
              /\ candidates[k].idx = s[k].idx
              /\ candidates[k].estimated_cost_usd = s[k].estimated_cost_usd
              /\ candidates[k].expected_ttfb_ms = s[k].expected_ttfb_ms
              /\ candidates[k].confidence_score = s[k].confidence_score
    BY <1>0, <2>1, RankedIs
  <2>3. /\ \A k \in 1..Len(cs) : s[k] \in Range(cs)
        /\ \A i, j \in 1..Len(cs) : i < j => SortsBefore(s[i], s[j])
    BY <1>0, <2>1, SortedIs
  <2> HIDE DEF s
  <2>4. /\ Len(cs) \in Nat /\ Range(cs) \subseteq Candidates
        /\ \A c \in Range(cs) : c.rank \in 1..Len(cs) /\ cs[c.rank] = c
    BY <1>0, <2>1, KeptRanks
  <2>5. ASSUME NEW k \in 1..Len(candidates)
        PROVE  LET i == candidates[k].idx
               IN  /\ i \in 1..evaluated /\ VerdictOf(i) = "candidate" /\ candidates[k].rank = k
                   /\ candidates[k].estimated_cost_usd = RoundMoney(TotalCost(request, Catalog[i], signals[i]))
                   /\ candidates[k].expected_ttfb_ms = Ttfb(request, Catalog[i], signals[i])
                   /\ candidates[k].confidence_score = ConfidenceScore(request, policy, Catalog[i], signals[i])
    <3>1. PICK j \in 1..Len(cs) : cs[j] = s[k]
      BY <2>2, <2>3, <2>4
    <3> QED
      BY <1>0, <2>1, <2>2, <3>1, KeptIs
  <2>6. ASSUME NEW k \in 1..Len(candidates), NEW l \in 1..Len(candidates), candidates[k].idx = candidates[l].idx
        PROVE  k = l
    <3>1. s[k] \in Range(cs) /\ s[l] \in Range(cs) /\ s[k].idx = s[l].idx /\ k \in 1..Len(cs) /\ l \in 1..Len(cs)
      BY <2>2, <2>3, <2>6
    <3>2. s[k] = s[l]
      BY <1>0, <2>1, <3>1, SameModelSameCandidate
    <3>3. ~SortsBefore(s[k], s[k])
      BY <2>4, <3>1, SortsBeforeIsAnOrder
    <3> QED
      BY <2>3, <2>4, <3>1, <3>2, <3>3
  <2> QED
    BY <2>2, <2>5, <2>6
<1> QED
    BY <1>1, <1>2

\* A candidate's reported cost, all corrections included, is within the budget
\* up to half a micro-dollar of rounding, and exactly zero for a zero budget.
THEOREM CostWithinBudget == Spec => []ReportedCostWithinBudget
<1>1. Inv => ReportedCostWithinBudget
  <2> SUFFICES ASSUME Inv, NEW k \in DOMAIN candidates
               PROVE  /\ candidates[k].estimated_cost_usd * MicroDollar <= request.budget_limit + MicroDollar \div 2
                      /\ request.budget_limit = 0 => candidates[k].estimated_cost_usd = 0
    BY DEF ReportedCostWithinBudget
  <2> DEFINE i == candidates[k].idx
             m == Catalog[i]
             x == signals[i]
             cost == TotalCost(request, m, x)
  <2>1. i \in 1..evaluated /\ VerdictOf(i) = "candidate" /\ candidates[k].estimated_cost_usd = RoundMoney(cost)
    BY CandidatesAre
  <2>2. request \in Request /\ m \in Range(Catalog) /\ x \in Signals \cup {None}
    BY <2>1, InputTypes DEF Inv, Inputs
  <2>3. request.budget_limit \in Nat /\ cost \in Nat
    BY <2>2, TotalCostNat DEF Request
  <2>4. ~OverBudget(request, m, x)
    BY <2>1, VerdictIs DEF VerdictOf
  <2>5. cost <= request.budget_limit /\ (request.budget_limit = 0 => cost = 0)
    BY <2>3, <2>4 DEF OverBudget
  <2> HIDE DEF cost, i
  <2>6. RoundMoney(cost) * MicroDollar <= cost + MicroDollar \div 2 /\ (cost = 0 => RoundMoney(cost) = 0) /\ RoundMoney(cost) \in Nat
    BY <2>3, RoundMoneyIs
  <2>7. MicroDollar \div 2 = 500000
    BY DEF MicroDollar
  <2> QED
    BY <2>1, <2>3, <2>5, <2>6, <2>7 DEF MicroDollar
<1> QED
    BY <1>1, LoopInvariant, PTL

LEMMA LiftedLimits ==
    ASSUME NEW q \in Request, NEW b, NEW l
    PROVE  LET q2 == [q EXCEPT !.budget_limit = b, !.latency_slo_ms = l]
           IN  SameButLimits(q, q2) /\ q2.budget_limit = b /\ q2.latency_slo_ms = l
BY DEF Request, SameButLimits

\* Asking again with a larger budget or a looser latency limit never loses a
\* model that survived: zero is the tightest budget, not an absent one.
THEOREM LooserLimitsSafe == Spec => []LooserLimitsKeepModels
<1>1. Inv => LooserLimitsKeepModels
  <2> SUFFICES ASSUME Inv, NEW q \in Requests, LooserLimits(request, q), NEW i \in Kept
               PROVE  Verdict(q, Catalog[i], signals[i]) = "candidate"
    BY DEF LooserLimitsKeepModels
  <2> DEFINE m == Catalog[i]
             x == signals[i]
  <2>1. i \in 1..evaluated /\ VerdictOf(i) = "candidate"
    BY CandidatesAre DEF Kept
  <2>2. request \in Request /\ q \in Request /\ m \in Range(Catalog) /\ x \in Signals \cup {None}
    BY <2>1, InputTypes, RequestAssumption DEF Inv, Inputs
  <2>3. SameButLimits(request, q)
    <3>1. q = [request EXCEPT !.budget_limit = q.budget_limit, !.latency_slo_ms = q.latency_slo_ms]
      BY DEF LooserLimits
    <3>2. \A b, l : SameButLimits(request, [request EXCEPT !.budget_limit = b, !.latency_slo_ms = l])
      BY <2>2, LiftedLimits
    <3>3. SameButLimits(request, [request EXCEPT !.budget_limit = q.budget_limit, !.latency_slo_ms = q.latency_slo_ms])
      BY <3>2, Zenon
    <3> QED
      BY <3>1, <3>3, Zenon
  <2>4. /\ ~ProviderFiltered(request, m) /\ ~CapabilityGap(request, m) /\ ~OverCapacity(request, m, x)
        /\ ~OverBudget(request, m, x) /\ ~OverLatency(request, m, x)
    BY <2>1, VerdictIs DEF VerdictOf
  <2>5. ~ProviderFiltered(q, m) /\ ~CapabilityGap(q, m) /\ ~OverCapacity(q, m, x)
    BY <2>3, <2>4, LimitsChangeNothing
  <2> DEFINE cost == TotalCost(request, m, x)
             wait == Ttfb(request, m, x)
  <2>6. TotalCost(q, m, x) = cost /\ Ttfb(q, m, x) = wait
    BY <2>3, LimitsChangeNothing
  <2>7. cost \in Nat /\ wait \in Nat /\ request.budget_limit \in Nat /\ q.budget_limit \in Nat
    BY <2>2, TotalCostNat, SignalParts DEF Request
  <2>8. request.latency_slo_ms \in Nat \cup {None} /\ q.latency_slo_ms \in Nat \cup {None}
    BY <2>2 DEF Request
  <2>9. ~OverBudget(q, m, x)
    <3>1. cost <= request.budget_limit
      BY <2>4, <2>7 DEF OverBudget
    <3>2. q.budget_limit >= request.budget_limit
      BY DEF LooserLimits
    <3> HIDE DEF cost
    <3> QED
      BY <2>6, <2>7, <3>1, <3>2 DEF OverBudget
  <2>10. ~OverLatency(q, m, x)
    <3>1. q.latency_slo_ms = None \/ (request.latency_slo_ms # None /\ q.latency_slo_ms >= request.latency_slo_ms)
      BY DEF LooserLimits
    <3>2. request.latency_slo_ms # None => wait <= request.latency_slo_ms
      BY <2>4, <2>7, <2>8 DEF OverLatency
    <3> HIDE DEF wait
    <3> QED
      BY <2>6, <2>7, <2>8, <3>1, <3>2 DEF OverLatency
  <2> QED
    BY <2>5, <2>9, <2>10, VerdictIs
<1> QED
    BY <1>1, LoopInvariant, PTL

\* Bad news about a model never raises its score: the same measurements, but
\* fresh, sound and successful, score at least as much, and the same
\* measurements with their age unknown score at most as much.
THEOREM BadNewsSafe == Spec => []BadNewsNeverHelps
<1>1. Inv => BadNewsNeverHelps
  <2> SUFFICES ASSUME Inv, NEW k \in DOMAIN candidates, signals[candidates[k].idx] # None
               PROVE  LET m == Catalog[candidates[k].idx]
                          s == signals[candidates[k].idx]
                      IN  /\ candidates[k].confidence_score
                               <= ConfidenceScore(request, policy, m,
                                    [s EXCEPT !.age = 0, !.degraded = FALSE, !.success_rate = 10])
                          /\ candidates[k].confidence_score
                               >= ConfidenceScore(request, policy, m, [s EXCEPT !.age = None])
    BY Zenon DEF BadNewsNeverHelps
  <2> DEFINE i == candidates[k].idx
             s == signals[i]
             m == Catalog[i]
  <2>1. i \in 1..evaluated /\ candidates[k].confidence_score = ConfidenceScore(request, policy, m, s)
    BY CandidatesAre
  <2>2. request \in Request /\ policy \in Policies /\ m \in Range(Catalog) /\ s \in Signals
    BY <2>1, InputTypes DEF Inv, Inputs
  <2>3. ConfidenceScore(request, policy, m, s)
           <= ConfidenceScore(request, policy, m, [s EXCEPT !.age = 0, !.degraded = FALSE, !.success_rate = 10])
    BY <2>2, GoodNewsHelps
  <2>4. ConfidenceScore(request, policy, m, s) >= ConfidenceScore(request, policy, m, [s EXCEPT !.age = None])
    BY <2>2, UnknownAgeHurts
  <2> QED
    BY <2>1, <2>3, <2>4, Zenon
<1> QED
    BY <1>1, LoopInvariant, PTL

\* What each single change to a request does to its filters.
LEMMA Unfiltered ==
    ASSUME NEW q \in Request, NEW m
    PROVE  ~ProviderFiltered([q EXCEPT !.provider_allowlist = {}, !.provider_denylist = {}], m)
<1> DEFINE q2 == [q EXCEPT !.provider_allowlist = {}]
           q3 == [q2 EXCEPT !.provider_denylist = {}]
<1>1. [q EXCEPT !.provider_allowlist = {}, !.provider_denylist = {}] = q3
    OBVIOUS
<1>2. q3.provider_allowlist = {} /\ q3.provider_denylist = {}
    BY DEF Request
<1> HIDE DEF q2, q3
<1> QED
    BY <1>1, <1>2 DEF ProviderFiltered

LEMMA OneQuery ==
    ASSUME NEW q \in Request, NEW m \in Range(Catalog), NEW s \in Signals \cup {None}
    PROVE  LET q2 == [q EXCEPT !.throughput_hint_qps = 1]
           IN  /\ ProviderFiltered(q2, m) = ProviderFiltered(q, m)
               /\ CapabilityGap(q2, m) = CapabilityGap(q, m)
               /\ ~OverCapacity(q2, m, s)
<1> DEFINE q2 == [q EXCEPT !.throughput_hint_qps = 1]
<1>1. /\ q2.provider_allowlist = q.provider_allowlist /\ q2.provider_denylist = q.provider_denylist
      /\ q2.capability_requirements = q.capability_requirements /\ q2.task_type = q.task_type
      /\ q2.context_window_tokens = q.context_window_tokens
      /\ q2.throughput_hint_qps = 1
    BY DEF Request
<1> HIDE DEF q2
<1>2. ProviderFiltered(q2, m) = ProviderFiltered(q, m)
    BY <1>1, Zenon DEF ProviderFiltered
<1>3. CapabilityGap(q2, m) = CapabilityGap(q, m)
    BY <1>1, Zenon DEF CapabilityGap
<1>4. ~OverCapacity(q2, m, s)
  <2> DEFINE x == Qps(m, s)
             y == m.hard_capacity_factor
  <2>1. x \in Nat /\ y \in Nat /\ y >= 10
    BY SignalParts, CatalogModel
  <2>2. OverCapacity(q2, m, s) => x > 0 /\ 10 * 1 > x * y
    BY <1>1 DEF OverCapacity
  <2> HIDE DEF x, y
  <2>3. ~(x > 0 /\ 10 * 1 > x * y)
    <3>1. SUFFICES ASSUME x > 0 PROVE x * y >= 10
      BY <2>1
    <3>2. x - 1 \in Nat /\ x * y = (x - 1) * y + y /\ (x - 1) * y \in Nat
      BY <2>1, <3>1
    <3> QED
      BY <2>1, <3>2
  <2> QED
    BY <2>2, <2>3
<1> QED
    BY <1>2, <1>3, <1>4 DEF q2

\* The reason given is the obstacle: a model rejected for its latency survives
\* once the latency limit is lifted, one rejected for its cost is no longer
\* rejected for anything checked up to there once the budget covers it, and so
\* for the provider lists and the throughput.
THEOREM ReasonsTrue == Spec => []ReasonIsDecisive
<1>1. Inv => ReasonIsDecisive
  <2> SUFFICES ASSUME Inv, NEW k \in DOMAIN rejections
               PROVE  LET m == Catalog[rejections[k].idx]
                          s == signals[rejections[k].idx]
                          after(q) == Verdict(q, m, s)
                      IN  CASE rejections[k].reason = "latency_filtered" ->
                                 after([request EXCEPT !.latency_slo_ms = None]) = "candidate"
                            [] rejections[k].reason = "budget_filtered" ->
                                 after([request EXCEPT !.budget_limit = TotalCost(request, m, s)])
                                    \in {"candidate", "latency_filtered"}
                            [] rejections[k].reason = "capacity_filtered" ->
                                 after([request EXCEPT !.throughput_hint_qps = 1])
                                    \in {"candidate", "budget_filtered", "latency_filtered"}
                            [] rejections[k].reason = "provider_filtered" ->
                                 after([request EXCEPT !.provider_allowlist = {}, !.provider_denylist = {}])
                                    # "provider_filtered"
                            [] OTHER -> TRUE
    BY Zenon DEF ReasonIsDecisive
  <2> DEFINE i == rejections[k].idx
             r == rejections[k].reason
             m == Catalog[i]
             s == signals[i]
             q1 == [request EXCEPT !.latency_slo_ms = None]
             q2 == [request EXCEPT !.budget_limit = TotalCost(request, m, s)]
             q3 == [request EXCEPT !.throughput_hint_qps = 1]
             q4 == [request EXCEPT !.provider_allowlist = {}, !.provider_denylist = {}]
  <2>1. i \in 1..evaluated /\ r = Verdict(request, m, s)
    BY DEF Inv, RejectedList, VerdictOf
  <2>2. request \in Request /\ m \in Range(Catalog) /\ s \in Signals \cup {None}
    BY <2>1, InputTypes DEF Inv, Inputs
  <2>3. r = "latency_filtered" => Verdict(q1, m, s) = "candidate"
    <3>1. SameButLimits(request, q1) /\ q1.latency_slo_ms = None /\ q1.budget_limit = request.budget_limit
      BY <2>2 DEF Request, SameButLimits
    <3> HIDE DEF m, s, q1, r
    <3>2. /\ ProviderFiltered(q1, m) = ProviderFiltered(request, m) /\ CapabilityGap(q1, m) = CapabilityGap(request, m)
          /\ OverCapacity(q1, m, s) = OverCapacity(request, m, s) /\ TotalCost(q1, m, s) = TotalCost(request, m, s)
      BY <3>1, LimitsChangeNothing
    <3>3. OverBudget(q1, m, s) = OverBudget(request, m, s) /\ ~OverLatency(q1, m, s)
      BY <3>1, <3>2 DEF OverBudget, OverLatency
    <3>4. Verdict(request, m, s) = "latency_filtered" =>
             /\ ~ProviderFiltered(request, m) /\ ~CapabilityGap(request, m)
             /\ ~OverCapacity(request, m, s) /\ ~OverBudget(request, m, s)
      BY VerdictIs
    <3> QED
      BY <2>1, <3>2, <3>3, <3>4, VerdictIs
  <2>4. r = "budget_filtered" => Verdict(q2, m, s) \in {"candidate", "latency_filtered"}
    <3>1. SameButLimits(request, q2) /\ q2.budget_limit = TotalCost(request, m, s)
      BY <2>2 DEF Request, SameButLimits
    <3>2. TotalCost(request, m, s) \in Nat
      BY <2>2, TotalCostNat
    <3> HIDE DEF m, s, q2, r
    <3>3. /\ ProviderFiltered(q2, m) = ProviderFiltered(request, m) /\ CapabilityGap(q2, m) = CapabilityGap(request, m)
          /\ OverCapacity(q2, m, s) = OverCapacity(request, m, s) /\ TotalCost(q2, m, s) = TotalCost(request, m, s)
      BY <3>1, LimitsChangeNothing
    <3>4. ~OverBudget(q2, m, s)
      BY <3>1, <3>2, <3>3 DEF OverBudget
    <3>5. Verdict(request, m, s) = "budget_filtered" =>
             ~ProviderFiltered(request, m) /\ ~CapabilityGap(request, m) /\ ~OverCapacity(request, m, s)
      BY VerdictIs
    <3> QED
      BY <2>1, <3>3, <3>4, <3>5, VerdictIs
  <2>5. r = "capacity_filtered" => Verdict(q3, m, s) \in {"candidate", "budget_filtered", "latency_filtered"}
    <3>1. /\ ProviderFiltered(q3, m) = ProviderFiltered(request, m) /\ CapabilityGap(q3, m) = CapabilityGap(request, m)
          /\ ~OverCapacity(q3, m, s)
      BY <2>2, OneQuery
    <3> HIDE DEF m, s, q3, r
    <3>2. Verdict(request, m, s) = "capacity_filtered" => ~ProviderFiltered(request, m) /\ ~CapabilityGap(request, m)
      BY VerdictIs
    <3> QED
      BY <2>1, <3>1, <3>2, VerdictIs
  <2>6. Verdict(q4, m, s) # "provider_filtered"
    <3>1. ~ProviderFiltered(q4, m)
      BY <2>2, Unfiltered
    <3> HIDE DEF m, s, q4
    <3> QED
      BY <3>1, VerdictIs
  <2> HIDE DEF r
  <2>7. CASE /\ r # "latency_filtered" /\ r # "budget_filtered"
             /\ r # "capacity_filtered" /\ r # "provider_filtered"
    BY <2>7 DEF r
  <2> QED
    BY <2>3, <2>4, <2>5, <2>6, <2>7 DEF r
<1> QED
    BY <1>1, LoopInvariant, PTL

\* A list in which no model occurs twice has as many models as places.
LEMMA AsManyModels ==
    ASSUME NEW list, NEW n \in Nat, DOMAIN list = 1..n,
           \A k, l \in 1..n : list[k].idx = list[l].idx => k = l
    PROVE  Cardinality({list[k].idx : k \in DOMAIN list}) = n
<1> DEFINE S == {list[k].idx : k \in 1..n}
           f == [k \in 1..n |-> list[k].idx]
<1>1. f \in [1..n -> S] /\ (\A x \in S : \E k \in 1..n : f[k] = x)
    OBVIOUS
<1>2. \A k, l \in 1..n : f[k] = f[l] => k = l
    OBVIOUS
<1> HIDE DEF f, S
<1>3. f \in Surjection(1..n, S) /\ f \in Injection(1..n, S)
    BY <1>1, <1>2 DEF Surjection, Injection, IsInjective
<1>4. IsFiniteSet(1..n) /\ Cardinality(1..n) = n
    BY FS_Interval
<1>5. Cardinality(S) = n
    BY <1>3, <1>4, FS_Surjection
<1> QED
    BY <1>5 DEF S

\* By score, then cost, then latency, then catalog order.
Ahead(c, d) ==
    \/ c.confidence_score > d.confidence_score
    \/ /\ c.confidence_score = d.confidence_score
       /\ \/ c.estimated_cost_usd < d.estimated_cost_usd
          \/ /\ c.estimated_cost_usd = d.estimated_cost_usd
             /\ \/ c.expected_ttfb_ms < d.expected_ttfb_ms
                \/ c.expected_ttfb_ms = d.expected_ttfb_ms /\ c.idx < d.idx

LEMMA AheadIsLexicographic ==
    ASSUME NEW c, NEW d, c.confidence_score \in Nat, d.confidence_score \in Nat, Ahead(c, d)
    PROVE  Lexicographic(Key(c), Key(d))
<1> DEFINE x == Key(c)
           y == Key(d)
<1>1. /\ DOMAIN x = 1..4 /\ x[1] = 0 - c.confidence_score /\ x[2] = c.estimated_cost_usd
      /\ x[3] = c.expected_ttfb_ms /\ x[4] = c.idx
    BY DEF Key
<1>2. /\ y[1] = 0 - d.confidence_score /\ y[2] = d.estimated_cost_usd
      /\ y[3] = d.expected_ttfb_ms /\ y[4] = d.idx
    BY DEF Key
<1>3. /\ c.confidence_score > d.confidence_score => x[1] < y[1]
      /\ c.confidence_score = d.confidence_score => x[1] = y[1]
    BY <1>1, <1>2
<1> HIDE DEF x, y
<1>4. \/ x[1] < y[1]
      \/ x[1] = y[1] /\ x[2] < y[2]
      \/ x[1] = y[1] /\ x[2] = y[2] /\ x[3] < y[3]
      \/ x[1] = y[1] /\ x[2] = y[2] /\ x[3] = y[3] /\ x[4] < y[4]
    BY <1>1, <1>2, <1>3, Zenon DEF Ahead
<1>5. /\ 1..(1 - 1) = {} /\ 1..(2 - 1) = {1} /\ 1..(3 - 1) = {1, 2} /\ 1..(4 - 1) = {1, 2, 3}
      /\ 1 \in 1..4 /\ 2 \in 1..4 /\ 3 \in 1..4 /\ 4 \in 1..4
    OBVIOUS
<1>6. \E j \in DOMAIN x : x[j] < y[j] /\ \A i \in 1..(j - 1) : x[i] = y[i]
  <2>1. CASE x[1] < y[1]
    BY <1>1, <1>5, <2>1
  <2>2. CASE x[1] = y[1] /\ x[2] < y[2]
    BY <1>1, <1>5, <2>2
  <2>3. CASE x[1] = y[1] /\ x[2] = y[2] /\ x[3] < y[3]
    BY <1>1, <1>5, <2>3
  <2>4. CASE x[1] = y[1] /\ x[2] = y[2] /\ x[3] = y[3] /\ x[4] < y[4]
    BY <1>1, <1>5, <2>4
  <2> QED
    BY <1>4, <2>1, <2>2, <2>3, <2>4
<1> QED
    BY <1>6 DEF Lexicographic, x, y

\* Once the loop has ended, a model that passed the filters is ranked, or the
\* list is full and it would have come after every one on it.
LEMMA CutIs ==
    ASSUME Inv, phase # "filter", NEW i \in 1..evaluated, VerdictOf(i) = "candidate", i \notin Kept
    PROVE  /\ Len(candidates) = policy.max_candidates
           /\ \A k \in DOMAIN candidates : Ahead(candidates[k], Candidate(request, policy, i, signals[i], i))
<1>0. Inputs
    BY DEF Inv
<1>1. PICK cs : KeptList(cs) /\ candidates = Ranked(cs, policy)
    BY DEF Inv, Outcome
<1> DEFINE s == Sorted(cs)
           n == Len(cs)
           t == Len(candidates)
<1>2. PICK j \in 1..n : cs[j].idx = i
    BY <1>1 DEF KeptList
<1>3. /\ n \in Nat /\ Range(cs) \subseteq Candidates /\ cs[j] \in Range(cs)
    BY <1>0, <1>1, KeptRanks
<1>4. PICK p \in 1..n : s[p] = cs[j]
    BY <1>0, <1>1, <1>3, SortedIs
<1>5. /\ \A k \in 1..n : s[k] \in Range(cs)
      /\ \A k, l \in 1..n : k < l => SortsBefore(s[k], s[l])
    BY <1>0, <1>1, SortedIs
<1> HIDE DEF s
<1>6. /\ t \in Nat /\ DOMAIN candidates = 1..t
      /\ t = IF policy.max_candidates <= n THEN policy.max_candidates ELSE n
      /\ \A k \in 1..t :
            /\ k \in 1..n
            /\ candidates[k].idx = s[k].idx
            /\ candidates[k].estimated_cost_usd = s[k].estimated_cost_usd
            /\ candidates[k].expected_ttfb_ms = s[k].expected_ttfb_ms
            /\ candidates[k].confidence_score = s[k].confidence_score
    BY <1>0, <1>1, RankedIs DEF s
<1> HIDE DEF n, t
<1>7. ~(p \in 1..t)
    BY <1>2, <1>4, <1>6 DEF Kept
<1>8. p > t /\ t < n
    BY <1>3, <1>6, <1>7
<1>9. t = policy.max_candidates
    BY <1>6, <1>8
<1>10. /\ s[p].idx = i
       /\ s[p].estimated_cost_usd = RoundMoney(TotalCost(request, Catalog[i], signals[i]))
       /\ s[p].expected_ttfb_ms = Ttfb(request, Catalog[i], signals[i])
       /\ s[p].confidence_score = ConfidenceScore(request, policy, Catalog[i], signals[i])
    BY <1>0, <1>1, <1>2, <1>4, KeptIs DEF n
<1>11. ASSUME NEW k \in 1..t
       PROVE  /\ SortsBefore(s[k], s[p]) /\ s[k] \in Range(cs) /\ s[p] \in Range(cs)
              /\ s[k].rank < s[p].rank <=> s[k].idx < s[p].idx
  <2>1. k \in 1..n /\ k < p
    BY <1>6, <1>8
  <2>2. SortsBefore(s[k], s[p]) /\ s[k] \in Range(cs) /\ s[p] \in Range(cs)
    BY <1>5, <2>1
  <2> QED
    BY <1>0, <1>1, <2>2, SameModelSameCandidate
<1>12. ASSUME NEW k \in 1..t
       PROVE  Ahead(candidates[k], Candidate(request, policy, i, signals[i], i))
  <2> DEFINE c == candidates[k]
             d == Candidate(request, policy, i, signals[i], i)
             u == s[k]
             v == s[p]
  <2>1. /\ c.confidence_score = u.confidence_score /\ c.estimated_cost_usd = u.estimated_cost_usd
        /\ c.expected_ttfb_ms = u.expected_ttfb_ms /\ c.idx = u.idx
    BY <1>6
  <2>2. /\ d.confidence_score = v.confidence_score /\ d.estimated_cost_usd = v.estimated_cost_usd
        /\ d.expected_ttfb_ms = v.expected_ttfb_ms /\ d.idx = v.idx
    BY <1>10 DEF Candidate
  <2>3. SortsBefore(u, v) /\ (u.rank < v.rank <=> u.idx < v.idx)
    BY <1>11
  <2> HIDE DEF c, d, u, v
  <2>4. Ahead(c, d)
    BY <2>1, <2>2, <2>3, Zenon DEF SortsBefore, Ahead
  <2> QED
    BY <2>4 DEF c, d
<1> QED
    BY <1>6, <1>9, <1>12 DEF t

\* No model disappears without a trace: each model the loop has seen is either
\* ranked or rejected, once, and the counters agree with the rejections; only
\* the cut to max_candidates leaves models out, and then the list is full.  The
\* decision fails only if every model was rejected.
THEOREM NoneVanishes == Spec => []NoModelVanishes
<1>1. Inv => NoModelVanishes
  <2> SUFFICES ASSUME Inv PROVE NoModelVanishes
    OBVIOUS
  <2> DEFINE n == Len(candidates)
             l == Len(rejections)
  <2>1. /\ n \in Nat /\ DOMAIN candidates = 1..n
        /\ \A k \in 1..n : candidates[k].idx \in 1..evaluated /\ VerdictOf(candidates[k].idx) = "candidate"
        /\ \A j, k \in 1..n : candidates[j].idx = candidates[k].idx => j = k
    BY CandidatesAre
  <2>2. /\ l \in Nat /\ DOMAIN rejections = 1..l
        /\ \A k \in 1..l : /\ rejections[k].idx \in 1..evaluated /\ rejections[k].idx \in Nat
                           /\ rejections[k].reason = VerdictOf(rejections[k].idx)
                           /\ rejections[k].reason \in Reasons
        /\ \A j, k \in 1..l : j < k => rejections[j].idx < rejections[k].idx
        /\ \A i \in 1..evaluated : VerdictOf(i) # "candidate" => \E k \in 1..l : rejections[k].idx = i
    <3>1. RejectedList
      BY DEF Inv
    <3>2. /\ rejections \in Seq([idx : Nat, reason : Reasons])
          /\ \A k \in 1..l : rejections[k].idx \in 1..evaluated /\ rejections[k].reason = VerdictOf(rejections[k].idx)
          /\ \A j, k \in 1..l : j < k => rejections[j].idx < rejections[k].idx
          /\ \A i \in 1..evaluated : VerdictOf(i) # "candidate" => \E k \in 1..l : rejections[k].idx = i
      BY <3>1 DEF RejectedList
    <3>5. rejections \in Seq([idx : Nat, reason : Reasons])
      BY <3>2
    <3>3. l \in Nat /\ DOMAIN rejections = 1..l /\ \A k \in 1..l : rejections[k] \in [idx : Nat, reason : Reasons]
      <4>1. \A T, list : list \in Seq(T) => /\ Len(list) \in Nat /\ DOMAIN list = 1..Len(list)
                                           /\ \A k \in 1..Len(list) : list[k] \in T
        OBVIOUS
      <4> QED
        BY <3>5, <4>1, Zenon
    <3> HIDE DEF l
    <3>4. ASSUME NEW k \in 1..l
          PROVE  rejections[k].idx \in Nat /\ rejections[k].reason \in Reasons
      <4>1. rejections[k] \in [idx : Nat, reason : Reasons]
        BY <3>3
      <4> QED
        BY <4>1
    <3> QED
      BY <3>2, <3>3, <3>4
  <2>3. "candidate" \notin Reasons
    <3>1. DOMAIN FilterOrder = 1..5
      BY DEF FilterOrder
    <3> QED
      BY <3>1 DEF Reasons, Range, FilterOrder
  <2>4. Kept \cap Rejected = {}
    BY <2>1, <2>2, <2>3 DEF Kept, Rejected
  <2>5. Cardinality(Kept) = n
    BY <2>1, AsManyModels DEF Kept
  <2>6. Cardinality(Rejected) = l
    <3>1. \A j, k \in 1..l : rejections[j].idx = rejections[k].idx => j = k
      <4>1. \A j, k \in 1..l : j < k \/ k < j \/ j = k
        BY <2>2
      <4> QED
        BY <2>2, <4>1
    <3> QED
      BY <2>2, <3>1, AsManyModels DEF Rejected
  <2> HIDE DEF n, l
  <2>7. ASSUME NEW i \in LeftOut
        PROVE  /\ i \in 1..evaluated /\ VerdictOf(i) = "candidate" /\ i \notin Kept
               /\ phase # "filter" /\ n = policy.max_candidates
    <3>1. i \in 1..evaluated /\ i \notin Kept /\ VerdictOf(i) = "candidate"
      BY <2>2 DEF LeftOut, Rejected
    <3>2. phase # "filter"
      <4>1. SUFFICES ASSUME phase = "filter" PROVE i \in Kept
        BY <3>1
      <4>2. KeptList(candidates)
        BY <4>1 DEF Inv, Outcome
      <4>3. \E k \in 1..n : candidates[k].idx = i
        BY <3>1, <4>2 DEF KeptList, n
      <4> QED
        BY <2>1, <4>3 DEF Kept
    <3> QED
      BY <3>1, <3>2, CutIs DEF n
  <2>8. \A r \in Reasons : filtered[r] = Cardinality({k \in DOMAIN rejections : rejections[k].reason = r})
    BY DEF Inv, Counted
  <2>9. ASSUME phase = "raised"
        PROVE  Rejected = 1..Len(Catalog)
    <3>1. evaluated = Len(Catalog) /\ candidates = <<>> /\ n = 0
      BY <2>9 DEF Inv, Outcome, n
    <3>2. policy.max_candidates # 0
      BY PolicyAssumption DEF Inv, Inputs
    <3>3. LeftOut = {}
      BY <2>7, <3>1, <3>2
    <3>4. Kept = {}
      BY <2>1, <3>1 DEF Kept
    <3>5. Rejected \subseteq 1..evaluated
      BY <2>2 DEF Rejected
    <3> QED
      BY <3>1, <3>3, <3>4, <3>5 DEF LeftOut
  <2> QED
    BY <2>4, <2>5, <2>6, <2>7, <2>8, <2>9 DEF NoModelVanishes, n, l
<1> QED
    BY <1>1, LoopInvariant, PTL

LEMMA RankingIs ==
    ASSUME Inv, phase # "filter"
    PROVE  \A k, l \in DOMAIN candidates : k < l => Ahead(candidates[k], candidates[l])
<1>0. Inputs
    BY DEF Inv
<1>1. PICK cs : KeptList(cs) /\ candidates = Ranked(cs, policy)
    BY DEF Inv, Outcome
<1> DEFINE s == Sorted(cs)
           n == Len(cs)
           t == Len(candidates)
<1>2. /\ \A k \in 1..n : s[k] \in Range(cs)
      /\ \A k, l \in 1..n : k < l => SortsBefore(s[k], s[l])
    BY <1>0, <1>1, SortedIs
<1> HIDE DEF s
<1>3. /\ t \in Nat /\ DOMAIN candidates = 1..t
      /\ \A k \in 1..t :
            /\ k \in 1..n
            /\ candidates[k].idx = s[k].idx
            /\ candidates[k].estimated_cost_usd = s[k].estimated_cost_usd
            /\ candidates[k].expected_ttfb_ms = s[k].expected_ttfb_ms
            /\ candidates[k].confidence_score = s[k].confidence_score
    BY <1>0, <1>1, RankedIs DEF s
<1> HIDE DEF n, t
<1>4. ASSUME NEW k \in 1..t, NEW l \in 1..t, k < l
      PROVE  Ahead(candidates[k], candidates[l])
  <2> DEFINE c == candidates[k]
             d == candidates[l]
             u == s[k]
             v == s[l]
  <2>1. /\ c.confidence_score = u.confidence_score /\ c.estimated_cost_usd = u.estimated_cost_usd
        /\ c.expected_ttfb_ms = u.expected_ttfb_ms /\ c.idx = u.idx
    BY <1>3
  <2>2. /\ d.confidence_score = v.confidence_score /\ d.estimated_cost_usd = v.estimated_cost_usd
        /\ d.expected_ttfb_ms = v.expected_ttfb_ms /\ d.idx = v.idx
    BY <1>3
  <2>3. SortsBefore(u, v) /\ u \in Range(cs) /\ v \in Range(cs)
    BY <1>2, <1>3, <1>4
  <2>4. u.rank < v.rank <=> u.idx < v.idx
    BY <1>0, <1>1, <2>3, SameModelSameCandidate
  <2> HIDE DEF c, d, u, v
  <2>5. Ahead(c, d)
    BY <2>1, <2>2, <2>3, <2>4, Zenon DEF SortsBefore, Ahead
  <2> QED
    BY <2>5 DEF c, d
<1> QED
    BY <1>3, <1>4

\* The mean of the scores, rounded, is between the last and the first.
LEMMA FallbackIs ==
    ASSUME Inv, phase # "filter", candidates # <<>>
    PROVE  /\ FallbackSafety(candidates) <= candidates[1].confidence_score
           /\ FallbackSafety(candidates) >= candidates[Len(candidates)].confidence_score
<1> DEFINE n == Len(candidates)
           score == [k \in 1..n |-> candidates[k].confidence_score]
           lo == candidates[n].confidence_score
           hi == candidates[1].confidence_score
<1>1. /\ DOMAIN candidates = 1..n /\ n \in Nat /\ candidates \in Seq(Candidates)
    BY CandidatesAre
<1>2. n # 0
    BY <1>1
<1>3. ASSUME NEW k \in 1..n
      PROVE  candidates[k].confidence_score \in Nat /\ candidates[k].confidence_score <= One
  <2> DEFINE i == candidates[k].idx
  <2>1. i \in 1..evaluated /\ candidates[k].confidence_score = ConfidenceScore(request, policy, Catalog[i], signals[i])
    BY CandidatesAre
  <2>2. /\ request \in Request /\ policy \in Policies
        /\ Catalog[i] \in Range(Catalog) /\ signals[i] \in Signals \cup {None}
    BY <2>1, InputTypes DEF Inv, Inputs
  <2> QED
    BY <2>1, <2>2, ScoreNat
<1>4. \A k, l \in 1..n : k < l => candidates[l].confidence_score <= candidates[k].confidence_score
  <2> SUFFICES ASSUME NEW k \in 1..n, NEW l \in 1..n, k < l
               PROVE  candidates[l].confidence_score <= candidates[k].confidence_score
    OBVIOUS
  <2>1. Ahead(candidates[k], candidates[l])
    BY <1>1, RankingIs
  <2>2. candidates[k].confidence_score \in Nat /\ candidates[l].confidence_score \in Nat
    BY <1>3
  <2> QED
    BY <2>1, <2>2 DEF Ahead
<1> HIDE DEF n
<1>5. 1 \in 1..n /\ n \in 1..n /\ \A k \in 1..n : (k = 1 \/ 1 < k) /\ (k = n \/ k < n)
    BY <1>1, <1>2
<1>6. lo \in Nat /\ hi \in Nat /\ lo <= One /\ hi <= One
    BY <1>3, <1>5
<1>7. DOMAIN score = 1..n /\ \A k \in 1..n : score[k] \in Nat /\ lo <= score[k] /\ score[k] <= hi
  <2>1. ASSUME NEW k \in 1..n
        PROVE  LET x == candidates[k].confidence_score IN x \in Nat /\ lo <= x /\ x <= hi
    <3>1. k = 1 \/ hi >= candidates[k].confidence_score
      BY <1>4, <1>5
    <3>2. k = n \/ lo <= candidates[k].confidence_score
      BY <1>4, <1>5
    <3>3. candidates[k].confidence_score \in Nat
      BY <1>3
    <3> QED
      BY <1>6, <3>1, <3>2, <3>3
  <2> QED
    BY <2>1
<1>8. IsFiniteSet(1..n) /\ Cardinality(1..n) = n
    BY <1>1, FS_Interval
<1> DEFINE total == SumFunction(score)
<1> HIDE DEF score, lo, hi
<1>9. total \in Nat /\ lo * n <= total /\ total <= hi * n
    BY <1>6, <1>7, <1>8, SumBetween
<1>10. FallbackSafety(candidates) = Clamp(RoundDiv(total, n))
    BY <1>1 DEF FallbackSafety, score, n
<1> HIDE DEF total
<1>11. RoundDiv(lo, 1) = lo /\ RoundDiv(hi, 1) = hi
    BY <1>6 DEF RoundDiv
<1>12. n \in Nat \ {0} /\ 1 \in Nat \ {0} /\ total * 1 <= hi * n /\ lo * n <= total * 1
    BY <1>1, <1>2, <1>9
<1>13. RoundDiv(total, n) \in Nat /\ RoundDiv(total, n) <= hi
    BY <1>6, <1>9, <1>11, <1>12, RoundDivGrows
<1>14. lo <= RoundDiv(total, n)
    BY <1>6, <1>9, <1>11, <1>12, RoundDivGrows
<1>15. Clamp(RoundDiv(total, n)) = RoundDiv(total, n)
  <2>1. RoundDiv(total, n) <= One /\ One \in Nat
    BY <1>6, <1>13 DEF One
  <2> QED
    BY <1>13, <2>1, ClampIs
<1> QED
    BY <1>6, <1>10, <1>13, <1>14, <1>15 DEF lo, hi, n

\* The ranking is by score, then cost, then latency, then catalog order, the
\* recommendation is its head, and a model left out by the cut would have come
\* after every one kept.  The fallback safety lies between the last and the
\* first score.
THEOREM BestKept == Spec => []BestAreKept
<1>1. Inv => BestAreKept
  <2> SUFFICES ASSUME Inv, phase # "filter"
               PROVE  /\ \A k \in DOMAIN candidates : candidates[k].rank = k
                      /\ \A k, l \in DOMAIN candidates :
                            k < l => Lexicographic(Key(candidates[k]), Key(candidates[l]))
                      /\ \A i \in LeftOut, k \in DOMAIN candidates :
                            Lexicographic(Key(candidates[k]), Key(Candidate(request, policy, i, signals[i], i)))
                      /\ response # None =>
                            /\ response.recommended = candidates[1]
                            /\ response.fallback_safety_score <= candidates[1].confidence_score
                            /\ response.fallback_safety_score >= candidates[Len(candidates)].confidence_score
    BY Zenon DEF BestAreKept
  <2>1. \A k \in DOMAIN candidates : candidates[k].rank = k
    BY CandidatesAre
  <2>2. \A k \in DOMAIN candidates : candidates[k].confidence_score \in Nat
    <3>1. candidates \in Seq(Candidates) /\ DOMAIN candidates = 1..Len(candidates)
      BY CandidatesAre
    <3>2. \A k \in DOMAIN candidates : candidates[k] \in Candidates
      BY <3>1
    <3> QED
      BY <3>2 DEF Candidates
  <2>3. \A k, l \in DOMAIN candidates : k < l => Lexicographic(Key(candidates[k]), Key(candidates[l]))
    BY <2>2, RankingIs, AheadIsLexicographic
  <2>4. ASSUME NEW i \in LeftOut, NEW k \in DOMAIN candidates
        PROVE  Lexicographic(Key(candidates[k]), Key(Candidate(request, policy, i, signals[i], i)))
    <3>1. i \in 1..evaluated /\ i \notin Kept /\ VerdictOf(i) = "candidate"
      BY DEF LeftOut, Rejected, Inv, RejectedList
    <3>2. Ahead(candidates[k], Candidate(request, policy, i, signals[i], i))
      BY <3>1, CutIs
    <3>3. Candidate(request, policy, i, signals[i], i).confidence_score \in Nat
      <4>1. /\ request \in Request /\ policy \in Policies /\ i \in Nat
            /\ Catalog[i] \in Range(Catalog) /\ signals[i] \in Signals \cup {None}
        BY <3>1, InputTypes DEF Inv, Inputs
      <4>2. ConfidenceScore(request, policy, Catalog[i], signals[i]) \in Nat
        BY <4>1, ScoreNat
      <4> QED
        BY <4>2 DEF Candidate
    <3> QED
      BY <2>2, <3>2, <3>3, AheadIsLexicographic
  <2>5. ASSUME response # None
        PROVE  /\ response.recommended = candidates[1]
               /\ response.fallback_safety_score <= candidates[1].confidence_score
               /\ response.fallback_safety_score >= candidates[Len(candidates)].confidence_score
    <3>1. /\ candidates # <<>> /\ response.recommended = candidates[1]
          /\ response.fallback_safety_score = FallbackSafety(candidates)
      BY <2>5 DEF Inv, Outcome
    <3> QED
      BY <3>1, FallbackIs
  <2> QED
    BY <2>1, <2>3, <2>4, <2>5
<1> QED
    BY <1>1, LoopInvariant, PTL

=============================================================================
