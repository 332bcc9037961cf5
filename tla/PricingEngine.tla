--------------------------- MODULE PricingEngine ---------------------------
(***************************************************************************)
(* calculate_routing_decision: every model of the catalog goes through the *)
(* filters in order and is rejected for the first that it fails, or is     *)
(* priced, scored and kept; the kept ones are sorted, cut to the policy's  *)
(* max_candidates and numbered.  A request, a policy and the signals that  *)
(* get_signals returned are chosen in Init and stay as they are.           *)
(*                                                                         *)
(* Decimals and floats are fixed point: a price is in micro-dollars per    *)
(* thousand tokens, a total cost and a budget in pico-dollars, a rate,     *)
(* factor, accuracy or success rate in tenths, a score or penalty in       *)
(* 1/10000 (the code rounds both to four digits).  Halves round up.        *)
(* Details, explanations, timings and the policy trace are left out.       *)
(***************************************************************************)
EXTENDS Integers, SequencesExt, FiniteSetsExt

CONSTANTS
    Catalog,         \* catalog.models, a sequence of model records
    Requests,        \* the validated requests
    Policies,        \* the active policies
    SignalMaps,      \* what get_signals may return: a signal or None per position of Catalog
    None,            \* an absent optional
    Baseline,        \* DEFAULT_BASELINE overridden by normalization_baseline
    FreshnessLimit   \* signal_freshness_seconds

\* The bounds that the schemas put on a catalog model, a request, a policy and
\* a signal; the code takes a baseline of zero or less for a millionth.
ASSUME CatalogAssumption ==
    /\ Catalog \in Seq(Range(Catalog))
    /\ \A i \in DOMAIN Catalog :
       LET m == Catalog[i]
       IN  /\ m.in_price_1k \in Nat /\ m.out_price_1k \in Nat /\ m.cold_start_cost \in Nat
           /\ m.pricing_tiers \in Seq([upto_tokens : Nat \cup {None}, in_price_1k : Nat, out_price_1k : Nat])
           /\ m.default_ttfb_ms \in Nat \ {0} /\ m.cold_start_ms \in Nat
           /\ m.throughput_hint_qps \in Nat \ {0}
           /\ m.hard_capacity_factor \in Nat /\ m.hard_capacity_factor >= 10
           /\ m.accuracy \in 0..10 /\ m.long_text_discount_rate \in 0..10
           /\ m.concurrency_premium_rate \in Nat /\ m.burst_qps_threshold \in 1..15
Request ==
    [provider_allowlist : SUBSET STRING, provider_denylist : SUBSET STRING,
     capability_requirements : SUBSET STRING, task_type : STRING, language : STRING,
     input_chars : Nat \ {0}, expected_output_tokens : Nat \ {0}, context_window_tokens : Nat \ {0},
     budget_limit : Nat, latency_slo_ms : Nat \cup {None}, throughput_hint_qps : Nat]
ASSUME RequestAssumption == Requests \subseteq Request
ASSUME PolicyAssumption ==
    \A p \in Policies :
       /\ p.max_candidates \in Nat \ {0}
       /\ p.freshness_penalty \in Nat /\ p.degraded_penalty \in Nat /\ p.fallback_bonus \in Nat
       /\ p.weights \in [token_cost : Nat, qps : Nat, latency : Nat, accuracy : Nat]
       /\ p.weights.token_cost + p.weights.qps + p.weights.latency + p.weights.accuracy > 0
Signals == [age : Nat \cup {None}, ttfb_p50_ms : Nat, throughput_hint_qps : Nat,
            success_rate : 0..10, degraded : BOOLEAN]
ASSUME SignalAssumption ==
    \A ss \in SignalMaps : \A i \in DOMAIN Catalog : ss[i] \in Signals \cup {None}
ASSUME NoneAssumption == None \notin Nat /\ None \notin Signals
ASSUME BaselineAssumption ==
    Baseline \in [token_cost : Nat \ {0}, qps : Nat \ {0}, latency : Nat \ {0}, accuracy : Nat \ {0}]
ASSUME FreshnessAssumption == FreshnessLimit \in Nat \ {0}

VARIABLES
    request, policy, signals,
    evaluated,    \* number of models the loop has dealt with
    candidates, rejections,
    filtered,     \* filtered_by_provider ... filtered_by_latency, by reason
    freshness,    \* the members of freshness_values
    phase,        \* "filter", "ranked", "returned" or "raised"
    response      \* None or the response that is returned

inputs == <<request, policy, signals>>
vars == <<inputs, evaluated, candidates, rejections, filtered, freshness, phase, response>>

WrongFilterOrder == <<"provider_filtered", "capability_filtered", "capacity_filtered",
                      "latency_filtered", "budget_filtered">>

FilterOrder == <<"provider_filtered", "capability_filtered", "capacity_filtered",
                 "budget_filtered", "latency_filtered">>
Reasons == Range(FilterOrder)
One == 10000
MicroDollar == 1000000

-----------------------------------------------------------------------------
(* Token estimate *)

KeywordOrder == <<"gpt", "openai", "claude", "anthropic", "gemini">>
DefaultMultiplier == [en |-> 40, zh |-> 70]
TokenMultipliers ==
    [gpt       |-> [en |-> 30, zh |-> 60], openai |-> [en |-> 30, zh |-> 60],
     claude    |-> [en |-> 35, zh |-> 65], anthropic |-> [en |-> 35, zh |-> 65],
     gemini    |-> [en |-> 32, zh |-> 55]]

\* m.keywords are the keys that occur in the model id; the first one counts.
Multiplier(m, language) ==
    LET hits == {i \in DOMAIN KeywordOrder : KeywordOrder[i] \in m.keywords}
        row == IF hits = {} THEN DefaultMultiplier
                            ELSE TokenMultipliers[KeywordOrder[Min(hits)]]
    IN  IF language = "zh" THEN row.zh ELSE row.en

InputTokens(q, m) == Max({1, (q.input_chars * Multiplier(m, q.language)) \div 100})
OutputTokens(q) == Max({1, q.expected_output_tokens})
TotalTokens(q, m) == InputTokens(q, m) + OutputTokens(q)

-----------------------------------------------------------------------------
(* Signals *)

SignalAge(s) == IF s = None THEN None ELSE s.age
Ttfb(q, m, s) ==
    (IF s = None THEN m.default_ttfb_ms ELSE s.ttfb_p50_ms)
    + (IF q.throughput_hint_qps <= 0 THEN m.cold_start_ms ELSE 0)
Qps(m, s) == IF s = None THEN m.throughput_hint_qps ELSE s.throughput_hint_qps
SuccessRate(s) == IF s = None THEN 10 ELSE s.success_rate
Degraded(s) == s # None /\ s.degraded

-----------------------------------------------------------------------------
(* Cost *)

Covers(tier, total) == tier.upto_tokens = None \/ total <= tier.upto_tokens

PickTier(m, total) ==
    LET fits == {i \in DOMAIN m.pricing_tiers : Covers(m.pricing_tiers[i], total)}
    IN  IF fits = {} THEN [in_price_1k |-> m.in_price_1k, out_price_1k |-> m.out_price_1k]
                     ELSE m.pricing_tiers[Min(fits)]

\* Nano-dollars, before discount and premium.
BaseCost(q, m) ==
    LET tier == PickTier(m, TotalTokens(q, m))
    IN  InputTokens(q, m) * tier.in_price_1k + OutputTokens(q) * tier.out_price_1k
        + (IF q.throughput_hint_qps <= 0 THEN m.cold_start_cost ELSE 0)

\* Tenths of the base cost that the long-text discount takes off.
Discount(q, m) ==
    IF TotalTokens(q, m) >= m.long_text_threshold_tokens THEN m.long_text_discount_rate ELSE 0

\* Hundredths that the burst premium adds: the overage counts up to 1.
Premium(q, m, s) ==
    LET hint == q.throughput_hint_qps
        qps == Qps(m, s)
    IN  IF hint > 0 /\ qps > 0 /\ 10 * hint > m.burst_qps_threshold * qps
        THEN m.concurrency_premium_rate
             * Min({10, (10 * hint - m.burst_qps_threshold * qps) \div qps})
        ELSE 0

TotalCost(q, m, s) == BaseCost(q, m) * (10 - Discount(q, m)) * (100 + Premium(q, m, s))

RoundMoney(cost) == (cost + MicroDollar \div 2) \div MicroDollar

-----------------------------------------------------------------------------
(* Filters *)

\* An empty list filters nothing.
ProviderFiltered(q, m) ==
    \/ q.provider_allowlist # {} /\ m.provider \notin q.provider_allowlist
    \/ m.provider \in q.provider_denylist

CapabilityGap(q, m) ==
    \/ ~(q.capability_requirements \subseteq m.capabilities)
    \/ q.task_type \notin m.supported_task_types
    \/ q.context_window_tokens > m.context_window_tokens

\* A measured throughput of zero switches the check off.
OverCapacity(q, m, s) ==
    /\ q.throughput_hint_qps > 0 /\ Qps(m, s) > 0
    /\ 10 * q.throughput_hint_qps > Qps(m, s) * m.hard_capacity_factor

WrongOverBudgetZeroUnlimited(q, m, s) ==
    q.budget_limit > 0 /\ TotalCost(q, m, s) > q.budget_limit

WrongOverBudgetBaseCost(q, m, s) ==
    IF q.budget_limit = 0 THEN TotalCost(q, m, s) > 0
                          ELSE BaseCost(q, m) * (10 - Discount(q, m)) * 100 > q.budget_limit

\* A budget of zero asks for a free route.
OverBudget(q, m, s) ==
    IF q.budget_limit = 0 THEN TotalCost(q, m, s) > 0
                          ELSE TotalCost(q, m, s) > q.budget_limit

OverLatency(q, m, s) == q.latency_slo_ms # None /\ Ttfb(q, m, s) > q.latency_slo_ms

Fails(q, m, s) ==
    [provider_filtered   |-> ProviderFiltered(q, m),
     capability_filtered |-> CapabilityGap(q, m),
     capacity_filtered   |-> OverCapacity(q, m, s),
     budget_filtered     |-> OverBudget(q, m, s),
     latency_filtered    |-> OverLatency(q, m, s)]

\* The first filter that m fails decides; "candidate" when it passes them all.
Verdict(q, m, s) ==
    LET failed == {i \in DOMAIN FilterOrder : Fails(q, m, s)[FilterOrder[i]]}
    IN  IF failed = {} THEN "candidate" ELSE FilterOrder[Min(failed)]

-----------------------------------------------------------------------------
(* Score *)

RoundDiv(a, b) == (2 * a + b) \div (2 * b)
Clamp(x) == Max({0, Min({One, x})})
BenefitScore(value, baseline) == RoundDiv(One * value, value + baseline)
CostScore(value, baseline) == RoundDiv(One * baseline, value + baseline)

ScoreBreakdown(q, m, s) ==
    [token_cost |-> CostScore(TotalCost(q, m, s) \div (1000 * TotalTokens(q, m)), Baseline.token_cost),
     qps        |-> BenefitScore(Qps(m, s), Baseline.qps),
     latency    |-> CostScore(Ttfb(q, m, s), Baseline.latency),
     accuracy   |-> BenefitScore(m.accuracy * SuccessRate(s), Baseline.accuracy)]

WrongFreshnessPenalty(p, s) ==
    IF SignalAge(s) # None /\ SignalAge(s) <= FreshnessLimit THEN p.freshness_penalty ELSE 0

\* An unknown age costs as much as a stale one; past the limit the code's
\* min(1, age / limit) is 1.
FreshnessPenalty(p, s) ==
    IF SignalAge(s) = None \/ SignalAge(s) > FreshnessLimit THEN p.freshness_penalty ELSE 0
DegradedPenalty(p, s) == IF Degraded(s) THEN p.degraded_penalty ELSE 0
FallbackBonus(p, s) == RoundDiv(p.fallback_bonus * SuccessRate(s), 10)

WeightedScore(p, b) ==
    RoundDiv(b.token_cost * p.weights.token_cost + b.qps * p.weights.qps
               + b.latency * p.weights.latency + b.accuracy * p.weights.accuracy,
             p.weights.token_cost + p.weights.qps + p.weights.latency + p.weights.accuracy)

ConfidenceScore(q, p, m, s) ==
    Clamp(WeightedScore(p, ScoreBreakdown(q, m, s))
          - FreshnessPenalty(p, s) - DegradedPenalty(p, s) + FallbackBonus(p, s))

\* A candidate before ranking carries its place in the list as its rank.
\* idx, its model's position in the catalog, stands for model_id and provider.
Candidate(q, p, idx, s, rank) ==
    LET m == Catalog[idx]
    IN  [rank |-> rank, idx |-> idx,
         estimated_cost_usd |-> RoundMoney(TotalCost(q, m, s)),
         expected_ttfb_ms |-> Ttfb(q, m, s),
         confidence_score |-> ConfidenceScore(q, p, m, s),
         signal_freshness_seconds |-> SignalAge(s)]

\* The sort key of the code; list.sort is stable, so equal keys keep their order.
SortsBefore(a, b) ==
    \/ a.confidence_score > b.confidence_score
    \/ /\ a.confidence_score = b.confidence_score
       /\ \/ a.estimated_cost_usd < b.estimated_cost_usd
          \/ /\ a.estimated_cost_usd = b.estimated_cost_usd
             /\ \/ a.expected_ttfb_ms < b.expected_ttfb_ms
                \/ a.expected_ttfb_ms = b.expected_ttfb_ms /\ a.rank < b.rank

Cut(seq, n) == SubSeq(seq, 1, Min({n, Len(seq)}))

Renumber(seq) == [i \in DOMAIN seq |-> [seq[i] EXCEPT !.rank = i]]

\* list.sort: the k-th is the one that k - 1 others sort before.
Sorted(cs) ==
    [k \in DOMAIN cs |->
        CHOOSE c \in Range(cs) : Cardinality({d \in Range(cs) : SortsBefore(d, c)}) = k - 1]

WrongRankedCutFirst(cs, p) == Renumber(Sorted(Cut(cs, p.max_candidates)))

Ranked(cs, p) == Renumber(Cut(Sorted(cs), p.max_candidates))

-----------------------------------------------------------------------------
(* calculate_routing_decision *)

Init ==
    /\ request \in Requests /\ policy \in Policies /\ signals \in SignalMaps
    /\ evaluated = 0
    /\ candidates = <<>> /\ rejections = <<>>
    /\ filtered = [r \in Reasons |-> 0]
    /\ freshness = {}
    /\ phase = "filter"
    /\ response = None

\* The model at hand, and the freshness value that is noted for it once it has
\* passed the provider and capability filters.
Here == Catalog[evaluated + 1]
Signal == signals[evaluated + 1]
VerdictHere == Verdict(request, Here, Signal)
NoteFreshness ==
    freshness' = IF VerdictHere \in {"provider_filtered", "capability_filtered"}
                 THEN freshness
                 ELSE freshness \cup {IF SignalAge(Signal) = None THEN 2 * FreshnessLimit
                                                                  ELSE SignalAge(Signal)}

WrongNoted(list, idx, reason) ==
    IF reason = "capacity_filtered" THEN list ELSE Append(list, [idx |-> idx, reason |-> reason])

Noted(list, idx, reason) == Append(list, [idx |-> idx, reason |-> reason])

RejectModel ==
    /\ phase = "filter" /\ evaluated < Len(Catalog)
    /\ VerdictHere # "candidate"
    /\ evaluated' = evaluated + 1
    /\ rejections' = Noted(rejections, evaluated + 1, VerdictHere)
    /\ filtered' = [filtered EXCEPT ![VerdictHere] = @ + 1]
    /\ NoteFreshness
    /\ UNCHANGED <<inputs, candidates, phase, response>>

KeepModel ==
    /\ phase = "filter" /\ evaluated < Len(Catalog)
    /\ VerdictHere = "candidate"
    /\ evaluated' = evaluated + 1
    /\ candidates' = Append(candidates,
          Candidate(request, policy, evaluated + 1, Signal, Len(candidates) + 1))
    /\ NoteFreshness
    /\ UNCHANGED <<inputs, rejections, filtered, phase, response>>

RankCandidates ==
    /\ phase = "filter" /\ evaluated = Len(Catalog)
    /\ candidates' = Ranked(candidates, policy)
    /\ phase' = "ranked"
    /\ UNCHANGED <<inputs, evaluated, rejections, filtered, freshness, response>>

\* The ValueError that create_decision turns into an undone reservation.
RaiseNoCandidates ==
    /\ phase = "ranked" /\ candidates = <<>>
    /\ phase' = "raised"
    /\ UNCHANGED <<inputs, evaluated, candidates, rejections, filtered, freshness, response>>

FallbackSafety(cs) ==
    Clamp(RoundDiv(SumFunction([k \in DOMAIN cs |-> cs[k].confidence_score]), Len(cs)))

ReturnDecision ==
    /\ phase = "ranked" /\ candidates # <<>>
    /\ response' = [recommended |-> candidates[1],
                    candidate_count |-> Len(candidates),
                    signal_freshness_min_seconds |-> Min(freshness),
                    fallback_safety_score |-> FallbackSafety(candidates)]
    /\ phase' = "returned"
    /\ UNCHANGED <<inputs, evaluated, candidates, rejections, filtered, freshness>>

Next == RejectModel \/ KeepModel \/ RankCandidates \/ RaiseNoCandidates \/ ReturnDecision

Spec == Init /\ [][Next]_vars

-----------------------------------------------------------------------------
(* Properties *)

Kept == {candidates[k].idx : k \in DOMAIN candidates}
Rejected == {rejections[k].idx : k \in DOMAIN rejections}
LeftOut == (1..evaluated) \ (Kept \cup Rejected)

\* No model disappears without a trace: each model the loop has seen is either
\* ranked or rejected, once, and the counters agree with the rejections; only
\* the cut to max_candidates leaves models out, and then the list is full.  The
\* decision fails only if every model was rejected.
NoModelVanishes ==
    /\ Kept \cap Rejected = {}
    /\ Cardinality(Kept) = Len(candidates) /\ Cardinality(Rejected) = Len(rejections)
    /\ LeftOut # {} => phase # "filter" /\ Len(candidates) = policy.max_candidates
    /\ \A r \in Reasons :
          filtered[r] = Cardinality({k \in DOMAIN rejections : rejections[k].reason = r})
    /\ phase = "raised" => Rejected = 1..Len(Catalog)

Key(c) == <<0 - c.confidence_score, c.estimated_cost_usd, c.expected_ttfb_ms, c.idx>>
Lexicographic(x, y) ==
    \E j \in DOMAIN x : x[j] < y[j] /\ \A i \in 1..(j - 1) : x[i] = y[i]

\* The ranking is by score, then cost, then latency, then catalog order, the
\* recommendation is its head, and a model left out by the cut would have come
\* after every one kept.  The fallback safety lies between the last and the
\* first score.
BestAreKept ==
    phase # "filter" =>
       /\ \A k \in DOMAIN candidates : candidates[k].rank = k
       /\ \A k, l \in DOMAIN candidates :
             k < l => Lexicographic(Key(candidates[k]), Key(candidates[l]))
       /\ \A i \in LeftOut, k \in DOMAIN candidates :
             Lexicographic(Key(candidates[k]),
                           Key(Candidate(request, policy, i, signals[i], i)))
       /\ response # None =>
             /\ response.recommended = candidates[1]
             /\ response.fallback_safety_score <= candidates[1].confidence_score
             /\ response.fallback_safety_score >= candidates[Len(candidates)].confidence_score

LooserLimits(q, q2) ==
    /\ q2 = [q EXCEPT !.budget_limit = q2.budget_limit, !.latency_slo_ms = q2.latency_slo_ms]
    /\ q2.budget_limit >= q.budget_limit
    /\ q2.latency_slo_ms = None \/ (q.latency_slo_ms # None /\ q2.latency_slo_ms >= q.latency_slo_ms)

\* Asking again with a larger budget or a looser latency limit never loses a
\* model that survived: zero is the tightest budget, not an absent one.
LooserLimitsKeepModels ==
    phase = "filter" =>
       \A q2 \in Requests : LooserLimits(request, q2) =>
          \A i \in Kept : Verdict(q2, Catalog[i], signals[i]) = "candidate"

\* The reason given is the obstacle: a model rejected for its latency survives
\* once the latency limit is lifted, one rejected for its cost is no longer
\* rejected for anything checked up to there once the budget covers it, and so
\* for the provider lists and the throughput.
ReasonIsDecisive ==
    \A k \in DOMAIN rejections :
       LET m == Catalog[rejections[k].idx]
           s == signals[rejections[k].idx]
           after(q) == Verdict(q, m, s)
       IN  CASE rejections[k].reason = "latency_filtered" ->
                  after([request EXCEPT !.latency_slo_ms = None]) = "candidate"
             [] rejections[k].reason = "budget_filtered" ->
                  after([request EXCEPT !.budget_limit = TotalCost(request, m, s)])
                     \in {"candidate", "latency_filtered"}
             [] rejections[k].reason = "capacity_filtered" ->
                  after([request EXCEPT !.throughput_hint_qps = 1])
                     \in {"candidate", "budget_filtered", "latency_filtered"}
             [] rejections[k].reason = "provider_filtered" ->
                  after([request EXCEPT !.provider_allowlist = {}, !.provider_denylist = {}])
                     # "provider_filtered"
             [] OTHER -> TRUE

\* Bad news about a model never raises its score: the same measurements, but
\* fresh, sound and successful, score at least as much, and the same
\* measurements with their age unknown score at most as much.
BadNewsNeverHelps ==
    phase = "filter" => \A k \in DOMAIN candidates :
       LET m == Catalog[candidates[k].idx]
           s == signals[candidates[k].idx]
       IN  s # None =>
              /\ candidates[k].confidence_score
                   <= ConfidenceScore(request, policy, m,
                        [s EXCEPT !.age = 0, !.degraded = FALSE, !.success_rate = 10])
              /\ candidates[k].confidence_score
                   >= ConfidenceScore(request, policy, m, [s EXCEPT !.age = None])

\* A candidate's reported cost, all corrections included, is within the budget
\* up to half a micro-dollar of rounding, and exactly zero for a zero budget.
ReportedCostWithinBudget ==
    \A k \in DOMAIN candidates :
       /\ candidates[k].estimated_cost_usd * MicroDollar <= request.budget_limit + MicroDollar \div 2
       /\ request.budget_limit = 0 => candidates[k].estimated_cost_usd = 0
=============================================================================
