-------------------------- MODULE MCPricingEngine --------------------------
(* A catalog of four models, two providers and every signal a probe leaves. *)
EXTENDS PricingEngine

Plain(upto, in, out) == [upto_tokens |-> upto, in_price_1k |-> in, out_price_1k |-> out]

\* Two tiers, a cold start, a long-text discount and a burst premium.
Chat ==
    [provider |-> "lab", keywords |-> {}, in_price_1k |-> 140, out_price_1k |-> 280,
     pricing_tiers |-> <<Plain(30, 140, 280), Plain(None, 120, 240)>>,
     context_window_tokens |-> 100, default_ttfb_ms |-> 320, throughput_hint_qps |-> 20,
     accuracy |-> 8, hard_capacity_factor |-> 11, capabilities |-> {"json_mode"},
     supported_task_types |-> {"chat"}, cold_start_ms |-> 200, cold_start_cost |-> 100,
     long_text_discount_rate |-> 1, long_text_threshold_tokens |-> 40,
     concurrency_premium_rate |-> 10, burst_qps_threshold |-> 8]

\* Expensive, accurate, slow.
Reasoner ==
    [Chat EXCEPT !.provider = "cloud", !.keywords = {"gpt"}, !.in_price_1k = 550,
     !.out_price_1k = 2190, !.pricing_tiers = <<>>, !.default_ttfb_ms = 600,
     !.throughput_hint_qps = 60, !.accuracy = 9, !.capabilities = {"json_mode", "reasoning"},
     !.cold_start_ms = 0, !.cold_start_cost = 0, !.long_text_discount_rate = 0]

\* Free, small, scarce.
Free ==
    [Chat EXCEPT !.provider = "lab", !.in_price_1k = 0, !.out_price_1k = 0,
     !.pricing_tiers = <<>>, !.default_ttfb_ms = 450, !.throughput_hint_qps = 5,
     !.accuracy = 6, !.context_window_tokens = 20, !.cold_start_cost = 0]

\* The last two differ in nothing but their place, so ties happen.
MCCatalog == <<Chat, Reasoner, Free, Free>>

\* What the probe worker stores: a success, a failure of the first probe, a
\* failure after successes, and a success that has become old.
Healthy == [age |-> 10, ttfb_p50_ms |-> 300, throughput_hint_qps |-> 40,
            success_rate |-> 10, degraded |-> FALSE]
FirstProbeFailed == [age |-> 10, ttfb_p50_ms |-> 9999, throughput_hint_qps |-> 0,
                     success_rate |-> 0, degraded |-> TRUE]
ThenFailed == [age |-> 10, ttfb_p50_ms |-> 3209, throughput_hint_qps |-> 20,
               success_rate |-> 7, degraded |-> TRUE]
Stale == [Healthy EXCEPT !.age = 200]

MCSignalMaps ==
    {<<s1, s2, s3, None>> : s1 \in {None, Healthy, FirstProbeFailed, ThenFailed, Stale},
                            s2 \in {None, FirstProbeFailed}, s3 \in {None, Healthy}}

MCRequests ==
    {[provider_allowlist |-> lists[1], provider_denylist |-> lists[2],
      capability_requirements |-> needs, task_type |-> "chat", language |-> size[2],
      input_chars |-> size[1], expected_output_tokens |-> 10,
      context_window_tokens |-> size[3], budget_limit |-> budget, latency_slo_ms |-> slo,
      throughput_hint_qps |-> hint] :
        lists \in {<<{}, {}>>, <<{"lab"}, {}>>, <<{}, {"lab"}>>},
        needs \in {{}, {"reasoning"}},
        size \in {<<1, "zh", 1>>, <<50, "en", 30>>},
        budget \in {0, 3000000, 40000000},
        slo \in {None, 500},
        hint \in {0, 20, 60}}

Balanced == [weights |-> [token_cost |-> 35, qps |-> 15, latency |-> 25, accuracy |-> 25],
             max_candidates |-> 2, freshness_penalty |-> 1200, degraded_penalty |-> 1800,
             fallback_bonus |-> 500]
LatencyFirst == [weights |-> [token_cost |-> 15, qps |-> 15, latency |-> 45, accuracy |-> 25],
                 max_candidates |-> 1, freshness_penalty |-> 1000, degraded_penalty |-> 2000,
                 fallback_bonus |-> 400]
MCPolicies == {Balanced, LatencyFirst}

MCBaseline == [token_cost |-> 2000, qps |-> 40, latency |-> 800, accuracy |-> 80]
=============================================================================
