--------------------------- MODULE MCSignalStore ---------------------------
(* One model whose probes fail or answer, late or never, and a steady one. *)
EXTENDS SignalStore

MCTargets == <<"flaky", "steady">>

Probe(success, ttfb) == [success |-> success, ttfb_ms |-> ttfb]

MCResultsOf ==
    [flaky |-> {Probe(TRUE, 300), Probe(FALSE, 700), Probe(FALSE, NoChunk), Probe(TRUE, NoChunk), Probe(TRUE, 20000)},
     steady |-> {Probe(TRUE, 410)}]
=============================================================================
