----------------------------- MODULE MCRouting -----------------------------
(* Routing for TLC: three providers; a success is fast, a failure slow. *)
EXTENDS Routing, TLC

SlotSymmetry == Permutations(Slots)

ThreeProviders == <<"stripe", "adyen", "razorpay">>

FastOrFailed == {[ok |-> TRUE, latency |-> 1], [ok |-> FALSE, latency |-> 2]}

Default == [success |-> 1, latency |-> 1, load |-> 1, recent_failure |-> 0]

\* Every strategy, and composite also with failures emphasised.
SixPolicies ==
    {<<st, Default>> : st \in {"round_robin", "weighted_round_robin", "lowest_latency",
                                "highest_success_rate", "composite"}}
    \cup {<<"composite", [success |-> 0, latency |-> 0, load |-> 1, recent_failure |-> 2]>>}
=============================================================================
