-------------------------- MODULE MCPaymentService --------------------------
(* PaymentService for TLC, and its refinement of OncePerKey. *)
EXTENDS PaymentService, TLC

TwoProviders == <<"p1", "p2">>

\* Requests are interchangeable, and so are fingerprints.
Symmetry == Permutations(Requests) \cup Permutations(Fingerprints)
=============================================================================
