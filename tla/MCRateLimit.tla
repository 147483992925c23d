---------------------------- MODULE MCRateLimit ----------------------------
(* RateLimit for TLC. *)
EXTENDS RateLimit, TLC

\* Merchants are interchangeable.
MerchantSymmetry == Permutations(Merchants)
=============================================================================
