------------------------------ MODULE MCOutbox ------------------------------
(* Outbox for TLC.                                                          *)
EXTENDS Outbox, TLC

WorkerSymmetry == Permutations(Workers)

\* Two transactions that overlap: one stamps its two events around the event of
\* the other, and either may commit first.
Overlapping == << {1, 3}, {2} >>
=============================================================================
