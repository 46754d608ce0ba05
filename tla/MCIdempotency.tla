--------------------------- MODULE MCIdempotency ---------------------------
(* Model-checking instances of Idempotency: requests and fingerprints are
   interchangeable model values. *)
EXTENDS Idempotency, TLC

Symmetry == Permutations(Requests) \cup Permutations(Fingerprints)
=============================================================================
