---------------------------- MODULE MCRateLimit ----------------------------
(* Model-checking instance of RateLimit. *)
EXTENDS RateLimit, TLC

(* With two ticks to the microsecond: a token every 1.5 microseconds in bursts
   of one, which the row truncates to one microsecond, and every half
   microsecond in bursts of two, which the row rounds up to one. *)
MCLimits == {[every |-> 3, burst |-> 1], [every |-> 1, burst |-> 2]}
Symmetry == Permutations(Requests) \cup Permutations(Instances)
=============================================================================
