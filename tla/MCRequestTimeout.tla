-------------------------- MODULE MCRequestTimeout --------------------------
(* Model-checking instance of RequestTimeout. *)
EXTENDS RequestTimeout
=============================================================================
