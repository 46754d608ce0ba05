----------------------------- MODULE MCSettings -----------------------------
(* Model-checking instance of Settings. *)
EXTENDS Settings
=============================================================================
