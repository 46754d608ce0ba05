------------------------------ MODULE MCAppRun ------------------------------
(* Model-checking instance of AppRun. *)
EXTENDS AppRun
=============================================================================
