---------------------------- MODULE MCLogArchive ----------------------------
(* Model-checking instance of LogArchive. *)
EXTENDS LogArchive
=============================================================================
