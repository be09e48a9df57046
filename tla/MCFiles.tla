------------------------------- MODULE MCFiles -------------------------------
(* An instance of Files. *)
EXTENDS Files
=============================================================================
