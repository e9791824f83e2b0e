----------------------------- MODULE MCVerbatim -----------------------------
(* Model-checking instance of Verbatim. *)
EXTENDS Verbatim

=============================================================================
