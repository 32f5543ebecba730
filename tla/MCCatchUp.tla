----------------------------- MODULE MCCatchUp -----------------------------
(* A small instance of CatchUp. *)
EXTENDS CatchUp

=============================================================================
