---------------------------- MODULE MCClientLoop ----------------------------
(* An instance of ClientLoop. *)
EXTENDS ClientLoop
=============================================================================
