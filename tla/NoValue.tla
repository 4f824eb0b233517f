------------------------------- MODULE NoValue -------------------------------
(* What a register, a port or a queue holds when it holds nothing. *)

CONSTANT NONE
=============================================================================
