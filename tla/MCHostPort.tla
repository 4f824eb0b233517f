----------------------------- MODULE MCHostPort -----------------------------
(* Two parameters of two values.                                           *)
EXTENDS HostPort

MCValues == {0, 1}
=============================================================================
