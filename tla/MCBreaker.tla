----------------------------- MODULE MCBreaker ------------------------------
(***************************************************************************)
(* Three callers: two can reach the threshold together while a third is    *)
(* still in a call that began before.                                      *)
(***************************************************************************)
EXTENDS CircuitBreaker

CONSTANTS c1, c2, c3

MCCaller == {c1, c2, c3}
=============================================================================
