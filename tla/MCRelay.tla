------------------------------ MODULE MCRelay ------------------------------
(* A small instance of Relay for TLC: the connections are alike. *)
EXTENDS Relay, TLC

Symmetric == Permutations(Links)
=============================================================================
