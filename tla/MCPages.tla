------------------------------ MODULE MCPages ------------------------------
(* Three networks, of which the sector holds two and one has no name; two  *)
(* clients, whose answers may alternate.                                   *)
EXTENDS Pages, TLC

CONSTANTS Home, Cafe, Hidden, Key, c1, c2

MCSymmetry == Permutations({Home, Cafe}) \cup Permutations({c1, c2})
=============================================================================
