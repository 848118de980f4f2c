----------------------------- MODULE MCLDaq -----------------------------
(* The small instances of LDaq that TLC checks. *)
EXTENDS LDaq, TLC

CONSTANTS h1, h2

(* The hosts of DIF cards are interchangeable. *)
Symmetry == Permutations(DifServers)
=============================================================================
