---------------------------- MODULE MCLDIFServer ----------------------------
(* The threads are interchangeable; the cards are not, the handlers take   *)
(* them in the order of their numbers.                                     *)
EXTENDS LDIFServer, TLC

CONSTANTS t1, t2

Symmetry == Permutations(Threads)
=============================================================================
