----------------------------- MODULE MCRpcDaq -----------------------------
(* Three cards on two hosts; the two cards of one host are interchangeable. *)
EXTENDS RpcDaq, TLC

CONSTANTS h1, h2, c1, c2, c3

Buses == [c \in {c1, c2, c3} |-> IF c = c3 THEN h2 ELSE h1]

Symmetry == Permutations({c1, c2})
=============================================================================
