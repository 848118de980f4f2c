----------------------------- MODULE MCShmProxy -----------------------------
(* Instances of ShmProxy for TLC.                                          *)
EXTENDS ShmProxyRefinement, TLC

CONSTANTS d1, d2

(* The sources are interchangeable.                                        *)
Symmetry == Permutations({d1, d2})
=============================================================================
