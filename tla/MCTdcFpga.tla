--------------------------- MODULE MCTdcFpga ---------------------------
(* The small instances of TdcFpga that TLC checks. *)
EXTENDS TdcFpga

(* Trigger counts 0, 1, 2: the wrap through zero included. *)
MCGtcs == 0 .. 2
=============================================================================
