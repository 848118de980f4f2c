--------------------------- MODULE MCTdcManager ---------------------------
(* The small instances of TdcManager that TLC checks. *)
EXTENDS TdcManager

(* A board with a frame to fall out of step with and one to be caught in    *)
(* again, beside another board and a slow control answer.                   *)
MCFrames == [s \in Sockets |-> IF s = Tdc1 THEN 2 ELSE 1]
=============================================================================
