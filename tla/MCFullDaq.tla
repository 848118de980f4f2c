---------------------------- MODULE MCFullDaq ----------------------------
(* The small instance of FullDaq that TLC checks: each server is a string,  *)
(* because actions of PostDb, PostTdc and the like tell them apart.         *)
EXTENDS FullDaq

CONSTANTS h1
=============================================================================
