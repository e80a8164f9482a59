----------------------------- MODULE MCLorsCopy ----------------------------
(* Instances of LorsCopy for TLC: a block of two parts and a shorter one,  *)
(* which lies in the node of the second part.                              *)
EXTENDS LorsCopy

CONSTANTS d1, d2, d3

MCCuts == {0, 1}
=============================================================================
