---------------------------- MODULE MCLorsStore ----------------------------
(* Instances of LorsStore for TLC.                                         *)
EXTENDS LorsStore

CONSTANTS d1, d2

TwoDepots == <<d1, d2>>
=============================================================================
