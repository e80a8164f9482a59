--------------------------- MODULE MCDepotServer ---------------------------
(***************************************************************************)
(* Small depots for TLC: what the clients send.                            *)
(***************************************************************************)
EXTENDS DepotServer, TLC

CONSTANTS c1, c2, c3

\* One client sends status requests, the others transfers.
OneStatus == (c1 :> {0}) @@ (c2 :> {1}) @@ (c3 :> {1})

\* Every client sends both.
Both == [c \in Conns |-> {0, 1}]
=============================================================================
