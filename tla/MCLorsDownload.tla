--------------------------- MODULE MCLorsDownload ---------------------------
(***************************************************************************)
(* Small downloads for TLC: which mappings cover which block, and where    *)
(* they are stored.                                                        *)
(***************************************************************************)
EXTENDS LorsDownload, TLC

CONSTANTS d1, d2, m1, m2, m3

\* m1 and m3 are replicas on depot d1, m2 on depot d2.
MCDepotOf == (m1 :> d1) @@ (m2 :> d2) @@ (m3 :> d1)

\* Two replicas of the first block, one of the next two, none of the rest.
Striped == [b \in Blocks |->
    CASE b = 1 -> {m1, m2} [] b = 2 -> {m1} [] b = 3 -> {m2} [] OTHER -> {}]

\* Two full copies of the file on two depots.
Mirrored == [b \in Blocks |-> {m1, m2}]

\* Negative parameters of the call: no cap per depot, default progress number.
Unset == -1
=============================================================================
