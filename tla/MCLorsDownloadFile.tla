------------------------ MODULE MCLorsDownloadFile --------------------------
(* lors_download on a file of six bytes.                                   *)
EXTENDS LorsDownloadFile

Map(a, o, l, t) == [array |-> a, off |-> o, len |-> l, at |-> t]

\* Two arrays, of which one has lost its front; replicas that overlap; a hole.
MCExnodes ==
    {{Map(1, 0, 4, 0), Map(2, 4, 2, 3)},
     {Map(1, 0, 6, 1), Map(2, 0, 3, 0), Map(3, 2, 3, 2)},
     {Map(1, 0, 2, 0), Map(2, 4, 2, 0)}}

MCArgs == [off : {0, 1}, len : {0, 3}] \cup {[off |-> 2, len |-> 4]}
=============================================================================
