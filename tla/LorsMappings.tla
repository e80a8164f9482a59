---------------------------- MODULE LorsMappings ----------------------------
(***************************************************************************)
(* Mappings, and sets of them: what lorsQuery, lorsSetTrim, lorsSetMerge   *)
(* and lorsSetFindMaxlength do to the mappings of a set or of an exnode.   *)
(*                                                                         *)
(* A mapping [array, off, len, at] says that the bytes off .. off+len-1 of *)
(* a file (exnode_offset, logical_length) are in a byte array from its     *)
(* byte at on (alloc_offset).  A set is its mappings: no two have the same *)
(* array and the same offset, so that the pointers the code compares need  *)
(* no name.                                                                *)
(***************************************************************************)
EXTENDS Integers, FiniteSets

Mappings(A) == [array : A, off : Nat, len : Nat \ {0}, at : Nat]

End(m) == m.off + m.len
Positions(m) == m.off .. End(m) - 1
Cover(S) == UNION {Positions(m) : m \in S}
Holders(S, p) == {m \in S : p \in Positions(m)}

\* The mappings that lorsQuery and lorsSetTrim pick for a range: all those that
\* overlap it.
Query(S, off, len) == {m \in S : m.off < off + len /\ off < End(m)}

\* _lorsDoTrim with LORS_TRIM_ALL: what is left of a mapping in front of a cut
\* and behind it.  The offset in the array is assigned, not advanced.
Front(m, off) == [m EXCEPT !.len = off - m.off]
BackAtStart(m, end) == [m EXCEPT !.len = End(m) - end, !.at = end - m.off]
Back(m, end) ==
    [array |-> m.array, off |-> end, len |-> End(m) - end, at |-> end - m.off]

Cut(m, off, len) ==
    (IF m.off < off THEN {Front(m, off)} ELSE {})
        \cup (IF off + len < End(m) THEN {Back(m, off + len)} ELSE {})

\* lorsSetTrim with LORS_TRIM_ALL on a set.
Trim(S, off, len) ==
    (S \ Query(S, off, len)) \cup UNION {Cut(m, off, len) : m \in Query(S, off, len)}

\* lorsSetFindMaxlength.
FindMaxlength(S) == IF S = {} THEN 0 ELSE CHOOSE e \in {End(m) : m \in S} :
                                             \A m \in S : End(m) <= e

\* _lorsSetDLNode: from a position to the next start or end of a mapping, and no
\* further than len.
Bounds(S, pos, len) ==
    {End(m) - pos : m \in Holders(S, pos)}
        \cup {m.off - pos : m \in {k \in S : pos < k.off}} \cup {len}

Longest(N) == CHOOSE n \in N : \A k \in N : k <= n
Shortest(N) == CHOOSE n \in N : \A k \in N : n <= k

NodeLength(S, pos, len) == Shortest(Bounds(S, pos, len))
=============================================================================
