------------------------ MODULE LorsMappings_proofs -------------------------
(***************************************************************************)
(* What trimming does to the bytes a set covers, for every set of mappings *)
(* and every range.                                                        *)
(***************************************************************************)
EXTENDS LorsMappings, FiniteSetTheorems, WellFoundedInduction, TLAPS

\* One mapping: _lorsDoTrim leaves exactly the bytes outside of the range.
LEMMA CutCover ==
    ASSUME NEW A, NEW m \in Mappings(A), NEW off \in Nat, NEW len \in Nat \ {0},
           m.off < off + len, off < End(m)
    PROVE  Cover(Cut(m, off, len)) = Positions(m) \ (off .. off + len - 1)
<1> DEFINE R == off .. off + len - 1
<1>0. m.off \in Nat /\ m.len \in Nat \ {0} /\ m.at \in Nat /\ End(m) = m.off + m.len
  BY DEF Mappings, End
<1>1. ASSUME m.off < off
      PROVE  Positions(Front(m, off)) = m.off .. off - 1
  BY <1>0, <1>1 DEF Front, Positions, End, Mappings
<1>2. ASSUME off + len < End(m)
      PROVE  Positions(Back(m, off + len)) = off + len .. End(m) - 1
  BY <1>0, <1>2 DEF Back, Positions, End, Mappings
<1>3. CASE m.off < off /\ off + len < End(m)
  <2>1. Cut(m, off, len) = {Front(m, off), Back(m, off + len)}
    BY <1>3 DEF Cut
  <2>2. Cover(Cut(m, off, len)) = Positions(Front(m, off)) \cup Positions(Back(m, off + len))
    BY <2>1 DEF Cover
  <2>3. \A p : p \in Cover(Cut(m, off, len)) <=>
                   p \in (m.off .. off - 1) \cup (off + len .. End(m) - 1)
    BY <2>2, <1>1, <1>2, <1>3
  <2>4. \A p : p \in (m.off .. off - 1) \cup (off + len .. End(m) - 1) <=>
                   p \in Positions(m) \ R
    BY <1>0, <1>3 DEF Positions
  <2> QED BY <2>3, <2>4
<1>4. CASE m.off < off /\ ~(off + len < End(m))
  <2>1. Cut(m, off, len) = {Front(m, off)}
    BY <1>4 DEF Cut
  <2>2. Cover(Cut(m, off, len)) = Positions(Front(m, off))
    BY <2>1 DEF Cover
  <2>3. \A p : p \in m.off .. off - 1 <=> p \in Positions(m) \ R
    BY <1>0, <1>4 DEF Positions
  <2> QED BY <2>2, <2>3, <1>1, <1>4
<1>5. CASE ~(m.off < off) /\ off + len < End(m)
  <2>1. Cut(m, off, len) = {Back(m, off + len)}
    BY <1>5 DEF Cut
  <2>2. Cover(Cut(m, off, len)) = Positions(Back(m, off + len))
    BY <2>1 DEF Cover
  <2>3. \A p : p \in off + len .. End(m) - 1 <=> p \in Positions(m) \ R
    BY <1>0, <1>5 DEF Positions
  <2> QED BY <2>2, <2>3, <1>2, <1>5
<1>6. CASE ~(m.off < off) /\ ~(off + len < End(m))
  <2>1. Cover(Cut(m, off, len)) = {}
    BY <1>6 DEF Cut, Cover
  <2> QED BY <2>1, <1>0, <1>6 DEF Positions
<1> QED BY <1>3, <1>4, <1>5, <1>6

\* A mapping that lorsQuery does not pick has no byte in the range.
LEMMA UnqueriedDisjoint ==
    ASSUME NEW A, NEW S \in SUBSET Mappings(A), NEW off \in Nat, NEW len \in Nat \ {0},
           NEW m \in S \ Query(S, off, len)
    PROVE  Positions(m) \cap (off .. off + len - 1) = {}
BY DEF Query, Positions, End, Mappings

\* lorsSetTrim of a range (LORS_TRIM_ALL) takes exactly the bytes of the range
\* from a set, whatever mappings overlap it and however they do.
THEOREM TrimCover ==
    ASSUME NEW A, NEW S \in SUBSET Mappings(A), NEW off \in Nat, NEW len \in Nat \ {0}
    PROVE  Cover(Trim(S, off, len)) = Cover(S) \ (off .. off + len - 1)
<1> DEFINE R == off .. off + len - 1
           Q == Query(S, off, len)
<1>1. ASSUME NEW m \in Q
      PROVE  Cover(Cut(m, off, len)) = Positions(m) \ R
  <2>1. m \in Mappings(A) /\ m.off < off + len /\ off < End(m)
    BY DEF Query
  <2> QED BY <2>1, CutCover
<1>2. ASSUME NEW m \in S \ Q
      PROVE  Positions(m) = Positions(m) \ R
  BY <1>2, UnqueriedDisjoint
<1>3. Q \subseteq S
  BY DEF Query
<1>4. ASSUME NEW p
      PROVE  p \in Cover(Trim(S, off, len)) <=> p \in Cover(S) \ R
  <2>1. p \in Cover(Trim(S, off, len)) <=>
          \/ \E m \in S \ Q : p \in Positions(m)
          \/ \E m \in Q : p \in Cover(Cut(m, off, len))
    BY DEF Trim, Cover
  <2>2. p \in Cover(S) \ R <=> \E m \in S : p \in Positions(m) \ R
    BY DEF Cover
  <2>3. (\E m \in S \ Q : p \in Positions(m)) <=> (\E m \in S \ Q : p \in Positions(m) \ R)
    BY <1>2
  <2>4. (\E m \in Q : p \in Cover(Cut(m, off, len))) <=> (\E m \in Q : p \in Positions(m) \ R)
    BY <1>1
  <2> HIDE DEF Q, R
  <2>5. (\E m \in S : p \in Positions(m) \ R) <=>
          \/ \E m \in S \ Q : p \in Positions(m) \ R
          \/ \E m \in Q : p \in Positions(m) \ R
    BY <1>3
  <2> QED BY <2>1, <2>2, <2>3, <2>4, <2>5
<1> QED BY <1>4

\* What is cut from mappings of a set are mappings again: no piece is empty, and
\* none starts in front of its array.
THEOREM TrimType ==
    ASSUME NEW A, NEW S \in SUBSET Mappings(A), NEW off \in Nat, NEW len \in Nat \ {0}
    PROVE  Trim(S, off, len) \in SUBSET Mappings(A)
<1>1. ASSUME NEW m \in Query(S, off, len), NEW c \in Cut(m, off, len)
      PROVE  c \in Mappings(A)
  <2>1. m \in Mappings(A) /\ m.off < off + len /\ off < End(m)
    BY DEF Query
  <2>2. m.array \in A /\ m.off \in Nat /\ m.len \in Nat \ {0} /\ m.at \in Nat
    BY <2>1 DEF Mappings
  <2>3. ASSUME m.off < off PROVE Front(m, off) \in Mappings(A)
    BY <2>1, <2>2, <2>3 DEF Front, Mappings
  <2>4. ASSUME off + len < End(m) PROVE Back(m, off + len) \in Mappings(A)
    <3>1. /\ off + len \in Nat /\ End(m) - (off + len) \in Nat \ {0}
          /\ off + len - m.off \in Nat
      BY <2>1, <2>2, <2>4 DEF End
    <3> QED BY <2>2, <3>1 DEF Mappings, Back
  <2> QED BY <2>3, <2>4 DEF Cut
<1>2. S \ Query(S, off, len) \subseteq Mappings(A)
  OBVIOUS
<1> QED BY <1>1, <1>2 DEF Trim

\* The first cut of a mapping leaves every byte at its place in the array; it is
\* only a mapping whose front was cut before that _lorsDoTrim addresses wrongly.
THEOREM FirstCutAddress ==
    ASSUME NEW A, NEW m \in Mappings(A), NEW off \in Nat, NEW len \in Nat \ {0},
           m.at = 0, NEW c \in Cut(m, off, len)
    PROVE  c.at - c.off = m.at - m.off
<1>1. m.off \in Nat
  BY DEF Mappings
<1>2. CASE c = Front(m, off)
  BY <1>2 DEF Front, Mappings
<1>3. CASE c = Back(m, off + len)
  BY <1>1, <1>3 DEF Back
<1> QED BY <1>2, <1>3 DEF Cut

-----------------------------------------------------------------------------
(* The nodes that a download is cut into                                   *)

\* The shortest of some lengths is one of them, and none is shorter.
LEMMA ShortestIsLeast ==
    ASSUME NEW N \in SUBSET Nat, N # {}
    PROVE  Shortest(N) \in N /\ \A k \in N : Shortest(N) <= k
<1> DEFINE R == {ss \in Nat \X Nat : ss[1] < ss[2]}
<1>1. IsWellFoundedOn(R, Nat)
  BY NatLessThanWellFounded DEF OpToRel
<1>2. PICK n \in N : \A k \in N : <<k, n>> \notin R
  <2> HIDE DEF R
  <2> QED BY <1>1, WFMin
<1>3. ASSUME NEW k \in N
      PROVE  n <= k
  <2>1. ~(k < n)
    <3>1. <<k, n>> \in Nat \X Nat /\ <<k, n>>[1] = k /\ <<k, n>>[2] = n
      OBVIOUS
    <3> QED BY <3>1, <1>2
  <2> QED BY <2>1
<1> QED BY <1>3 DEF Shortest

\* The next start or end of a mapping is in front of the position.
LEMMA BoundsPositive ==
    ASSUME NEW A, NEW S \in SUBSET Mappings(A), NEW pos \in Nat, NEW len \in Nat \ {0}
    PROVE  Bounds(S, pos, len) \in SUBSET (Nat \ {0})
<1>1. ASSUME NEW m \in Holders(S, pos)
      PROVE  End(m) - pos \in Nat \ {0}
  BY DEF Holders, Positions, End, Mappings
<1>2. ASSUME NEW m \in {k \in S : pos < k.off}
      PROVE  m.off - pos \in Nat \ {0}
  BY DEF Mappings
<1> QED BY <1>1, <1>2 DEF Bounds

\* A node of a download is not empty, does not pass the length asked for, and
\* all of its bytes have the same replicas: whichever of them a worker loads, it
\* has the whole node (_lorsSetDLNode).
THEOREM NodeSound ==
    ASSUME NEW A, NEW S \in SUBSET Mappings(A), NEW pos \in Nat, NEW len \in Nat \ {0}
    PROVE  /\ NodeLength(S, pos, len) \in 1 .. len
           /\ \A p \in pos .. pos + NodeLength(S, pos, len) - 1 : Holders(S, p) = Holders(S, pos)
<1> DEFINE n == NodeLength(S, pos, len)
<1>1. Bounds(S, pos, len) \in SUBSET (Nat \ {0}) /\ len \in Bounds(S, pos, len)
  <2>1. len \in Bounds(S, pos, len)
    BY DEF Bounds
  <2> QED BY <2>1, BoundsPositive
<1>2. n \in Bounds(S, pos, len) /\ \A k \in Bounds(S, pos, len) : n <= k
  BY <1>1, ShortestIsLeast DEF NodeLength
<1>3. n \in 1 .. len
  BY <1>1, <1>2
<1>4. ASSUME NEW p \in pos .. pos + n - 1, NEW m \in S
      PROVE  p \in Positions(m) <=> pos \in Positions(m)
  <2>1. m.off \in Nat /\ End(m) \in Nat /\ Positions(m) = m.off .. End(m) - 1
    BY DEF Mappings, End, Positions
  <2>2. CASE pos \in Positions(m)
    <3>1. End(m) - pos \in Bounds(S, pos, len)
      BY <2>2 DEF Bounds, Holders
    <3> QED BY <3>1, <2>1, <2>2, <1>2, <1>3
  <2>3. CASE pos < m.off
    <3>1. m.off - pos \in Bounds(S, pos, len)
      BY <2>3 DEF Bounds
    <3> QED BY <3>1, <2>1, <2>3, <1>2, <1>3
  <2>4. CASE pos >= End(m)
    BY <2>1, <2>4, <1>3
  <2> QED BY <2>1, <2>2, <2>3, <2>4
<1>5. ASSUME NEW p \in pos .. pos + n - 1
      PROVE  Holders(S, p) = Holders(S, pos)
  BY <1>4 DEF Holders
<1> QED BY <1>3, <1>5

-----------------------------------------------------------------------------
(* The logical length of an exnode                                         *)

\* Some mapping of an exnode ends last.
LEMMA LastEnd ==
    ASSUME NEW A, NEW S \in SUBSET Mappings(A), IsFiniteSet(S), S # {}
    PROVE  \E m \in S : \A k \in S : End(k) <= End(m)
<1> DEFINE Later(m) == {k \in S : End(m) < End(k)}
           N == {Cardinality(Later(m)) : m \in S}
<1>1. \A m \in S : End(m) \in Nat
  BY DEF End, Mappings
<1>2. ASSUME NEW m \in S
      PROVE  IsFiniteSet(Later(m)) /\ Cardinality(Later(m)) \in Nat
  <2>1. Later(m) \in SUBSET S
    OBVIOUS
  <2> HIDE DEF Later
  <2> QED BY <2>1, FS_Subset, FS_CardinalityType
<1>3. N \in SUBSET Nat /\ N # {}
  BY <1>2
<1>4. PICK n \in N : \A k \in N : n <= k
  <2> HIDE DEF N
  <2> QED BY <1>3, ShortestIsLeast
<1>5. PICK m \in S : n = Cardinality(Later(m))
  OBVIOUS
<1>6. ASSUME NEW k \in S, End(m) < End(k)
      PROVE  FALSE
  <2>1. Later(k) \in SUBSET Later(m) /\ k \in Later(m) /\ k \notin Later(k)
    BY <1>1, <1>6
  <2>2. Cardinality(Later(m)) <= Cardinality(Later(k))
    BY <1>4, <1>5
  <2>3. IsFiniteSet(Later(m)) /\ Cardinality(Later(m)) \in Nat /\ Cardinality(Later(k)) \in Nat
    BY <1>2
  <2> HIDE DEF Later
  <2>4. /\ Cardinality(Later(k)) <= Cardinality(Later(m))
        /\ Cardinality(Later(k)) = Cardinality(Later(m)) => Later(k) = Later(m)
    BY <2>1, <2>3, FS_Subset
  <2> QED BY <2>1, <2>2, <2>3, <2>4
<1> QED BY <1>1, <1>6

\* The length of an exnode is where the last of its mappings ends: no byte that a
\* mapping holds is behind it (lorsSetFindMaxlength).
THEOREM MaxlengthIsLast ==
    ASSUME NEW A, NEW S \in SUBSET Mappings(A), IsFiniteSet(S), S # {}
    PROVE  /\ FindMaxlength(S) \in Nat \ {0}
           /\ \E m \in S : FindMaxlength(S) = End(m)
           /\ \A p \in Cover(S) : p < FindMaxlength(S)
<1> DEFINE e == FindMaxlength(S)
<1>1. \E x \in {End(m) : m \in S} : \A m \in S : End(m) <= x
  BY LastEnd
<1>2. e \in {End(m) : m \in S} /\ \A m \in S : End(m) <= e
  BY <1>1 DEF FindMaxlength
<1> HIDE DEF e
<1>3. PICK m \in S : e = End(m)
  BY <1>2
<1>4. End(m) \in Nat \ {0}
  BY DEF End, Mappings
<1>5. ASSUME NEW k \in S, NEW p \in Positions(k)
      PROVE  p < e
  <2>1. k.off \in Nat /\ End(k) \in Nat
    BY DEF End, Mappings
  <2>2. p \in Int /\ p < End(k)
    BY <2>1 DEF Positions
  <2> QED BY <1>2, <1>3, <1>4, <2>1, <2>2
<1>6. \A p \in Cover(S) : p < e
  BY <1>5 DEF Cover
<1> QED BY <1>3, <1>4, <1>6 DEF e
=============================================================================
