-------------------------- MODULE LorsFiles_proofs --------------------------
(***************************************************************************)
(* Proofs about an exnode file and its tools, for every file, buffer and   *)
(* block size, and any number of updates, trims, failures and kills.       *)
(***************************************************************************)
EXTENDS LorsFiles, LorsMappings_proofs

(* The inductive invariant. *)

\* The mappings hold the bytes of C, each of them once.
Tiles(S, C) ==
    /\ \A m, k \in S : m # k => Positions(m) \cap Positions(k) = {}
    /\ Cover(S) = C

\* The mappings lie in the file, and their arrays, which are in L, hold what they
\* should where a mapping has kept its front.
Placed(A, m) == m.at = 0 => \A p \in Positions(m) : A[m.array].bytes[p - m.off + 1] = p
Sound(S, A, L) == \A m \in S : Placed(A, m) /\ End(m) <= FileLen /\ m.array \in L
Live == alive \cup excused

\* They hold the version that W says of their bytes.
Versions(S, A, W) == \A m \in S : \A p \in Positions(m) : A[m.array].version = W[p]

FileInv ==
    /\ torn => file = {}
    /\ file # {} => Tiles(file, Bytes \ gone)
    /\ Sound(file, arrays, Live) /\ Versions(file, arrays, want)

\* Nothing has been changed or trimmed before an upload is through.
Untouched ==
    /\ arrays = << >> \/ tool = "upload" =>
          version = 0 /\ gone = {} /\ want = [p \in Bytes |-> 0]
    /\ tool \in {"none", "upload", "update"} => doomed = {}
    /\ tool \in {"update", "trim"} => arrays # << >>

Idle ==
    pc = "idle" =>
        /\ tool = "none" /\ exnode = {} /\ set = {} /\ maxlen = 0 /\ fpos = 0
        /\ fileJob = NoJob /\ jobs = {} /\ new = {} /\ todo = {} /\ kept = {}
        /\ opts = {} /\ dead = {}

\* Which tool is where.
ToolPcs ==
    /\ pc \in {"first", "loop", "refill", "join"} => tool = "upload"
    /\ pc = "stat" => tool = "trim"
    /\ pc = "store" => tool \in {"upload", "update"}
    /\ pc \in {"trim", "write"} => tool # "none"
    /\ tool # "upload" => ~fileJob.reading
    /\ tool = "upload" /\ pc # "write" => file = {} /\ ~torn
    /\ tool # "upload" /\ pc \notin {"write", "idle"} => file # {} /\ ~torn

Changed == range.off .. range.off + range.len - 1

\* The part that is stored, as it is while it is in hand.
Handing == pc \in {"store", "trim", "refill"}
InHand == IF Handing THEN ret ELSE 0

\* The reader's part begins behind the bytes stored and the part in hand.
ReaderInv ==
    tool = "upload" /\ pc \in {"first", "store", "trim", "refill", "join"} =>
        /\ fpos = maxlen + InHand + fileJob.n
        /\ \A i \in 0 .. fileJob.n - 1 : buf[fileJob.buf][i] = maxlen + InHand + i
        /\ ~fileJob.reading /\ fileJob.status = "success" => fileJob.n > 0
        /\ fileJob.status = "eof" => fpos = FileLen /\ fileJob.n = 0
        /\ fileJob.reading => fileJob.status = "success"
        /\ Handing => cur # fileJob.buf

\* The part in hand.
PartInv ==
    tool = "upload" /\ (pc = "loop" \/ Handing) =>
        /\ ret > 0 /\ maxlen + ret <= fpos
        /\ pc = "loop" => cur = fileJob.buf /\ fpos = maxlen + ret /\ ~fileJob.reading
        /\ \A i \in 0 .. ret - 1 : buf[cur][i] = maxlen + i
        /\ pc = "store" => range = [off |-> maxlen, len |-> ret]
        /\ pc = "trim" => range = [off |-> maxlen, len |-> ret]

\* The set of an upload: it ends where the part in hand begins.
UploadInv ==
    tool = "upload" /\ pc \in {"first", "loop", "store", "trim", "refill", "join"} =>
        /\ Tiles(set, 0 .. maxlen - 1) /\ Sound(set, arrays, Live) /\ Versions(set, arrays, want)
        /\ dead = {} /\ kept = {}
        /\ pc = "store" => \A m \in new, k \in set : m.array # k.array
        /\ pc = "trim" =>
              /\ opts = Restore
              /\ \A m \in todo : Covers(m) /\ \A k \in set : m.array # k.array

\* The mappings stored by now: blocks of the range that are no jobs any more.
NewInv ==
    pc = "store" =>
        /\ jobs \subseteq Blocks(range.len) /\ range.off + range.len <= FileLen
        /\ range.len > 0
        /\ Tiles(new, Cover(new)) /\ Sound(new, arrays, Live)
        /\ \A m \in new : /\ arrays[m.array].version = version
                          /\ \E b \in Blocks(range.len) \ jobs :
                                m.off = range.off + b /\ m.len = BlockLen(b, range.len)

\* An update: outside of the range, the mappings hold what the file holds.
UpdateInv ==
    tool = "update" =>
        /\ pc \in {"store", "trim", "write"} /\ range.off + range.len <= FileLen
        /\ range.len > 0 /\ dead = {}
        /\ pc = "store" =>
              /\ set = Query(file, range.off, range.len) /\ exnode = file \ set
              /\ todo = {} /\ kept = {}
        /\ pc = "trim" =>
              LET X == exnode \cup kept \cup todo
              IN  /\ set = {} /\ opts = UpdateTrim
                  /\ Tiles(X, Cover(X)) /\ Cover(X) \cup Changed = (Bytes \ gone) \cup Changed
                  /\ Sound(X, arrays, Live) /\ Versions(X, arrays, want)
                  /\ Cover(exnode \cup kept) \cap Changed = {}
                  /\ \A m \in todo : m \in Query(todo, range.off, range.len)
                  /\ Tiles(new, Changed) /\ Sound(new, arrays, Live)
                  /\ \A m \in new : arrays[m.array].version = version

\* lors_trim: what stays of the file.
Going(m) == m \in dead \/ "ALL" \in opts
Staying == exnode \cup kept \cup {m \in todo : ~Going(m)}
TrimInv ==
    tool = "trim" =>
        /\ pc \in {"stat", "trim", "write"} /\ new = {}
        /\ pc = "stat" =>
              /\ exnode = file \ set /\ set \subseteq file /\ "ALL" \notin opts
              /\ \A m \in set : End(m) <= maxlen
              /\ todo = {} /\ kept = {} /\ doomed = {}
        /\ pc = "trim" =>
              /\ set = {} /\ range.off = 0 /\ \A m \in todo : End(m) <= range.len
              /\ exnode \cup kept \cup todo \subseteq file
              /\ Cover(Staying) = Bytes \ (gone \cup doomed)
              /\ {"ALL", "DECR"} \subseteq opts => \A m \in todo : m.array \in excused

\* The exnode to be written.
Due == [p \in Bytes |-> IF p \in Renewed THEN version ELSE want[p]]
WriteInv ==
    pc = "write" =>
        /\ Tiles(exnode, (Bytes \ (gone \cup doomed)) \cup Renewed) /\ Sound(exnode, arrays, Live)
        /\ Versions(exnode, arrays, Due)

IInv ==
    /\ TypeOK /\ FileInv /\ Untouched /\ Idle /\ ToolPcs /\ ReaderInv /\ PartInv /\ UploadInv
    /\ NewInv /\ UpdateInv /\ TrimInv /\ WriteInv
-----------------------------------------------------------------------------
(* Sets of mappings, and the bytes they hold. *)

LEMMA FilesConstants ==
    /\ FileLen \in Nat \ {0} /\ BufSize \in Nat \ {0} /\ BlockSize \in Nat \ {0}
    /\ MaxUpdates \in Nat /\ MaxTrims \in Nat /\ MaxFailures \in Nat /\ MaxCrashes \in Nat
BY FilesAssumption

LEMMA Extent ==
    ASSUME NEW A, NEW m \in Mappings(A)
    PROVE  /\ m.array \in A /\ m.off \in Nat /\ m.len \in Nat \ {0} /\ m.at \in Nat
           /\ End(m) \in Nat /\ m.off < End(m) /\ m.off \in Positions(m)
           /\ \A p \in Positions(m) : p \in Nat /\ m.off <= p /\ p < End(m)
BY DEF Mappings, End, Positions

LEMMA TilesUnion ==
    ASSUME NEW S, NEW C, Tiles(S, C), NEW T, NEW D, Tiles(T, D), C \cap D = {}
    PROVE  Tiles(S \cup T, C \cup D)
<1>1. Cover(S \cup T) = C \cup D
  BY DEF Tiles, Cover
<1>2. ASSUME NEW m \in S, NEW k \in T PROVE Positions(m) \cap Positions(k) = {}
  <2>1. Positions(m) \subseteq C /\ Positions(k) \subseteq D
    BY DEF Tiles, Cover
  <2>. QED  BY <2>1
<1>3. \A m, k \in S \cup T : m # k => Positions(m) \cap Positions(k) = {}
  BY <1>2 DEF Tiles
<1>. QED  BY <1>1, <1>3 DEF Tiles

LEMMA TilesLess ==
    ASSUME NEW S, NEW C, Tiles(S, C), NEW T \in SUBSET S
    PROVE  Tiles(S \ T, C \ Cover(T)) /\ Tiles(T, Cover(T)) /\ Cover(T) \subseteq C
<1>1. ASSUME NEW p PROVE p \in Cover(S \ T) <=> p \in C \ Cover(T)
  <2>1. p \in C <=> \E m \in S : p \in Positions(m)
    BY DEF Tiles, Cover
  <2>2. p \in Cover(T) <=> \E m \in T : p \in Positions(m)
    BY DEF Cover
  <2>3. p \in Cover(S \ T) <=> \E m \in S \ T : p \in Positions(m)
    BY DEF Cover
  <2>4. \A m \in S \ T, k \in T : Positions(m) \cap Positions(k) = {}
    BY DEF Tiles
  <2>. QED  BY <2>1, <2>2, <2>3, <2>4
<1>2. Cover(S \ T) = C \ Cover(T)
  BY <1>1
<1>3. Cover(T) \subseteq C
  BY DEF Tiles, Cover
<1>. QED  BY <1>2, <1>3 DEF Tiles

LEMMA TilesOne == ASSUME NEW m PROVE Tiles({m}, Positions(m)) /\ Cover({m}) = Positions(m)
BY DEF Tiles, Cover

LEMMA TilesNone == Tiles({}, {}) /\ Cover({}) = {}
BY DEF Tiles, Cover

LEMMA QueryMeets ==
    ASSUME NEW A, NEW S \in SUBSET Mappings(A), NEW off \in Nat, NEW len \in Nat \ {0},
           NEW m \in S
    PROVE  m \in Query(S, off, len) <=> Positions(m) \cap (off .. off + len - 1) # {}
<1>1. ASSUME m \in Query(S, off, len) PROVE Positions(m) \cap (off .. off + len - 1) # {}
  <2>1. m.off \in Nat /\ End(m) \in Nat /\ m.off < End(m) /\ m.off < off + len /\ off < End(m)
    BY <1>1, Extent DEF Query
  <2>2. CASE m.off <= off
    <3>1. off \in Positions(m) /\ off \in off .. off + len - 1
      BY <2>1, <2>2 DEF Positions
    <3>. QED  BY <3>1
  <2>3. CASE off < m.off
    <3>1. m.off \in Positions(m) /\ m.off \in off .. off + len - 1
      BY <2>1, <2>3 DEF Positions
    <3>. QED  BY <3>1
  <2>. QED  BY <2>1, <2>2, <2>3
<1>. QED  BY <1>1, UnqueriedDisjoint

\* The pieces that a cut leaves of a mapping.
LEMMA CutPieces ==
    ASSUME NEW A, NEW m \in Mappings(A), NEW off \in Nat, NEW len \in Nat \ {0},
           m.off < off + len, off < End(m)
    PROVE  /\ Cut(m, off, len) \in SUBSET Mappings(A)
           /\ Tiles(Cut(m, off, len), Positions(m) \ (off .. off + len - 1))
           /\ \A c \in Cut(m, off, len) :
                 /\ c.array = m.array /\ End(c) <= End(m) /\ Positions(c) \subseteq Positions(m)
                 /\ c.at = 0 => m.at = 0 /\ c.off = m.off
<1>. DEFINE e == off + len
            f == Front(m, off)
            b == Back(m, e)
<1>1. m.array \in A /\ m.off \in Nat /\ m.len \in Nat \ {0} /\ m.at \in Nat /\ End(m) \in Nat
      /\ End(m) = m.off + m.len /\ e \in Nat
  BY Extent DEF End
<1>2. f = [array |-> m.array, off |-> m.off, len |-> off - m.off, at |-> m.at]
  BY DEF Front, Mappings
<1>3. b = [array |-> m.array, off |-> e, len |-> End(m) - e, at |-> e - m.off]
  BY DEF Back
<1>4. ASSUME m.off < off
      PROVE  f \in Mappings(A) /\ End(f) = off /\ f.array = m.array /\ f.at = m.at /\ f.off = m.off
  <2>1. off - m.off \in Nat \ {0}
    BY <1>1, <1>4
  <2>. QED  BY <1>1, <1>2, <2>1 DEF Mappings, End
<1>5. ASSUME e < End(m)
      PROVE  b \in Mappings(A) /\ End(b) = End(m) /\ b.array = m.array /\ b.at # 0 /\ b.off = e
  <2>1. End(m) - e \in Nat \ {0} /\ e - m.off \in Nat \ {0}
    BY <1>1, <1>5
  <2>. HIDE DEF e
  <2>2. b.off = e /\ b.len = End(m) - e /\ b.array = m.array /\ b.at = e - m.off
    BY <1>3
  <2>3. End(b) = End(m)
    BY <2>1, <2>2, <1>1 DEF End
  <2>4. b \in Mappings(A)
    BY <1>1, <1>3, <2>1 DEF Mappings
  <2>. QED  BY <2>1, <2>2, <2>3, <2>4
<1>6. \A c \in Cut(m, off, len) : (m.off < off /\ c = f) \/ (e < End(m) /\ c = b)
  BY DEF Cut
<1>. HIDE DEF f, b
<1>7. Cut(m, off, len) \in SUBSET Mappings(A)
  BY <1>4, <1>5, <1>6
<1>8. ASSUME NEW c \in Cut(m, off, len)
      PROVE  /\ c.array = m.array /\ End(c) <= End(m) /\ Positions(c) \subseteq Positions(m)
             /\ c.at = 0 => m.at = 0 /\ c.off = m.off
  <2>1. CASE m.off < off /\ c = f
    <3>1. End(c) = off /\ c.off = m.off /\ c.array = m.array /\ c.at = m.at
      BY <2>1, <1>4
    <3>2. Positions(c) \subseteq Positions(m)
      BY <3>1, <1>1 DEF Positions
    <3>. QED  BY <3>1, <3>2, <1>1
  <2>2. CASE e < End(m) /\ c = b
    <3>1. End(c) = End(m) /\ c.off = e /\ c.array = m.array /\ c.at # 0
      BY <2>2, <1>5
    <3>2. Positions(c) \subseteq Positions(m)
      BY <3>1, <1>1 DEF Positions
    <3>. QED  BY <3>1, <3>2, <1>1
  <2>. QED  BY <2>1, <2>2, <1>6
<1>9. ASSUME NEW c \in Cut(m, off, len), NEW d \in Cut(m, off, len), c # d
      PROVE  Positions(c) \cap Positions(d) = {}
  <2>1. /\ m.off < off /\ e < End(m)
        /\ (c = f /\ d = b) \/ (c = b /\ d = f)
    BY <1>6, <1>9
  <2>2. Positions(f) \cap Positions(b) = {}
    <3>1. End(f) = off /\ b.off = e
      BY <1>4, <1>5, <2>1
    <3>2. Positions(f) = f.off .. off - 1 /\ Positions(b) = e .. End(b) - 1
      BY <3>1 DEF Positions
    <3>3. \A p \in f.off .. off - 1 : p < off
      BY <1>4, <2>1, <1>1
    <3>4. \A p \in e .. End(b) - 1 : off <= p
      BY <1>1, <1>5, <2>1
    <3>. QED  BY <3>2, <3>3, <3>4, <1>1
  <2>. QED  BY <2>1, <2>2
<1>. QED  BY <1>7, <1>8, <1>9, CutCover DEF Tiles

\* Nothing is left of a mapping that lies in the range.
LEMMA CutInside ==
    ASSUME NEW A, NEW m \in Mappings(A), NEW off \in Nat, NEW len \in Nat,
           off <= m.off, End(m) <= off + len
    PROVE  Cut(m, off, len) = {}
<1>1. m.off \in Nat /\ End(m) \in Nat
  BY Extent
<1>. QED  BY <1>1 DEF Cut

LEMMA TilesCut ==
    ASSUME NEW A, NEW S \in SUBSET Mappings(A), Tiles(S, Cover(S)), NEW m \in S,
           NEW off \in Nat, NEW len \in Nat \ {0}, m.off < off + len, off < End(m)
    PROVE  LET T == (S \ {m}) \cup Cut(m, off, len)
           IN  Tiles(T, Cover(T)) /\ Cover(T) = Cover(S) \ (Positions(m) \cap off .. off + len - 1)
<1>. DEFINE R == off .. off + len - 1
            K == Cut(m, off, len)
            D == Positions(m) \ R
            C == Cover(S) \ Positions(m)
            T == (S \ {m}) \cup K
<1>1. Tiles(K, D)
  BY CutPieces
<1>2. Tiles(S \ {m}, C) /\ Positions(m) \subseteq Cover(S)
  <2>1. {m} \in SUBSET S
    OBVIOUS
  <2>. HIDE DEF C
  <2>2. Tiles(S \ {m}, Cover(S) \ Cover({m})) /\ Cover({m}) \subseteq Cover(S)
    BY <2>1, TilesLess
  <2>. QED  BY <2>2, TilesOne DEF C
<1>3. C \cap D = {}
  OBVIOUS
<1>4. Tiles(T, C \cup D)
  <2>. HIDE DEF C, D, K
  <2>. QED  BY <1>1, <1>2, <1>3, TilesUnion
<1>5. Cover(T) = C \cup D
  <2>. HIDE DEF C, D, T
  <2>. QED  BY <1>4 DEF Tiles
<1>6. C \cup D = Cover(S) \ (Positions(m) \cap R)
  BY <1>2
<1>. QED  BY <1>4, <1>5, <1>6

\* lorsSetFindMaxlength is the last end of the mappings.
LEMMA LastOf ==
    ASSUME NEW A, NEW S \in SUBSET Mappings(A), S # {}, NEW b \in Nat, \A m \in S : End(m) <= b
    PROVE  /\ FindMaxlength(S) \in Nat \ {0} /\ FindMaxlength(S) <= b
           /\ \A m \in S : End(m) <= FindMaxlength(S)
           /\ \E m \in S : End(m) = FindMaxlength(S)
<1>. DEFINE N == {b - End(m) : m \in S}
            E == {End(m) : m \in S}
            x == FindMaxlength(S)
<1>1. \A m \in S : End(m) \in Nat \ {0} /\ b - End(m) \in Nat
  BY Extent
<1>2. N \in SUBSET Nat /\ N # {}
  BY <1>1
<1>3. Shortest(N) \in N /\ \A k \in N : Shortest(N) <= k
  <2>. HIDE DEF N
  <2>. QED  BY <1>2, ShortestIsLeast
<1>4. PICK l \in S : Shortest(N) = b - End(l)
  BY <1>3
<1>5. \A m \in S : End(m) <= End(l)
  <2>1. \A m \in S : b - End(l) <= b - End(m)
    BY <1>3, <1>4
  <2>. QED  BY <2>1, <1>1
<1>6. \E e \in E : \A m \in S : End(m) <= e
  BY <1>5
<1>7. x \in E /\ \A m \in S : End(m) <= x
  BY <1>6 DEF FindMaxlength
<1>. HIDE DEF x
<1>8. PICK k \in S : x = End(k)
  BY <1>7
<1>. QED  BY <1>1, <1>7, <1>8 DEF x

LEMMA LastIn ==
    ASSUME NEW A, NEW S \in SUBSET Mappings(A), \A m \in S : End(m) <= FileLen
    PROVE  FindMaxlength(S) \in 0 .. FileLen /\ \A m \in S : End(m) <= FindMaxlength(S)
<1>1. CASE S = {}
  BY <1>1, FilesConstants DEF FindMaxlength
<1>2. CASE S # {}
  BY <1>2, LastOf, FilesConstants
<1>. QED  BY <1>1, <1>2

\* A set that holds everything in front of a place ends there.
LEMMA LastOfPrefix ==
    ASSUME NEW A, NEW S \in SUBSET Mappings(A), NEW n \in Nat, Cover(S) = 0 .. n - 1
    PROVE  FindMaxlength(S) = n
<1>1. \A m \in S : Positions(m) \subseteq 0 .. n - 1
  BY DEF Cover
<1>2. ASSUME NEW m \in S PROVE End(m) \in Nat /\ End(m) <= n
  <2>1. m.off \in Nat /\ m.len \in Nat \ {0} /\ End(m) \in Nat /\ End(m) = m.off + m.len
    BY Extent DEF End
  <2>2. End(m) - 1 \in Positions(m)
    BY <2>1 DEF Positions
  <2>3. End(m) - 1 \in 0 .. n - 1
    BY <1>1, <2>2
  <2>. QED  BY <2>1, <2>3
<1>3. CASE n = 0
  <2>1. S = {}
    <3>1. ASSUME NEW m \in S PROVE FALSE
      BY <1>1, <1>3, Extent
    <3>. QED  BY <3>1
  <2>. QED  BY <2>1, <1>3 DEF FindMaxlength
<1>4. CASE n # 0
  <2>1. n - 1 \in Cover(S)
    BY <1>4
  <2>2. PICK m \in S : n - 1 \in Positions(m)
    BY <2>1 DEF Cover
  <2>3. n <= End(m)
    <3>1. n - 1 < End(m)
      BY <2>2, Extent
    <3>. QED  BY <3>1, <1>2
  <2>4. /\ FindMaxlength(S) \in Nat /\ FindMaxlength(S) <= n
        /\ End(m) <= FindMaxlength(S)
    BY <1>2, <2>2, LastOf
  <2>. QED  BY <2>3, <2>4, <1>2
<1>. QED  BY <1>3, <1>4

-----------------------------------------------------------------------------
(* What a step leaves alone. *)

\* Arrays are written once: what is stored in one stays.
Extends(A, B) == \A a \in DOMAIN A : a \in DOMAIN B /\ B[a] = A[a]

LEMMA SoundStays ==
    ASSUME NEW A, NEW B, Extends(A, B), NEW L, NEW S \in SUBSET Mappings(DOMAIN A),
           Sound(S, A, L), NEW K, \A m \in S : m.array \in K
    PROVE  S \in SUBSET Mappings(DOMAIN B) /\ Sound(S, B, K)
<1>1. \A m \in S : m.array \in DOMAIN A /\ m.array \in DOMAIN B /\ B[m.array] = A[m.array]
  BY Extent DEF Extends
<1>2. S \in SUBSET Mappings(DOMAIN B)
  BY <1>1 DEF Mappings
<1>. QED  BY <1>1, <1>2 DEF Sound, Placed

LEMMA VersionsStay ==
    ASSUME NEW A, NEW B, Extends(A, B), NEW W, NEW S \in SUBSET Mappings(DOMAIN A),
           Versions(S, A, W)
    PROVE  Versions(S, B, W)
<1>1. \A m \in S : B[m.array] = A[m.array]
  BY Extent DEF Extends
<1>. QED  BY <1>1 DEF Versions

LEMMA SoundSubset ==
    ASSUME NEW A, NEW L, NEW S, Sound(S, A, L), NEW T, T \subseteq S
    PROVE  Sound(T, A, L)
BY DEF Sound

LEMMA VersionsSubset ==
    ASSUME NEW A, NEW W, NEW S, Versions(S, A, W), NEW T, T \subseteq S
    PROVE  Versions(T, A, W)
BY DEF Versions

LEMMA FileSame ==
    ASSUME FileInv, UNCHANGED <<disk, arrays, Live, want, gone>>
    PROVE  FileInv'
BY DEF FileInv, disk

LEMMA UntouchedSame ==
    ASSUME Untouched, UNCHANGED <<arrays, tool, version, gone, want, doomed>>
    PROVE  Untouched'
BY DEF Untouched

LEMMA ToolSame ==
    ASSUME ToolPcs, UNCHANGED <<pc, tool, disk>>, fileJob'.reading => fileJob.reading
    PROVE  ToolPcs'
BY DEF ToolPcs, disk

LEMMA PartSame ==
    ASSUME PartInv, UNCHANGED <<tool, pc, maxlen, reader, ret, cur, range>>
    PROVE  PartInv'
BY DEF PartInv, reader, Handing

LEMMA ReaderSame ==
    ASSUME ReaderInv, UNCHANGED <<tool, pc, maxlen, reader, ret, cur>>
    PROVE  ReaderInv'
BY DEF ReaderInv, reader, Handing, InHand

LEMMA UploadSame ==
    ASSUME UploadInv,
           UNCHANGED <<tool, pc, set, maxlen, arrays, Live, want, dead, kept, new, opts, todo,
                       range>>
    PROVE  UploadInv'
BY DEF UploadInv, Covers

LEMMA NewSame ==
    ASSUME NewInv, UNCHANGED <<pc, jobs, range, new, arrays, Live, version>>
    PROVE  NewInv'
BY DEF NewInv

LEMMA UpdateSame ==
    ASSUME UpdateInv,
           UNCHANGED <<tool, pc, range, dead, set, file, exnode, todo, kept, opts, gone, arrays,
                       Live, want, new, version>>
    PROVE  UpdateInv'
BY DEF UpdateInv, Changed

LEMMA TrimSame ==
    ASSUME TrimInv,
           UNCHANGED <<tool, pc, new, exnode, file, set, opts, maxlen, todo, kept, doomed, range,
                       gone, dead>>,
           excused \subseteq excused'
    PROVE  TrimInv'
BY DEF TrimInv, Staying, Going

LEMMA WriteSame ==
    ASSUME WriteInv,
           UNCHANGED <<pc, exnode, gone, doomed, tool, range, arrays, Live, want, version>>
    PROVE  WriteInv'
BY DEF WriteInv, Renewed, Due

-----------------------------------------------------------------------------
(* The tool ends. *)

\* What does not belong to the process of the tool.
RestOK ==
    /\ file \subseteq Mappings(DOMAIN arrays) /\ torn \in BOOLEAN
    /\ arrays \in Seq([version : 0 .. MaxUpdates, bytes : Seq(Bytes)])
    /\ alive \subseteq DOMAIN arrays
    /\ version \in 0 .. MaxUpdates /\ trims \in 0 .. MaxTrims
    /\ failures \in 0 .. MaxFailures /\ crashes \in 0 .. MaxCrashes
    /\ want \in [Bytes -> 0 .. MaxUpdates] /\ gone \cup doomed \subseteq Bytes
    /\ excused \subseteq DOMAIN arrays

LEMMA FailsType == ASSUME TypeOK, Fails PROVE failures' \in 0 .. MaxFailures
<1>1. failures \in Nat /\ MaxFailures \in Nat
  BY FilesConstants DEF TypeOK
<1>. QED  BY <1>1 DEF Fails

LEMMA EmptyType == Empty \in [{0, 1} -> [0 .. BufSize - 1 -> Bytes \cup {NoByte}]]
BY DEF Empty

LEMMA ExitInv ==
    ASSUME Exit, RestOK', FileInv', Untouched'
    PROVE  IInv'
<1>1. TypeOK'
  <2>1. 0 \in 0 .. FileLen /\ 0 \in 0 .. BufSize
    BY FilesConstants
  <2>2. fileJob' \in [buf : {0, 1}, n : 0 .. BufSize, status : {"success", "eof", "failed"},
                      reading : BOOLEAN]
    BY <2>1 DEF Exit, NoJob
  <2>3. range' \in [off : 0 .. FileLen, len : 0 .. FileLen]
    BY <2>1 DEF Exit, NoRange
  <2>4. tool' \in Tools /\ pc' \in Pcs
    BY DEF Exit, Tools, Pcs
  <2>5. buf' \in [{0, 1} -> [0 .. BufSize - 1 -> Bytes \cup {NoByte}]]
    BY EmptyType DEF Exit
  <2>6. /\ maxlen' \in 0 .. FileLen /\ fpos' \in 0 .. FileLen /\ ret' \in 0 .. BufSize
        /\ cur' \in {0, 1} /\ jobs' \subseteq Bytes
    BY <2>1 DEF Exit
  <2>7. /\ (exnode \cup set \cup new \cup todo \cup kept)' \subseteq Mappings(DOMAIN arrays)'
        /\ opts' \subseteq {"ALL", "DECR", "DEAD"} /\ dead' \subseteq Mappings(DOMAIN arrays)'
    BY DEF Exit
  <2>. QED  BY <2>2, <2>3, <2>4, <2>5, <2>6, <2>7 DEF TypeOK, RestOK
<1>2. tool' = "none" /\ pc' = "idle" /\ ~fileJob'.reading
  BY DEF Exit, NoJob
<1>3. Idle'
  BY DEF Exit, Idle
<1>4. ToolPcs' /\ ReaderInv' /\ PartInv' /\ UploadInv' /\ NewInv' /\ UpdateInv' /\ TrimInv' /\ WriteInv'
  BY <1>2 DEF ToolPcs, ReaderInv, PartInv, UploadInv, NewInv, UpdateInv, TrimInv, WriteInv, Handing
<1>. QED  BY <1>1, <1>3, <1>4 DEF IInv

LEMMA ExitQuiet ==
    ASSUME IInv, Exit, UNCHANGED <<disk, depots, version, trims, want, gone, excused>>,
           failures' \in 0 .. MaxFailures, crashes' \in 0 .. MaxCrashes, doomed' = {}
    PROVE  IInv'
<1>1. RestOK'
  BY DEF IInv, TypeOK, RestOK, disk, depots
<1>2. FileInv'
  BY FileSame DEF IInv, Live, depots
<1>3. Untouched'
  BY DEF IInv, Untouched, depots, Exit
<1>. QED  BY <1>1, <1>2, <1>3, ExitInv

\* The reader writes on behind the back of a call that has returned.
LEMMA LeftInv ==
    ASSUME IInv, tool = "upload", fileJob.reading, file = {}, ~torn, pc' \in {"left", "undefined"},
           failures' \in 0 .. MaxFailures,
           UNCHANGED <<disk, depots, tool, mem, reader, call, version, trims, crashes, seen>>
    PROVE  IInv'
<1>1. TypeOK'
  BY DEF IInv, TypeOK, Pcs, disk, depots, mem, reader, call, seen
<1>2. FileInv' /\ Untouched'
  BY FileSame, UntouchedSame DEF IInv, seen, depots, Live
<1>3. Idle' /\ ToolPcs' /\ ReaderInv' /\ PartInv' /\ UploadInv' /\ NewInv' /\ UpdateInv' /\ TrimInv'
      /\ WriteInv'
  BY DEF Idle, ToolPcs, ReaderInv, PartInv, UploadInv, NewInv, UpdateInv, TrimInv, WriteInv,
         Handing, disk
<1>. QED  BY <1>1, <1>2, <1>3 DEF IInv

LEMMA TypeFails == ASSUME IInv PROVE /\ failures \in 0 .. MaxFailures /\ crashes \in 0 .. MaxCrashes
                                     /\ Fails => failures' \in 0 .. MaxFailures
BY FailsType DEF IInv, TypeOK

LEMMA NothingDoomed == ASSUME IInv, tool \in {"none", "upload", "update"} PROVE doomed = {}
BY DEF IInv, Untouched

LEMMA StoreFailedInv == ASSUME IInv, StoreFailed PROVE IInv'
<1>1. /\ pc = "store" /\ tool \in {"upload", "update"}
      /\ UNCHANGED <<disk, depots, version, trims, failures, crashes, want, gone, doomed, excused>>
  BY DEF StoreFailed, IInv, ToolPcs, counts, seen
<1>2. CASE fileJob.reading
  <2>1. tool = "upload" /\ file = {} /\ ~torn
    BY <1>1, <1>2 DEF IInv, ToolPcs
  <2>2. pc' = "left" /\ UNCHANGED <<tool, mem, reader, call>>
    BY <1>2 DEF StoreFailed, Return
  <2>3. UNCHANGED seen
    BY DEF StoreFailed
  <2>. QED  BY <1>1, <1>2, <2>1, <2>2, <2>3, LeftInv, TypeFails
<1>3. CASE ~fileJob.reading
  <2>1. Exit
    BY <1>3 DEF StoreFailed, Return
  <2>. QED  BY <1>1, <2>1, ExitQuiet, TypeFails, NothingDoomed
<1>. QED  BY <1>2, <1>3

LEMMA CrashInv == ASSUME IInv, Crash PROVE IInv'
<1>1. crashes' \in 0 .. MaxCrashes
  <2>1. crashes \in Nat /\ MaxCrashes \in Nat
    BY FilesConstants DEF IInv, TypeOK
  <2>. QED  BY <2>1 DEF Crash
<1>. QED  BY <1>1, ExitQuiet, TypeFails DEF Crash

LEMMA LeaveInv == ASSUME IInv, Leave PROVE IInv'
<1>1. tool \in {"none", "upload"}
  BY DEF Leave, IInv, TypeOK, Tools, UpdateInv, TrimInv
<1>. QED  BY <1>1, ExitQuiet, TypeFails, NothingDoomed DEF Leave, counts, seen

LEMMA UndefinedInv == ASSUME IInv, Undefined PROVE IInv'
<1>1. tool = "upload" /\ file = {} /\ ~torn
  BY DEF Undefined, IInv, ToolPcs
<1>. QED  BY <1>1, LeftInv, TypeFails DEF Undefined, counts

-----------------------------------------------------------------------------
(* The reader. *)

\* What a step of the reader does not touch.
LEMMA ReaderFrame ==
    ASSUME IInv, fileJob.reading, TypeOK', ReaderInv', PartInv',
           UNCHANGED <<disk, depots, tool, pc, mem, call, version, trims, crashes, seen>>
    PROVE  IInv'
<1>1. pc # "idle" /\ tool = "upload"
  BY DEF IInv, Idle, NoJob, ToolPcs
<1>2. FileInv' /\ Untouched' /\ UploadInv'
  BY FileSame, UntouchedSame, UploadSame DEF IInv, depots, seen, mem, call, Live
<1>3. NewInv' /\ WriteInv'
  BY NewSame, WriteSame DEF IInv, depots, seen, mem, call, Live
<1>4. Idle' /\ UpdateInv' /\ TrimInv'
  BY <1>1 DEF Idle, UpdateInv, TrimInv
<1>5. ToolPcs'
  BY <1>1 DEF IInv, ToolPcs, disk
<1>. QED  BY <1>2, <1>3, <1>4, <1>5 DEF IInv

LEMMA ReadType ==
    ASSUME TypeOK, NEW n \in Nat, n > 0, n <= FileLen - fpos, n <= BufSize - fileJob.n,
           Read(fileJob, n)
    PROVE  /\ buf' \in [{0, 1} -> [0 .. BufSize - 1 -> Bytes \cup {NoByte}]]
           /\ fpos' \in 0 .. FileLen /\ fpos' = fpos + n
           /\ \A b \in {0, 1} : b # fileJob.buf => buf'[b] = buf[b]
           /\ \A i \in 0 .. BufSize - 1 :
                 buf'[fileJob.buf][i] = IF i \in fileJob.n .. fileJob.n + n - 1
                                        THEN fpos + i - fileJob.n ELSE buf[fileJob.buf][i]
<1>. DEFINE j == fileJob
            byte(i) == IF i \in j.n .. j.n + n - 1 THEN fpos + i - j.n ELSE buf[j.buf][i]
<1>1. /\ j.buf \in {0, 1} /\ j.n \in Nat /\ j.n <= BufSize /\ fpos \in Nat /\ fpos <= FileLen
      /\ FileLen \in Nat /\ BufSize \in Nat
      /\ buf \in [{0, 1} -> [0 .. BufSize - 1 -> Bytes \cup {NoByte}]]
  BY FilesConstants DEF TypeOK
<1>2. buf' = [buf EXCEPT ![j.buf] = [i \in 0 .. BufSize - 1 |-> byte(i)]]
  BY DEF Read
<1>3. ASSUME NEW i \in 0 .. BufSize - 1 PROVE byte(i) \in Bytes \cup {NoByte}
  <2>1. CASE i \in j.n .. j.n + n - 1
    <3>1. fpos + i - j.n \in Bytes
      BY <1>1, <2>1 DEF Bytes
    <3>. QED  BY <2>1, <3>1
  <2>2. CASE i \notin j.n .. j.n + n - 1
    BY <1>1, <2>2
  <2>. QED  BY <2>1, <2>2
<1>. HIDE DEF byte
<1>4. buf' \in [{0, 1} -> [0 .. BufSize - 1 -> Bytes \cup {NoByte}]]
  BY <1>1, <1>2, <1>3
<1>5. fpos' = fpos + n /\ fpos' \in 0 .. FileLen
  BY <1>1 DEF Read
<1>6. \A b \in {0, 1} : b # j.buf => buf'[b] = buf[b]
  BY <1>1, <1>2
<1>7. \A i \in 0 .. BufSize - 1 : buf'[j.buf][i] = byte(i)
  BY <1>1, <1>2
<1>. QED  BY <1>4, <1>5, <1>6, <1>7 DEF byte

LEMMA ReadSomeInv == ASSUME IInv, ReadSome PROVE IInv'
<1>. DEFINE j == fileJob
<1>1. fileJob.reading /\ UNCHANGED <<disk, depots, tool, pc, mem, call, counts, seen>>
  BY DEF ReadSome
<1>2. PICK n \in Reads \cup {FileLen - fpos} :
          /\ n > 0 /\ n <= FileLen - fpos /\ n <= BufSize - fileJob.n
          /\ Read(fileJob, n)
          /\ fileJob' = [fileJob EXCEPT !.n = @ + n, !.reading = fileJob.n + n < BufSize]
  BY DEF ReadSome
<1>3. n \in Nat
  <2>1. fpos \in Nat /\ FileLen \in Nat /\ Reads \subseteq Nat \ {0}
    BY FilesAssumption DEF IInv, TypeOK
  <2>. QED  BY <1>2, <2>1
<1>4. /\ buf' \in [{0, 1} -> [0 .. BufSize - 1 -> Bytes \cup {NoByte}]]
      /\ fpos' \in 0 .. FileLen /\ fpos' = fpos + n
      /\ \A b \in {0, 1} : b # fileJob.buf => buf'[b] = buf[b]
      /\ \A i \in 0 .. BufSize - 1 :
            buf'[fileJob.buf][i] = IF i \in fileJob.n .. fileJob.n + n - 1
                                   THEN fpos + i - fileJob.n ELSE buf[fileJob.buf][i]
  BY <1>2, <1>3, ReadType DEF IInv
<1>5. /\ fileJob.buf \in {0, 1} /\ fileJob.n \in Nat /\ fpos \in Nat /\ fpos <= FileLen
      /\ fileJob.n <= BufSize /\ BufSize \in Nat /\ FileLen \in Nat /\ maxlen \in Nat /\ ret \in Nat
      /\ fileJob.status \in {"success", "eof", "failed"} /\ ret <= BufSize /\ cur \in {0, 1}
      /\ fileJob \in [buf : {0, 1}, n : 0 .. BufSize, status : {"success", "eof", "failed"},
                      reading : BOOLEAN]
  BY FilesConstants DEF IInv, TypeOK
<1>6. /\ fileJob' \in [buf : {0, 1}, n : 0 .. BufSize, status : {"success", "eof", "failed"},
                       reading : BOOLEAN]
      /\ fileJob'.n = fileJob.n + n /\ fileJob'.buf = fileJob.buf /\ fileJob'.status = fileJob.status
  <2>. DEFINE more == fileJob.n + n < BufSize
              k == fileJob.n + n
  <2>1. k \in 0 .. BufSize /\ more \in BOOLEAN
    BY <1>2, <1>3, <1>5
  <2>2. fileJob' = [fileJob EXCEPT !.n = k, !.reading = more]
    BY <1>2
  <2>. HIDE DEF k, more
  <2>3. fileJob' \in [buf : {0, 1}, n : 0 .. BufSize, status : {"success", "eof", "failed"},
                      reading : BOOLEAN]
    BY <1>5, <2>1, <2>2
  <2>4. fileJob'.n = k /\ fileJob'.buf = fileJob.buf /\ fileJob'.status = fileJob.status
    BY <1>5, <2>2
  <2>. QED  BY <2>3, <2>4 DEF k
<1>7. TypeOK'
  BY <1>1, <1>4, <1>6 DEF IInv, TypeOK, disk, depots, mem, call, counts, seen
<1>8. ReaderInv'
  <2>. SUFFICES ASSUME tool = "upload", pc \in {"first", "store", "trim", "refill", "join"}
                PROVE  /\ fpos' = maxlen + InHand + fileJob'.n
                       /\ \A i \in 0 .. fileJob'.n - 1 : buf'[fileJob.buf][i] = maxlen + InHand + i
                       /\ fileJob'.n > 0 /\ fileJob'.status = "success"
                       /\ Handing => cur # fileJob.buf
    BY <1>1, <1>6 DEF ReaderInv, mem, call, InHand, Handing
  <2>1. /\ fpos = maxlen + InHand + fileJob.n
        /\ \A i \in 0 .. fileJob.n - 1 : buf[fileJob.buf][i] = maxlen + InHand + i
        /\ fileJob.status = "success" /\ Handing => cur # fileJob.buf
    BY <1>1 DEF IInv, ReaderInv
  <2>2. fileJob.status = "success" /\ (Handing => cur # fileJob.buf)
    BY <1>1 DEF IInv, ReaderInv
  <2>3. InHand \in Nat
    BY <1>5 DEF InHand
  <2>4. ASSUME NEW i \in 0 .. fileJob'.n - 1 PROVE buf'[fileJob.buf][i] = maxlen + InHand + i
    <3>1. i \in 0 .. BufSize - 1
      BY <1>2, <1>3, <1>5, <1>6
    <3>2. CASE i \in fileJob.n .. fileJob.n + n - 1
      <4>1. buf'[fileJob.buf][i] = fpos + i - fileJob.n
        BY <1>4, <3>1, <3>2
      <4>. QED  BY <4>1, <2>1, <2>3, <1>5
    <3>3. CASE i \notin fileJob.n .. fileJob.n + n - 1
      <4>1. i \in 0 .. fileJob.n - 1
        BY <3>3, <1>3, <1>5, <1>6
      <4>2. buf'[fileJob.buf][i] = buf[fileJob.buf][i]
        BY <1>4, <3>1, <3>3
      <4>. QED  BY <2>1, <4>1, <4>2
    <3>. QED  BY <3>2, <3>3
  <2>5. fpos' = maxlen + InHand + fileJob'.n /\ fileJob'.n > 0
    BY SMTT(30), <1>2, <1>3, <1>4, <1>5, <1>6, <2>1, <2>3
  <2>. QED  BY <1>6, <2>2, <2>4, <2>5
<1>9. PartInv'
  <2>. SUFFICES ASSUME tool = "upload", pc = "loop" \/ Handing
                PROVE  PartInv'
    BY <1>1 DEF PartInv, Handing
  <2>1. Handing /\ pc # "loop"
    BY <1>1 DEF IInv, PartInv, Handing
  <2>2. cur # fileJob.buf
    BY <1>1, <2>1 DEF IInv, ReaderInv, Handing
  <2>3. buf'[cur] = buf[cur]
    BY <1>4, <1>5, <2>2
  <2>4. /\ ret > 0 /\ maxlen + ret <= fpos
        /\ \A i \in 0 .. ret - 1 : buf[cur][i] = maxlen + i
        /\ pc \in {"store", "trim"} => range = [off |-> maxlen, len |-> ret]
    BY <2>1 DEF IInv, PartInv
  <2>5. maxlen + ret <= fpos'
    BY <1>3, <1>4, <1>5, <2>4
  <2>. QED  BY <1>1, <2>1, <2>3, <2>4, <2>5 DEF PartInv, mem, call
<1>. QED  BY <1>1, <1>7, <1>8, <1>9, ReaderFrame DEF counts

\* The end of the file, or an error.
LEMMA ReadDone ==
    ASSUME IInv, fileJob.reading, failures' \in 0 .. MaxFailures,
           UNCHANGED <<disk, depots, tool, pc, mem, fpos, buf, call, version, trims, crashes, seen>>,
           NEW s \in {"success", "eof", "failed"},
           fileJob' = [fileJob EXCEPT !.reading = FALSE, !.status = s],
           s = "success" => fileJob.n > 0, s = "eof" => fpos = FileLen /\ fileJob.n = 0
    PROVE  IInv'
<1>1. fileJob \in [buf : {0, 1}, n : 0 .. BufSize, status : {"success", "eof", "failed"},
                   reading : BOOLEAN]
  BY DEF IInv, TypeOK
<1>2. /\ fileJob' \in [buf : {0, 1}, n : 0 .. BufSize, status : {"success", "eof", "failed"},
                       reading : BOOLEAN]
      /\ fileJob'.n = fileJob.n /\ fileJob'.buf = fileJob.buf /\ fileJob'.status = s
      /\ ~fileJob'.reading
  BY <1>1
<1>3. TypeOK'
  BY <1>2 DEF IInv, TypeOK, disk, depots, mem, call, seen
<1>4. ReaderInv'
  BY <1>2 DEF IInv, ReaderInv, mem, call, InHand, Handing
<1>5. PartInv'
  BY <1>2 DEF IInv, PartInv, mem, call, Handing
<1>. QED  BY <1>3, <1>4, <1>5, ReaderFrame

LEMMA ReadEndInv == ASSUME IInv, ReadEnd PROVE IInv'
<1>. DEFINE s == IF fileJob.n = 0 THEN "eof" ELSE "success"
<1>1. fileJob.n \in Nat
  BY DEF IInv, TypeOK
<1>2. (s = "success" => fileJob.n > 0) /\ (s = "eof" => fileJob.n = 0)
  BY <1>1
<1>3. /\ fileJob.reading /\ fpos = FileLen
      /\ UNCHANGED <<disk, depots, tool, pc, mem, fpos, buf, call, version, trims, crashes, seen>>
      /\ fileJob' = [fileJob EXCEPT !.reading = FALSE, !.status = s] /\ failures' = failures
  BY DEF ReadEnd, counts
<1>4. s \in {"success", "eof", "failed"}
  OBVIOUS
<1>. HIDE DEF s
<1>. QED  BY <1>2, <1>3, <1>4, ReadDone, TypeFails

LEMMA ReadFailsInv == ASSUME IInv, ReadFails PROVE IInv'
<1>1. /\ fileJob.reading /\ failures' \in 0 .. MaxFailures
      /\ UNCHANGED <<disk, depots, tool, pc, mem, fpos, buf, call, version, trims, crashes, seen>>
      /\ fileJob' = [fileJob EXCEPT !.reading = FALSE, !.status = "failed"]
  BY TypeFails DEF ReadFails
<1>2. "failed" \in {"success", "eof", "failed"}
  OBVIOUS
<1>. QED  BY <1>1, <1>2, ReadDone

-----------------------------------------------------------------------------
(* The blocks of a range. *)

LEMMA BlocksIn ==
    ASSUME NEW len \in Nat \ {0}, NEW b \in Blocks(len)
    PROVE  /\ b \in 0 .. len - 1
           /\ BlockLen(b, len) \in Nat \ {0} /\ b + BlockLen(b, len) <= len
           /\ BlockLen(b, len) <= BlockSize
<1>1. BlockSize \in Nat \ {0}
  BY FilesConstants
<1>. DEFINE q == (len - 1) \div BlockSize
            r == (len - 1) % BlockSize
<1>2. q \in Nat /\ r \in Nat /\ len - 1 = BlockSize * q + r
  BY <1>1
<1>3. PICK k \in 0 .. q : b = k * BlockSize
  BY DEF Blocks
<1>. HIDE DEF q, r
<1>4. k * BlockSize <= q * BlockSize
  <2>1. PICK d \in Nat : q = k + d
    BY <1>2, <1>3
  <2>2. q * BlockSize = k * BlockSize + d * BlockSize
    BY <1>1, <1>3, <2>1
  <2>3. d * BlockSize \in Nat /\ k * BlockSize \in Nat
    BY <1>1, <1>3, <2>1
  <2>. QED  BY <2>2, <2>3
<1>5. b \in Nat /\ b <= len - 1
  <2>1. k * BlockSize \in Nat /\ q * BlockSize \in Nat /\ BlockSize * q = q * BlockSize
    BY <1>1, <1>2, <1>3
  <2>. QED  BY <1>2, <1>3, <1>4, <2>1
<1>. QED  BY <1>1, <1>5 DEF BlockLen

\* Two blocks do not meet.
LEMMA BlocksApart ==
    ASSUME NEW len \in Nat \ {0}, NEW b \in Blocks(len), NEW c \in Blocks(len), b < c
    PROVE  b + BlockLen(b, len) <= c
<1>1. BlockSize \in Nat \ {0}
  BY FilesConstants
<1>0. (len - 1) \div BlockSize \in Int
  BY <1>1
<1>2. \A x \in Blocks(len) : \E k \in Nat : x = k * BlockSize
  BY <1>0 DEF Blocks
<1>2a. PICK k \in Nat : b = k * BlockSize
  BY <1>2
<1>3. PICK l \in Nat : c = l * BlockSize
  BY <1>2
<1>4. k < l
  <2>1. CASE l <= k
    <3>1. PICK d \in Nat : k = l + d
      BY <2>1
    <3>2. k * BlockSize = l * BlockSize + d * BlockSize /\ d * BlockSize \in Nat
          /\ l * BlockSize \in Nat
      BY <1>1, <3>1
    <3>. QED  BY <3>2, <1>2a, <1>3
  <2>. QED  BY <2>1
<1>5. PICK d \in Nat : l = k + 1 + d
  BY <1>4
<1>6. l * BlockSize = k * BlockSize + BlockSize + d * BlockSize /\ d * BlockSize \in Nat
      /\ k * BlockSize \in Nat
  BY <1>1, <1>5
<1>7. b + BlockSize <= c
  BY <1>1, <1>2a, <1>3, <1>6
<1>8. /\ BlockLen(b, len) \in Nat /\ BlockLen(b, len) <= BlockSize
      /\ b \in Nat /\ c \in Nat
  BY BlocksIn
<1>. QED  BY <1>1, <1>7, <1>8

-----------------------------------------------------------------------------
(* The upload's loop. *)

LEMMA NothingSound ==
    ASSUME NEW A, NEW L, NEW W
    PROVE  Tiles({}, {}) /\ Sound({}, A, L) /\ Versions({}, A, W) /\ Cover({}) = {}
BY TilesNone DEF Sound, Versions

\* A step within an upload, whose exnode file is not there yet.
LEMMA UploadFrame ==
    ASSUME IInv, tool' = "upload", file = {}, ~torn, UNCHANGED <<disk, arrays, version, want, gone>>,
           doomed' = {}, version = 0 /\ gone = {} /\ want = [p \in Bytes |-> 0], pc' # "idle",
           TypeOK', ReaderInv', PartInv', UploadInv', NewInv', WriteInv', pc' # "stat"
    PROVE  IInv'
<1>1. FileInv'
  BY NothingSound DEF FileInv, disk, Tiles
<1>2. Untouched' /\ Idle' /\ UpdateInv' /\ TrimInv' /\ ToolPcs'
  BY DEF Untouched, Idle, UpdateInv, TrimInv, ToolPcs, disk
<1>. QED  BY <1>1, <1>2 DEF IInv

LEMMA Uploading ==
    ASSUME IInv, tool = "upload", pc # "write"
    PROVE  /\ file = {} /\ ~torn /\ version = 0 /\ gone = {} /\ want = [p \in Bytes |-> 0]
           /\ doomed = {}
BY DEF IInv, ToolPcs, Untouched

LEMMA BeginUploadInv == ASSUME IInv, BeginUpload PROVE IInv'
<1>1. /\ pc = "idle" /\ file = {} /\ ~torn /\ arrays = << >> /\ tool' = "upload" /\ pc' = "first"
      /\ fileJob' = [NoJob EXCEPT !.reading = TRUE]
      /\ UNCHANGED <<disk, depots, mem, fpos, buf, call, counts, seen>>
  BY DEF BeginUpload
<1>2. /\ tool = "none" /\ set = {} /\ maxlen = 0 /\ fpos = 0 /\ new = {} /\ kept = {} /\ dead = {}
      /\ version = 0 /\ gone = {} /\ want = [p \in Bytes |-> 0] /\ doomed = {}
  BY <1>1 DEF IInv, Idle, Untouched
<1>3. /\ fileJob' \in [buf : {0, 1}, n : 0 .. BufSize, status : {"success", "eof", "failed"},
                       reading : BOOLEAN]
      /\ fileJob'.n = 0 /\ fileJob'.reading /\ fileJob'.status = "success"
  <2>1. fileJob' = [buf |-> 0, n |-> 0, status |-> "success", reading |-> TRUE]
    BY <1>1 DEF NoJob
  <2>2. 0 \in 0 .. BufSize
    BY FilesConstants
  <2>. QED  BY <2>1, <2>2
<1>4. TypeOK'
  BY <1>1, <1>3 DEF IInv, TypeOK, Tools, Pcs, disk, depots, mem, call, counts, seen
<1>5. ReaderInv'
  BY <1>1, <1>2, <1>3 DEF ReaderInv, InHand, Handing, mem
<1>6. PartInv' /\ NewInv' /\ WriteInv'
  BY <1>1 DEF PartInv, NewInv, WriteInv, Handing
<1>7. 0 .. maxlen - 1 = {}
  BY <1>2
<1>8. UploadInv'
  BY <1>1, <1>2, <1>7, NothingSound DEF UploadInv, mem, call
<1>. QED  BY <1>1, <1>2, <1>4, <1>5, <1>6, <1>8, UploadFrame DEF counts, seen, depots

\* What has been read is the part in hand.
LEMMA TakePart ==
    ASSUME IInv, tool = "upload", pc \in {"first", "join"}, ~fileJob.reading,
           fileJob.status = "success", pc' = "loop", ret' = fileJob.n, cur' = fileJob.buf,
           UNCHANGED <<disk, depots, tool, mem, reader, range, jobs, new, todo, kept, opts, dead,
                       counts, seen>>
    PROVE  IInv'
<1>1. /\ fileJob.n \in 0 .. BufSize /\ fileJob.buf \in {0, 1} /\ maxlen \in Nat
  BY DEF IInv, TypeOK
<1>2. TypeOK'
  BY <1>1 DEF IInv, TypeOK, Pcs, disk, depots, mem, reader, counts, seen
<1>3. /\ fpos = maxlen + fileJob.n /\ fileJob.n > 0
      /\ \A i \in 0 .. fileJob.n - 1 : buf[fileJob.buf][i] = maxlen + i
  <2>1. InHand = 0
    BY DEF InHand, Handing
  <2>2. /\ fpos = maxlen + InHand + fileJob.n /\ fileJob.n > 0
        /\ \A i \in 0 .. fileJob.n - 1 : buf[fileJob.buf][i] = maxlen + InHand + i
    BY DEF IInv, ReaderInv
  <2>. QED  BY <1>1, <2>1, <2>2
<1>4. PartInv'
  BY <1>1, <1>3 DEF PartInv, Handing, mem, reader
<1>5. ReaderInv' /\ NewInv' /\ WriteInv'
  BY DEF ReaderInv, NewInv, WriteInv
<1>6. UploadInv'
  BY DEF IInv, UploadInv, mem, depots, seen, Live
<1>. QED  BY <1>2, <1>4, <1>5, <1>6, Uploading, UploadFrame DEF counts, seen, depots

LEMMA FirstReadInv == ASSUME IInv, FirstRead PROVE IInv'
<1>1. tool = "upload" /\ pc = "first" /\ UNCHANGED <<disk, depots, counts, seen>>
  BY DEF FirstRead, IInv, ToolPcs
<1>2. CASE fileJob.status # "success"
  <2>1. Exit
    BY <1>2 DEF FirstRead
  <2>. QED  BY <1>1, <2>1, ExitQuiet, TypeFails, NothingDoomed DEF counts, seen
<1>3. CASE fileJob.status = "success"
  BY <1>1, <1>3, TakePart DEF FirstRead
<1>. QED  BY <1>2, <1>3

LEMMA JoinInv == ASSUME IInv, Join PROVE IInv'
<1>1. /\ tool = "upload" /\ pc = "join" /\ ~fileJob.reading
      /\ UNCHANGED <<disk, depots, counts, seen>>
  BY DEF Join, IInv, ToolPcs
<1>2. fileJob.status \in {"success", "eof", "failed"} /\ fileJob.n \in Nat /\ maxlen \in Nat
  BY DEF IInv, TypeOK
<1>3. /\ fpos = maxlen + fileJob.n
      /\ fileJob.status = "success" => fileJob.n > 0
      /\ fileJob.status = "eof" => fpos = FileLen /\ fileJob.n = 0
  BY <1>1, <1>2 DEF IInv, ReaderInv, InHand, Handing
<1>4. CASE fileJob.status = "failed"
  <2>1. Exit
    BY <1>4 DEF Join
  <2>. QED  BY <1>1, <2>1, ExitQuiet, TypeFails, NothingDoomed DEF counts, seen
<1>5. CASE fileJob.status # "failed" /\ fileJob.n = 0
  <2>1. pc' = "write" /\ exnode' = set /\ UNCHANGED <<tool, set, maxlen, reader, call>>
    BY <1>5 DEF Join
  <2>2. maxlen = FileLen
    BY <1>2, <1>3, <1>5
  <2>3. gone = {} /\ doomed = {} /\ file = {} /\ ~torn
    BY <1>1, Uploading
  <2>4. Tiles(set, 0 .. FileLen - 1) /\ Sound(set, arrays, Live) /\ Versions(set, arrays, want)
    BY <1>1, <2>2 DEF IInv, UploadInv
  <2>5. Renewed' = {}
    BY <1>1, <2>1 DEF Renewed
  <2>6. (Bytes \ (gone \cup doomed)) \cup Renewed' = 0 .. FileLen - 1
    BY <2>3, <2>5 DEF Bytes
  <2>7. Due' = want
    <3>1. want \in [Bytes -> 0 .. MaxUpdates]
      BY DEF IInv, TypeOK
    <3>. QED  BY <2>5, <3>1, <1>1 DEF Due, seen
  <2>8. WriteInv'
    BY <1>1, <2>1, <2>4, <2>6, <2>7 DEF WriteInv, depots, seen, Live
  <2>9. TypeOK'
    BY <1>1, <2>1 DEF IInv, TypeOK, Pcs, disk, depots, reader, call, counts, seen
  <2>10. ReaderInv' /\ PartInv' /\ UploadInv' /\ NewInv'
    BY <2>1 DEF ReaderInv, PartInv, UploadInv, NewInv, Handing
  <2>. QED  BY <1>1, <2>1, <2>8, <2>9, <2>10, Uploading, UploadFrame DEF counts, seen, depots
<1>6. CASE fileJob.status # "failed" /\ fileJob.n # 0
  <2>1. /\ pc' = "loop" /\ ret' = fileJob.n /\ cur' = fileJob.buf
        /\ UNCHANGED <<tool, mem, reader, range, jobs, new, todo, kept, opts, dead>>
    BY <1>6 DEF Join
  <2>2. fileJob.status = "success"
    BY <1>2, <1>3, <1>6
  <2>. QED  BY <1>1, <2>1, <2>2, TakePart
<1>. QED  BY <1>4, <1>5, <1>6

-----------------------------------------------------------------------------
(* The store. *)

LEMMA StoreStarts ==
    ASSUME NEW off \in Nat, NEW len \in Nat \ {0}, off + len <= FileLen, StoreAt(off, len)
    PROVE  /\ NewInv' /\ jobs' \subseteq Bytes /\ range' \in [off : 0 .. FileLen, len : 0 .. FileLen]
           /\ pc' = "store" /\ new' = {} /\ range' = [off |-> off, len |-> len]
<1>1. range' = [off |-> off, len |-> len] /\ jobs' = Blocks(len) /\ new' = {} /\ pc' = "store"
  BY DEF StoreAt
<1>2. FileLen \in Nat
  BY FilesConstants
<1>3. jobs' \subseteq Bytes
  <2>1. \A b \in Blocks(len) : b \in 0 .. len - 1
    BY BlocksIn
  <2>. QED  BY <2>1, <1>1, <1>2 DEF Bytes
<1>4. range' \in [off : 0 .. FileLen, len : 0 .. FileLen]
  <2>1. off \in 0 .. FileLen /\ len \in 0 .. FileLen
    BY <1>2
  <2>. QED  BY <1>1, <2>1
<1>5. range'.off = off /\ range'.len = len
  BY <1>1
<1>6. NewInv'
  <2>1. Tiles({}, {}) /\ Sound({}, arrays', Live') /\ Cover({}) = {}
    BY NothingSound
  <2>. QED  BY <1>1, <1>5, <2>1 DEF NewInv
<1>. QED  BY <1>1, <1>3, <1>4, <1>6

LEMMA StartReaderInv == ASSUME IInv, StartReader PROVE IInv'
<1>1. /\ pc = "loop" /\ tool = "upload"
      /\ UNCHANGED <<disk, depots, version, trims, crashes, seen>>
  BY DEF StartReader, IInv, ToolPcs
<1>2. CASE Fails /\ Exit
  BY <1>1, <1>2, ExitQuiet, TypeFails, NothingDoomed DEF seen
<1>3. CASE /\ fileJob' = [buf |-> NextBuf(fileJob.buf), n |-> 0, status |-> "success",
                          reading |-> TRUE]
           /\ StoreAt(maxlen, ret)
           /\ UNCHANGED <<tool, mem, fpos, buf, ret, cur, todo, kept, opts, dead, failures>>
  <2>1. /\ maxlen \in Nat /\ ret \in Nat /\ fpos \in Nat /\ fpos <= FileLen
        /\ fileJob.buf \in {0, 1}
    BY DEF IInv, TypeOK
  <2>2. /\ ret > 0 /\ maxlen + ret = fpos /\ cur = fileJob.buf
        /\ \A i \in 0 .. ret - 1 : buf[cur][i] = maxlen + i
    BY <1>1 DEF IInv, PartInv
  <2>3. NextBuf(fileJob.buf) \in {0, 1} /\ NextBuf(fileJob.buf) # fileJob.buf
    BY <2>1 DEF NextBuf
  <2>4. /\ fileJob' \in [buf : {0, 1}, n : 0 .. BufSize, status : {"success", "eof", "failed"},
                         reading : BOOLEAN]
        /\ fileJob'.n = 0 /\ fileJob'.buf # cur /\ fileJob'.status = "success" /\ fileJob'.reading
    <3>1. 0 \in 0 .. BufSize
      BY FilesConstants
    <3>. QED  BY <1>3, <2>2, <2>3, <3>1
  <2>5. /\ NewInv' /\ jobs' \subseteq Bytes /\ range' \in [off : 0 .. FileLen, len : 0 .. FileLen]
        /\ pc' = "store" /\ new' = {} /\ range' = [off |-> maxlen, len |-> ret]
    <3>1. maxlen + ret <= FileLen /\ ret \in Nat \ {0}
      BY <2>1, <2>2
    <3>. QED  BY <1>3, <2>1, <3>1, StoreStarts
  <2>6. TypeOK'
    BY <1>1, <1>3, <2>4, <2>5 DEF IInv, TypeOK, Pcs, disk, depots, mem, seen
  <2>7. ReaderInv'
    BY <1>3, <2>1, <2>2, <2>4, <2>5 DEF ReaderInv, InHand, Handing, mem
  <2>8. PartInv'
    <3>1. maxlen + ret <= fpos
      BY <2>1, <2>2
    <3>. QED  BY <1>3, <2>2, <2>5, <3>1 DEF PartInv, Handing, mem
  <2>9. UploadInv'
    BY <1>1, <1>3, <2>5 DEF IInv, UploadInv, mem, depots, seen, Live
  <2>10. WriteInv'
    BY <2>5 DEF WriteInv
  <2>. QED
    BY <1>1, <1>3, <2>5, <2>6, <2>7, <2>8, <2>9, <2>10, Uploading, UploadFrame DEF seen, depots
<1>. QED  BY <1>1, <1>2, <1>3 DEF StartReader

LEMMA RefillInv == ASSUME IInv, Refill PROVE IInv'
<1>1. /\ pc = "refill" /\ tool = "upload" /\ file = {} /\ ~torn /\ doomed = {}
      /\ UNCHANGED <<disk, depots, version, trims, crashes, seen>>
  BY Uploading DEF Refill, IInv, ToolPcs
<1>2. CASE Fails /\ Return
  <2>1. CASE fileJob.reading
    BY <1>1, <1>2, <2>1, LeftInv, TypeFails DEF Return
  <2>2. CASE ~fileJob.reading
    BY <1>1, <1>2, <2>2, ExitQuiet, TypeFails DEF Return, seen
  <2>. QED  BY <2>1, <2>2
<1>3. CASE /\ maxlen' = FindMaxlength(set)
           /\ StoreAt(maxlen', ret)
           /\ opts' = {}
           /\ UNCHANGED <<tool, exnode, set, reader, ret, cur, todo, kept, dead, failures>>
  <2>1. /\ maxlen \in Nat /\ ret \in Nat /\ fpos \in Nat /\ fpos <= FileLen
        /\ set \in SUBSET Mappings(DOMAIN arrays)
    BY DEF IInv, TypeOK
  <2>2. /\ ret > 0 /\ maxlen + ret <= fpos
        /\ \A i \in 0 .. ret - 1 : buf[cur][i] = maxlen + i
    BY <1>1 DEF IInv, PartInv, Handing
  <2>3. Tiles(set, 0 .. maxlen - 1)
    BY <1>1 DEF IInv, UploadInv
  <2>4. maxlen' = maxlen
    BY <1>3, <2>1, <2>3, LastOfPrefix DEF Tiles
  <2>5. /\ NewInv' /\ jobs' \subseteq Bytes /\ range' \in [off : 0 .. FileLen, len : 0 .. FileLen]
        /\ pc' = "store" /\ new' = {} /\ range' = [off |-> maxlen, len |-> ret]
    <3>0. ret > 0 /\ maxlen + ret <= fpos
      BY <2>2
    <3>1. maxlen + ret <= FileLen /\ ret \in Nat \ {0}
      <4>1. FileLen \in Nat
        BY FilesConstants
      <4>. QED  BY <2>1, <3>0, <4>1
    <3>. QED  BY <1>3, <2>1, <2>4, <3>1, StoreStarts
  <2>6. TypeOK'
    BY <1>1, <1>3, <2>4, <2>5 DEF IInv, TypeOK, Pcs, disk, depots, reader, seen
  <2>7. ReaderInv'
    BY <1>1, <1>3, <2>4, <2>5 DEF IInv, ReaderInv, InHand, Handing, reader
  <2>8. PartInv'
    BY <1>3, <2>2, <2>4, <2>5 DEF PartInv, Handing, reader
  <2>9. UploadInv'
    BY <1>1, <1>3, <2>4, <2>5 DEF IInv, UploadInv, depots, seen, Live
  <2>10. WriteInv'
    BY <2>5 DEF WriteInv
  <2>. QED
    BY <1>1, <1>3, <2>5, <2>6, <2>7, <2>8, <2>9, <2>10, Uploading, UploadFrame DEF seen, depots
<1>. QED  BY <1>2, <1>3 DEF Refill

LEMMA FailBlockInv == ASSUME IInv, FailBlock PROVE IInv'
<1>1. /\ pc = "store" /\ failures' \in 0 .. MaxFailures
      /\ UNCHANGED <<disk, depots, tool, pc, mem, reader, ret, cur, range, new, todo, kept,
                     opts, dead, version, trims, crashes, seen>>
  BY TypeFails DEF FailBlock
<1>2. PICK b \in jobs : jobs' = jobs \ {b}
  BY DEF FailBlock
<1>3. TypeOK'
  BY <1>1, <1>2 DEF IInv, TypeOK, disk, depots, mem, reader, seen
<1>4. FileInv' /\ Untouched' /\ ToolPcs' /\ ReaderInv' /\ PartInv'
  BY <1>1, FileSame, UntouchedSame, ToolSame, ReaderSame, PartSame
     DEF IInv, depots, mem, reader, seen, Live
<1>5. UploadInv' /\ UpdateInv' /\ TrimInv' /\ WriteInv'
  BY <1>1, UploadSame, UpdateSame, TrimSame, WriteSame
     DEF IInv, depots, mem, disk, seen, Live
<1>6. Idle'
  BY <1>1 DEF Idle
<1>7. NewInv'
  <2>1. jobs' \subseteq jobs
    BY <1>2
  <2>. QED  BY <1>1, <2>1 DEF IInv, NewInv, depots, seen, Live
<1>. QED  BY <1>3, <1>4, <1>5, <1>6, <1>7 DEF IInv

\* A block is sent as it stands in the file, while the reader fills the other
\* buffer.
LEMMA SourceIsFile ==
    ASSUME IInv, pc = "store", NEW b \in jobs
    PROVE  /\ BlockLen(b, range.len) \in Nat \ {0} /\ b \in Nat /\ b \in Blocks(range.len)
           /\ range.off \in Nat /\ range.len \in Nat \ {0}
           /\ b + BlockLen(b, range.len) <= range.len /\ range.off + range.len <= FileLen
           /\ Source(b, BlockLen(b, range.len)) =
                 [i \in 1 .. BlockLen(b, range.len) |-> range.off + b + i - 1]
<1>. DEFINE n == BlockLen(b, range.len)
<1>1. /\ range.off \in Nat /\ range.len \in Nat \ {0} /\ b \in Blocks(range.len)
      /\ range.off + range.len <= FileLen
  BY DEF IInv, TypeOK, NewInv
<1>2. n \in Nat \ {0} /\ b \in Nat /\ b + n <= range.len
  BY <1>1, BlocksIn
<1>. HIDE DEF n
<1>3. Source(b, n) = [i \in 1 .. n |-> range.off + b + i - 1]
  <2>1. CASE tool = "upload"
    <3>1. /\ \A i \in 0 .. ret - 1 : buf[cur][i] = maxlen + i
          /\ range = [off |-> maxlen, len |-> ret]
      BY <2>1 DEF IInv, PartInv, Handing
    <3>2. range.off = maxlen /\ range.len = ret
      BY <3>1
    <3>3. ASSUME NEW i \in 1 .. n PROVE buf[cur][b + i - 1] = range.off + b + i - 1
      <4>1. b + i - 1 \in 0 .. ret - 1
        BY <1>1, <1>2, <3>2
      <4>2. buf[cur][b + i - 1] = maxlen + (b + i - 1)
        BY <3>1, <4>1
      <4>. QED  BY <1>1, <1>2, <3>2, <4>2
    <3>. QED  BY <2>1, <3>3 DEF Source
  <2>2. CASE tool # "upload"
    BY <2>2 DEF Source
  <2>. QED  BY <2>1, <2>2
<1>. QED  BY <1>1, <1>2, <1>3 DEF n

LEMMA StoreBlockInv == ASSUME IInv, StoreBlock PROVE IInv'
<1>1. /\ pc = "store" /\ tool \in {"upload", "update"}
      /\ UNCHANGED <<disk, tool, pc, mem, reader, ret, cur, range, todo, kept, opts, dead,
                     counts, seen>>
  BY DEF StoreBlock, IInv, ToolPcs
<1>. DEFINE a == Len(arrays) + 1
<1>2. PICK b \in jobs :
          LET n == BlockLen(b, range.len)
          IN  /\ jobs' = jobs \ {b}
              /\ arrays' = Append(arrays, [version |-> version, bytes |-> Source(b, n)])
              /\ alive' = alive \cup {a}
              /\ new' = new \cup {[array |-> a, off |-> range.off + b, len |-> n, at |-> 0]}
  BY <1>1 DEF StoreBlock
<1>. DEFINE n == BlockLen(b, range.len)
            A == [version |-> version, bytes |-> Source(b, n)]
            k == [array |-> a, off |-> range.off + b, len |-> n, at |-> 0]
<1>3. /\ jobs' = jobs \ {b} /\ arrays' = Append(arrays, A) /\ alive' = alive \cup {a}
      /\ new' = new \cup {k}
  BY <1>2
<1>4. /\ n \in Nat \ {0} /\ b \in Nat /\ b \in Blocks(range.len) /\ b + n <= range.len
      /\ range.off \in Nat /\ range.len \in Nat \ {0} /\ range.off + range.len <= FileLen
      /\ Source(b, n) = [i \in 1 .. n |-> range.off + b + i - 1]
  BY <1>1, SourceIsFile
<1>5. /\ arrays \in Seq([version : 0 .. MaxUpdates, bytes : Seq(Bytes)]) /\ version \in 0 .. MaxUpdates
      /\ FileLen \in Nat
  BY FilesConstants DEF IInv, TypeOK
<1>. HIDE DEF n
<1>6. A \in [version : 0 .. MaxUpdates, bytes : Seq(Bytes)]
      /\ A.bytes = [i \in 1 .. n |-> range.off + b + i - 1] /\ A.version = version
  <2>1. ASSUME NEW i \in 1 .. n PROVE range.off + b + i - 1 \in Bytes
    BY SMTT(30), <1>4, <1>5 DEF Bytes
  <2>2. [i \in 1 .. n |-> range.off + b + i - 1] \in [1 .. n -> Bytes]
    BY <2>1
  <2>3. Source(b, n) \in Seq(Bytes)
    BY <1>4, <2>2
  <2>. QED  BY <1>4, <1>5, <2>3
<1>. HIDE DEF A
<1>7. /\ arrays' \in Seq([version : 0 .. MaxUpdates, bytes : Seq(Bytes)])
      /\ a \in DOMAIN arrays' /\ a \notin DOMAIN arrays /\ DOMAIN arrays \subseteq DOMAIN arrays'
      /\ arrays'[a] = A /\ arrays' # << >>
  BY SMTT(30), <1>3, <1>5, <1>6
<1>8. Extends(arrays, arrays')
  BY <1>3, <1>5, <1>6, <1>7 DEF Extends
<1>9. /\ Live \subseteq Live' /\ a \in Live'
  BY <1>1, <1>3 DEF Live, seen
<1>10. \A S \in SUBSET Mappings(DOMAIN arrays) : S \in SUBSET Mappings(DOMAIN arrays')
  BY <1>7 DEF Mappings
<1>. HIDE DEF a
<1>11. /\ k.array = a /\ k.off = range.off + b /\ k.len = n /\ k.at = 0
       /\ k \in Mappings(DOMAIN arrays') /\ End(k) = range.off + b + n
       /\ Positions(k) = range.off + b .. range.off + b + n - 1
  <2>1. range.off + b \in Nat /\ 0 \in Nat
    BY <1>4
  <2>. QED  BY SMTT(30), <1>4, <1>7, <2>1 DEF Mappings, End, Positions
<1>. HIDE DEF k
<1>12. TypeOK'
  <2>1. /\ file' \subseteq Mappings(DOMAIN arrays') /\ dead' \subseteq Mappings(DOMAIN arrays')
        /\ (exnode \cup set \cup new \cup todo \cup kept)' \subseteq Mappings(DOMAIN arrays')
    <3>1. /\ file \in SUBSET Mappings(DOMAIN arrays) /\ dead \in SUBSET Mappings(DOMAIN arrays)
          /\ exnode \cup set \cup new \cup todo \cup kept \in SUBSET Mappings(DOMAIN arrays)
      BY DEF IInv, TypeOK
    <3>. QED  BY <1>1, <1>3, <1>10, <1>11, <3>1 DEF disk, mem
  <2>2. alive' \subseteq DOMAIN arrays' /\ excused' \subseteq DOMAIN arrays' /\ jobs' \subseteq Bytes
    BY <1>1, <1>3, <1>7 DEF IInv, TypeOK, seen
  <2>. QED  BY <1>1, <1>7, <2>1, <2>2 DEF IInv, TypeOK, disk, mem, reader, counts, seen
<1>13. ASSUME NEW S \in SUBSET Mappings(DOMAIN arrays), Sound(S, arrays, Live)
       PROVE  Sound(S, arrays', Live')
  <2>1. \A m \in S : m.array \in Live'
    BY <1>9, <1>13 DEF Sound
  <2>. QED  BY <1>8, <1>13, <2>1, SoundStays
<1>14. ASSUME NEW S \in SUBSET Mappings(DOMAIN arrays), NEW W, Versions(S, arrays, W)
       PROVE  Versions(S, arrays', W)
  BY <1>8, <1>14, VersionsStay
<1>15. /\ file \in SUBSET Mappings(DOMAIN arrays) /\ set \in SUBSET Mappings(DOMAIN arrays)
       /\ new \in SUBSET Mappings(DOMAIN arrays)
  BY DEF IInv, TypeOK
<1>16. FileInv'
  BY <1>1, <1>13, <1>14, <1>15 DEF IInv, FileInv, disk, seen
<1>17. Untouched'
  BY <1>1, <1>7 DEF IInv, Untouched, counts, seen
<1>18. ToolPcs' /\ ReaderInv' /\ PartInv'
  BY <1>1, ToolSame, ReaderSame, PartSame DEF IInv, mem, reader
<1>19. Idle' /\ WriteInv' /\ TrimInv'
  BY <1>1 DEF Idle, WriteInv, TrimInv
<1>20. UploadInv'
  <2>. SUFFICES ASSUME tool = "upload" PROVE UploadInv'
    BY <1>1 DEF UploadInv
  <2>1. /\ Tiles(set, 0 .. maxlen - 1) /\ Sound(set, arrays, Live) /\ Versions(set, arrays, want)
        /\ dead = {} /\ kept = {} /\ \A m \in new, l \in set : m.array # l.array
    BY <1>1 DEF IInv, UploadInv
  <2>2. \A m \in new \cup {k}, l \in set : m.array # l.array
    <3>1. \A l \in set : l.array # a
      BY <1>7, <1>15, Extent
    <3>. QED  BY <2>1, <3>1, <1>11
  <2>3. Sound(set, arrays', Live') /\ Versions(set, arrays', want)
    BY <2>1, <1>13, <1>14, <1>15
  <2>. QED  BY <1>1, <1>3, <2>1, <2>2, <2>3 DEF UploadInv, mem, seen
<1>21. UpdateInv'
  BY <1>1 DEF IInv, UpdateInv, disk, mem
<1>22. NewInv'
  <2>1. /\ jobs \subseteq Blocks(range.len) /\ Tiles(new, Cover(new)) /\ Sound(new, arrays, Live)
        /\ \A m \in new : /\ arrays[m.array].version = version
                          /\ \E c \in Blocks(range.len) \ jobs :
                                m.off = range.off + c /\ m.len = BlockLen(c, range.len)
    BY <1>1 DEF IInv, NewInv
  <2>2. Sound({k}, arrays', Live')
    <3>1. ASSUME NEW p \in Positions(k) PROVE arrays'[k.array].bytes[p - k.off + 1] = p
      <4>1. p \in range.off + b .. range.off + b + n - 1
        BY <1>11
      <4>2. p - k.off + 1 \in 1 .. n
        BY SMTT(30), <1>4, <1>11, <4>1
      <4>3. range.off + b + (p - k.off + 1) - 1 = p
        BY <1>4, <1>11, <4>1
      <4>. QED  BY <1>6, <1>7, <1>11, <4>2, <4>3
    <3>2. End(k) <= FileLen
      BY <1>4, <1>5, <1>11
    <3>. QED  BY <1>9, <1>11, <3>1, <3>2 DEF Sound, Placed
  <2>3. Sound(new', arrays', Live')
    BY <1>3, <1>13, <1>15, <2>1, <2>2 DEF Sound
  <2>4. ASSUME NEW m \in new PROVE Positions(m) \cap Positions(k) = {}
    <3>1. PICK c \in Blocks(range.len) \ jobs :
                m.off = range.off + c /\ m.len = BlockLen(c, range.len)
      BY <2>1
    <3>2. c # b /\ c \in Nat /\ BlockLen(c, range.len) \in Nat
      BY <1>4, <3>1, BlocksIn
    <3>3. c + BlockLen(c, range.len) <= b \/ b + n <= c
      BY <1>4, <3>1, <3>2, BlocksApart DEF n
    <3>4. Positions(m) = range.off + c .. range.off + c + BlockLen(c, range.len) - 1
      BY <1>4, <3>1, <3>2 DEF Positions, End
    <3>. QED  BY SMTT(30), <1>4, <1>11, <3>2, <3>3, <3>4
  <2>5. Tiles(new', Cover(new'))
    <3>1. \A m \in new : Positions(k) \cap Positions(m) = {} /\ Positions(m) \cap Positions(k) = {}
      BY <2>4
    <3>. QED  BY <1>3, <2>1, <3>1 DEF Tiles
  <2>6. \A m \in new' : /\ arrays'[m.array].version = version
                        /\ \E c \in Blocks(range.len) \ jobs' :
                              m.off = range.off + c /\ m.len = BlockLen(c, range.len)
    <3>1. arrays'[k.array].version = version /\ b \in Blocks(range.len) \ jobs'
      BY <1>3, <1>4, <1>6, <1>7, <1>11
    <3>2. ASSUME NEW m \in new PROVE arrays'[m.array].version = version
      BY <1>8, <1>15, <2>1, Extent DEF Extends
    <3>. QED  BY <1>3, <1>11, <2>1, <3>1, <3>2 DEF n
  <2>7. range' = range /\ version' = version /\ jobs' \subseteq Blocks(range.len)
    BY <1>1, <1>3, <2>1 DEF counts
  <2>8. /\ jobs' \subseteq Blocks(range'.len)
        /\ range'.off + range'.len <= FileLen /\ range'.len > 0
    BY <1>4, <2>7
  <2>9. \A m \in new' : /\ arrays'[m.array].version = version'
                        /\ \E c \in Blocks(range'.len) \ jobs' :
                              m.off = range'.off + c /\ m.len = BlockLen(c, range'.len)
    BY <2>6, <2>7
  <2>. QED  BY <2>3, <2>5, <2>8, <2>9 DEF NewInv
<1>. QED
  BY <1>12, <1>16, <1>17, <1>18, <1>19, <1>20, <1>21, <1>22 DEF IInv

\* A step of an update or of lors_trim.
LEMMA OtherFrame ==
    ASSUME TypeOK', FileInv', Untouched', NewInv', UpdateInv', TrimInv', WriteInv',
           tool' \in {"update", "trim"}, pc' \in {"store", "stat", "trim", "write"},
           ~fileJob'.reading, pc' = "stat" => tool' = "trim", pc' = "store" => tool' = "update",
           pc' # "write" => file' # {} /\ ~torn'
    PROVE  IInv'
<1>1. Idle' /\ ToolPcs' /\ ReaderInv' /\ PartInv' /\ UploadInv'
  BY DEF Idle, ToolPcs, ReaderInv, PartInv, UploadInv
<1>. QED  BY <1>1 DEF IInv

\* The new mappings lie in the range that was stored.
LEMMA NewInside ==
    ASSUME IInv, pc = "store"
    PROVE  /\ range.off \in Nat /\ range.len \in Nat \ {0} /\ range.off + range.len <= FileLen
           /\ new \in SUBSET Mappings(DOMAIN arrays)
           /\ \A m \in new : range.off <= m.off /\ End(m) <= range.off + range.len
<1>1. /\ range.off \in Nat /\ range.len \in Nat \ {0} /\ range.off + range.len <= FileLen
      /\ new \in SUBSET Mappings(DOMAIN arrays)
  BY DEF IInv, TypeOK, NewInv
<1>2. ASSUME NEW m \in new PROVE range.off <= m.off /\ End(m) <= range.off + range.len
  <2>1. PICK b \in Blocks(range.len) : m.off = range.off + b /\ m.len = BlockLen(b, range.len)
    BY DEF IInv, NewInv
  <2>2. b \in Nat /\ BlockLen(b, range.len) \in Nat /\ b + BlockLen(b, range.len) <= range.len
    BY <1>1, BlocksIn
  <2>. QED  BY <1>1, <2>1, <2>2 DEF End
<1>. QED  BY <1>1, <1>2

\* A set of which every mapping ends in the file holds bytes of the file.
LEMMA InFile ==
    ASSUME NEW A, NEW S \in SUBSET Mappings(A), \A m \in S : End(m) <= FileLen
    PROVE  Cover(S) \subseteq Bytes /\ \A m \in S : Positions(m) \subseteq Bytes
<1>1. ASSUME NEW m \in S PROVE Positions(m) \subseteq Bytes
  <2>1. \A p \in Positions(m) : p \in Nat /\ p < End(m) /\ End(m) \in Nat
    BY Extent
  <2>. QED  BY <2>1, FilesConstants DEF Bytes
<1>. QED  BY <1>1 DEF Cover

LEMMA StoredUpload == ASSUME IInv, Stored, tool = "upload" PROVE IInv'
<1>1. /\ pc = "store" /\ Whole /\ set' = set \cup new /\ maxlen' = FindMaxlength(set')
      /\ pc' = "join" /\ new' = {} /\ range' = NoRange /\ UNCHANGED <<todo, kept, opts>>
      /\ UNCHANGED <<disk, depots, tool, exnode, reader, ret, cur, jobs, dead, counts, seen>>
  BY DEF Stored
<1>2. /\ maxlen \in Nat /\ ret \in Nat /\ fpos \in Nat /\ fpos <= FileLen /\ FileLen \in Nat
      /\ set \in SUBSET Mappings(DOMAIN arrays)
  BY FilesConstants DEF IInv, TypeOK
<1>3. /\ maxlen + ret <= fpos /\ range.off = maxlen /\ range.len = ret /\ ret > 0
  <2>1. ret > 0 /\ maxlen + ret <= fpos /\ range = [off |-> maxlen, len |-> ret]
    BY <1>1 DEF IInv, PartInv, Handing
  <2>. QED  BY <2>1
<1>4. /\ Tiles(set, 0 .. maxlen - 1) /\ Sound(set, arrays, Live) /\ Versions(set, arrays, want)
      /\ dead = {} /\ kept = {}
  BY <1>1 DEF IInv, UploadInv
<1>5. /\ Tiles(new, maxlen .. maxlen + ret - 1) /\ Sound(new, arrays, Live)
      /\ \A m \in new : arrays[m.array].version = version
      /\ new \in SUBSET Mappings(DOMAIN arrays)
  BY <1>1, <1>3, NewInside DEF IInv, NewInv, Whole, Tiles
<1>6. /\ file = {} /\ ~torn /\ version = 0 /\ gone = {} /\ want = [p \in Bytes |-> 0] /\ doomed = {}
  BY <1>1, Uploading
<1>7. Versions(new, arrays, want)
  <2>1. \A m \in new : Positions(m) \subseteq Bytes
    BY <1>5, InFile DEF Sound
  <2>. QED  BY <1>5, <1>6, <2>1 DEF Versions
<1>8. Tiles(set', 0 .. (maxlen + ret) - 1)
  <2>1. (0 .. maxlen - 1) \cap (maxlen .. maxlen + ret - 1) = {}
    BY <1>2
  <2>2. (0 .. maxlen - 1) \cup (maxlen .. maxlen + ret - 1) = 0 .. (maxlen + ret) - 1
    BY <1>2
  <2>3. Tiles(set \cup new, (0 .. maxlen - 1) \cup (maxlen .. maxlen + ret - 1))
    BY <1>4, <1>5, <2>1, TilesUnion
  <2>. QED  BY <1>1, <2>2, <2>3
<1>9. set' \in SUBSET Mappings(DOMAIN arrays)
  BY <1>1, <1>2, <1>5
<1>10. maxlen' = maxlen + ret
  <2>. DEFINE w == maxlen + ret
  <2>1. w \in Nat /\ Cover(set') = 0 .. w - 1
    BY <1>2, <1>8 DEF Tiles
  <2>. QED  BY <1>1, <1>9, <2>1, LastOfPrefix
<1>11. TypeOK'
  <2>1. maxlen' \in 0 .. FileLen
    BY <1>2, <1>3, <1>10
  <2>2. range' \in [off : 0 .. FileLen, len : 0 .. FileLen]
    <3>1. 0 \in 0 .. FileLen
      BY <1>2
    <3>. QED  BY <1>1, <3>1 DEF NoRange
  <2>3. set' \cup new' \subseteq Mappings(DOMAIN arrays)
    BY <1>1, <1>9
  <2>. QED  BY <1>1, <2>1, <2>2, <2>3
            DEF IInv, TypeOK, Pcs, disk, depots, reader, counts, seen
<1>12. ReaderInv'
  <2>1. /\ fpos = maxlen + ret + fileJob.n
        /\ \A i \in 0 .. fileJob.n - 1 : buf[fileJob.buf][i] = maxlen + ret + i
        /\ ~fileJob.reading /\ fileJob.status = "success" => fileJob.n > 0
        /\ fileJob.status = "eof" => fpos = FileLen /\ fileJob.n = 0
        /\ fileJob.reading => fileJob.status = "success"
    BY <1>1 DEF IInv, ReaderInv, InHand, Handing
  <2>2. ~Handing' /\ InHand' = 0
    BY <1>1 DEF Handing, InHand
  <2>3. maxlen' + InHand' = maxlen + ret
    BY <1>2, <1>10, <2>2
  <2>. QED  BY <1>1, <2>1, <2>2, <2>3 DEF ReaderInv, reader
<1>13. PartInv' /\ NewInv' /\ WriteInv'
  BY <1>1 DEF PartInv, NewInv, WriteInv, Handing
<1>14. UploadInv'
  <2>1. Sound(set', arrays, Live) /\ Versions(set', arrays, want)
    BY <1>1, <1>4, <1>5, <1>7 DEF Sound, Versions
  <2>. QED  BY <1>1, <1>4, <1>8, <1>10, <2>1 DEF UploadInv, depots, seen, Live
<1>. QED  BY <1>1, <1>6, <1>11, <1>12, <1>13, <1>14, UploadFrame DEF counts, seen, depots

LEMMA StoredUpdate == ASSUME IInv, Stored, tool = "update" PROVE IInv'
<1>1. /\ pc = "store" /\ Whole /\ TrimFrom(set, range.off, range.len, UpdateTrim)
      /\ UNCHANGED <<maxlen, new>>
      /\ UNCHANGED <<disk, depots, tool, exnode, reader, ret, cur, jobs, dead, counts, seen>>
  BY DEF Stored
<1>2. /\ range.off \in Nat /\ range.len \in Nat \ {0} /\ range.off + range.len <= FileLen
      /\ new \in SUBSET Mappings(DOMAIN arrays)
      /\ \A m \in new : range.off <= m.off /\ End(m) <= range.off + range.len
  BY <1>1, NewInside
<1>3. /\ set = Query(file, range.off, range.len) /\ exnode = file \ set /\ dead = {}
      /\ todo = {} /\ kept = {}
  BY <1>1 DEF IInv, UpdateInv
<1>4. Query(set, range.off, range.len) = set
  BY <1>3 DEF Query
<1>5. /\ todo' = set /\ set' = {} /\ kept' = {} /\ range' = range /\ opts' = {"ALL"} /\ pc' = "trim"
  <2>1. range = [off |-> range.off, len |-> range.len]
    BY DEF IInv, TypeOK
  <2>. QED  BY <1>1, <1>4, <2>1 DEF TrimFrom, UpdateTrim
<1>6. /\ file # {} /\ ~torn /\ ~fileJob.reading
  BY <1>1 DEF IInv, ToolPcs
<1>7. /\ Tiles(file, Bytes \ gone) /\ Sound(file, arrays, Live) /\ Versions(file, arrays, want)
      /\ file \in SUBSET Mappings(DOMAIN arrays)
  BY <1>6 DEF IInv, FileInv, TypeOK
<1>8. TypeOK'
  BY <1>1, <1>5 DEF IInv, TypeOK, Pcs, disk, depots, reader, counts, seen
<1>9. FileInv' /\ Untouched'
  BY <1>1, FileSame, UntouchedSame DEF IInv, depots, counts, seen, Live
<1>10. NewInv' /\ WriteInv' /\ TrimInv'
  BY <1>1, <1>5 DEF NewInv, WriteInv, TrimInv
<1>11. exnode \cup {} \cup set = file /\ exnode \cup {} = file \ set
  BY <1>3 DEF Query
<1>12. Cover(exnode) \cap Changed = {}
  <2>1. \A m \in exnode : Positions(m) \cap Changed = {}
    BY <1>2, <1>3, <1>7, UnqueriedDisjoint DEF Changed
  <2>. QED  BY <2>1 DEF Cover
<1>13. Tiles(new, Changed) /\ Sound(new, arrays, Live) /\ \A m \in new : arrays[m.array].version = version
  BY <1>1 DEF IInv, NewInv, Whole, Changed
<1>14. \A m \in set : m \in Query(set, range.off, range.len)
  BY <1>4
<1>15. Cover(file) = Bytes \ gone
  BY <1>7 DEF Tiles
<1>16. UpdateInv'
  <2>1. Changed' = Changed /\ Live' = Live /\ arrays' = arrays /\ want' = want /\ version' = version
        /\ tool' = tool /\ new' = new /\ dead' = {} /\ gone' = gone /\ exnode' = exnode
    BY <1>1, <1>3, <1>5 DEF Changed, Live, depots, counts, seen
  <2>2. (exnode \cup kept \cup todo)' = file /\ (exnode \cup kept)' = exnode
    BY <1>5, <1>11, <2>1
  <2>3. /\ Tiles(file, Cover(file)) /\ Cover(file) \cup Changed = (Bytes \ gone) \cup Changed
        /\ Sound(file, arrays, Live) /\ Versions(file, arrays, want)
    BY <1>7, <1>15
  <2>4. pc' = "trim" =>
              LET X == exnode' \cup kept' \cup todo'
              IN  /\ set' = {} /\ opts' = UpdateTrim
                  /\ Tiles(X, Cover(X)) /\ Cover(X) \cup Changed' = (Bytes \ gone') \cup Changed'
                  /\ Sound(X, arrays', Live') /\ Versions(X, arrays', want')
                  /\ Cover(exnode' \cup kept') \cap Changed' = {}
                  /\ \A m \in todo' : m \in Query(todo', range'.off, range'.len)
                  /\ Tiles(new', Changed') /\ Sound(new', arrays', Live')
                  /\ \A m \in new' : arrays'[m.array].version = version'
    BY <1>5, <1>12, <1>13, <1>14, <2>1, <2>2, <2>3 DEF UpdateTrim
  <2>5. /\ range'.off + range'.len <= FileLen /\ range'.len > 0 /\ dead' = {} /\ pc' = "trim"
    BY <1>2, <1>5, <2>1
  <2>. QED  BY <2>4, <2>5 DEF UpdateInv
<1>. QED  BY <1>1, <1>5, <1>6, <1>8, <1>9, <1>10, <1>16, OtherFrame DEF disk, reader

LEMMA StoredInv == ASSUME IInv, Stored PROVE IInv'
BY StoredUpload, StoredUpdate DEF Stored, IInv, ToolPcs

LEMMA StoredPartlyInv == ASSUME IInv, StoredPartly PROVE IInv'
<1>1. /\ pc = "store" /\ tool = "upload" /\ new' = {}
      /\ TrimFrom(set \cup new, range.off, range.len, Restore)
      /\ UNCHANGED <<disk, depots, tool, exnode, maxlen, reader, ret, cur, jobs, dead, counts,
                     seen>>
  BY DEF StoredPartly
<1>2. /\ range.off \in Nat /\ range.len \in Nat \ {0}
      /\ new \in SUBSET Mappings(DOMAIN arrays) /\ set \in SUBSET Mappings(DOMAIN arrays)
      /\ \A m \in new : range.off <= m.off /\ End(m) <= range.off + range.len
  BY <1>1, NewInside DEF IInv, TypeOK
<1>3. range = [off |-> maxlen, len |-> ret] /\ range.off = maxlen /\ maxlen \in Nat
  <2>1. range = [off |-> maxlen, len |-> ret]
    BY <1>1 DEF IInv, PartInv, Handing
  <2>. QED  BY <2>1 DEF IInv, TypeOK
<1>4. /\ Tiles(set, 0 .. maxlen - 1) /\ dead = {} /\ \A m \in new, k \in set : m.array # k.array
  BY <1>1 DEF IInv, UploadInv
<1>5. ASSUME NEW m \in set PROVE m \notin Query(set \cup new, range.off, range.len)
  <2>1. End(m) <= maxlen
    <3>1. Positions(m) \subseteq 0 .. maxlen - 1
      BY <1>4 DEF Tiles, Cover
    <3>2. m.off \in Nat /\ m.len \in Nat \ {0} /\ End(m) = m.off + m.len
      BY <1>2, Extent DEF End
    <3>3. End(m) - 1 \in Positions(m)
      BY <3>2 DEF Positions
    <3>4. End(m) - 1 \in 0 .. maxlen - 1
      BY <3>1, <3>3
    <3>. QED  BY <1>3, <3>2, <3>4
  <2>. QED  BY <1>2, <1>3, <2>1, Extent DEF Query
<1>6. ASSUME NEW m \in new PROVE m \in Query(set \cup new, range.off, range.len)
  <2>1. m.off \in Nat /\ End(m) \in Nat /\ m.off < End(m)
    BY <1>2, Extent
  <2>. QED  BY <1>2, <2>1 DEF Query
<1>7. /\ Query(set \cup new, range.off, range.len) = new
      /\ (set \cup new) \ new = set
  <2>1. Query(set \cup new, range.off, range.len) \subseteq set \cup new
    BY DEF Query
  <2>. QED  BY <1>4, <1>5, <1>6, <2>1
<1>8. /\ todo' = new /\ set' = set /\ kept' = {} /\ opts' = Restore /\ pc' = "trim" /\ range' = range
  BY <1>1, <1>3, <1>7 DEF TrimFrom
<1>9. TypeOK'
  BY <1>1, <1>8 DEF IInv, TypeOK, Pcs, Restore, disk, depots, reader, counts, seen
<1>10. ReaderInv'
  BY <1>1, <1>8 DEF IInv, ReaderInv, InHand, Handing, reader
<1>11. PartInv'
  BY <1>1, <1>3, <1>8 DEF IInv, PartInv, Handing, reader
<1>12. NewInv' /\ WriteInv'
  BY <1>8 DEF NewInv, WriteInv
<1>13. UploadInv'
  <2>1. \A m \in todo' : Covers(m)' /\ \A k \in set : m.array # k.array
    BY <1>2, <1>4, <1>8 DEF Covers
  <2>. QED  BY <1>1, <1>8, <2>1 DEF IInv, UploadInv, depots, seen, Live
<1>. QED  BY <1>1, <1>8, <1>9, <1>10, <1>11, <1>12, <1>13, Uploading, UploadFrame DEF counts, seen, depots

-----------------------------------------------------------------------------
(* The trim. *)

Piece(m) == IF m \in dead THEN {}
            ELSE IF "ALL" \in opts THEN Cut(m, range.off, range.len) ELSE {m}

LEMMA TrimOneStep ==
    ASSUME IInv, TrimOne
    PROVE  /\ pc = "trim" /\ tool \in {"upload", "update", "trim"}
           /\ UNCHANGED <<disk, arrays, tool, pc, mem, reader, ret, cur, range, jobs, new, opts,
                          dead, version, trims, crashes, seen>>
           /\ failures' \in 0 .. MaxFailures
           /\ \E m \in todo :
                 /\ todo' = todo \ {m} /\ kept' = kept \cup Piece(m)
                 /\ \/ alive' = alive
                    \/ alive' = alive \ {m.array} /\ m \notin dead /\ {"ALL", "DECR"} \subseteq opts
<1>1. /\ pc = "trim"
      /\ UNCHANGED <<disk, arrays, tool, pc, mem, reader, ret, cur, range, jobs, new, opts,
                     dead, version, trims, crashes, seen>>
  BY DEF TrimOne
<1>2. tool \in {"upload", "update", "trim"}
  BY <1>1 DEF IInv, ToolPcs, TypeOK, Tools
<1>3. PICK m \in todo :
          /\ todo' = todo \ {m} /\ kept' = kept \cup Piece(m)
          /\ IF m \notin dead /\ {"ALL", "DECR"} \subseteq opts /\ Covers(m)
               THEN \/ alive' = alive \ {m.array} /\ UNCHANGED failures
                    \/ Fails /\ UNCHANGED alive
               ELSE UNCHANGED <<alive, failures>>
  BY DEF TrimOne, Piece
<1>4. \/ alive' = alive
      \/ alive' = alive \ {m.array} /\ m \notin dead /\ {"ALL", "DECR"} \subseteq opts
  BY <1>3
<1>5. failures' \in 0 .. MaxFailures
  BY <1>3, TypeFails
<1>. QED  BY <1>1, <1>2, <1>3, <1>4, <1>5

\* The pieces are mappings of the same array.
LEMMA PieceType ==
    ASSUME IInv, NEW m \in todo,
           "ALL" \in opts => Cut(m, range.off, range.len) \in SUBSET Mappings(DOMAIN arrays)
    PROVE  Piece(m) \in SUBSET Mappings(DOMAIN arrays)
<1>1. todo \subseteq Mappings(DOMAIN arrays)
  BY DEF IInv, TypeOK
<1>. QED  BY <1>1 DEF Piece

LEMMA TrimOneType ==
    ASSUME IInv, NEW m \in todo, todo' = todo \ {m}, kept' = kept \cup Piece(m),
           Piece(m) \in SUBSET Mappings(DOMAIN arrays), alive' \subseteq alive,
           failures' \in 0 .. MaxFailures,
           UNCHANGED <<disk, arrays, tool, pc, mem, reader, ret, cur, range, jobs, new, opts,
                       dead, version, trims, crashes, seen>>
    PROVE  TypeOK'
<1>1. /\ exnode' \cup set' \cup new' \cup todo' \cup kept' \subseteq Mappings(DOMAIN arrays)
      /\ alive' \subseteq DOMAIN arrays
  BY DEF IInv, TypeOK, mem
<1>. QED  BY <1>1 DEF IInv, TypeOK, disk, mem, reader, seen

LEMMA TrimOneUpload == ASSUME IInv, TrimOne, tool = "upload" PROVE IInv'
<1>1. /\ pc = "trim" /\ failures' \in 0 .. MaxFailures
      /\ UNCHANGED <<disk, arrays, tool, pc, mem, reader, ret, cur, range, jobs, new, opts,
                     dead, version, trims, crashes, seen>>
  BY TrimOneStep
<1>2. PICK m \in todo :
          /\ todo' = todo \ {m} /\ kept' = kept \cup Piece(m)
          /\ \/ alive' = alive
             \/ alive' = alive \ {m.array} /\ m \notin dead /\ {"ALL", "DECR"} \subseteq opts
  BY TrimOneStep
<1>3. /\ Tiles(set, 0 .. maxlen - 1) /\ Sound(set, arrays, Live) /\ Versions(set, arrays, want)
      /\ dead = {} /\ kept = {} /\ opts = Restore
      /\ \A k \in todo : Covers(k) /\ \A l \in set : k.array # l.array
  BY <1>1 DEF IInv, UploadInv
<1>4. Piece(m) = {}
  <2>1. range.off \in Nat /\ range.len \in Nat /\ m \in Mappings(DOMAIN arrays)
    BY DEF IInv, TypeOK
  <2>2. range.off <= m.off /\ End(m) <= range.off + range.len
    BY <1>3 DEF Covers
  <2>3. Cut(m, range.off, range.len) = {}
    BY <2>1, <2>2, CutInside
  <2>. QED  BY <1>3, <2>3 DEF Piece, Restore
<1>5. TypeOK'
  <2>1. alive' \subseteq alive
    BY <1>2
  <2>. QED  BY <1>1, <1>2, <1>4, <2>1, TrimOneType
<1>6. Sound(set, arrays, Live')
  <2>1. \A l \in set : l.array \in Live'
    BY <1>1, <1>2, <1>3 DEF Sound, Live, seen
  <2>. QED  BY <1>3, <2>1 DEF Sound
<1>7. UploadInv'
  <2>1. \A k \in todo' : Covers(k)' /\ \A l \in set : k.array # l.array
    BY <1>1, <1>2, <1>3 DEF Covers
  <2>2. kept' = {}
    BY <1>2, <1>3, <1>4
  <2>. QED  BY <1>1, <1>3, <1>6, <2>1, <2>2 DEF UploadInv, mem, seen
<1>8. ReaderInv' /\ PartInv'
  BY <1>1, ReaderSame, PartSame DEF IInv, mem
<1>9. NewInv' /\ WriteInv'
  BY <1>1 DEF NewInv, WriteInv
<1>. QED  BY <1>1, <1>5, <1>7, <1>8, <1>9, Uploading, UploadFrame DEF seen

LEMMA TrimOneUpdate == ASSUME IInv, TrimOne, tool = "update" PROVE IInv'
<1>. DEFINE X == exnode \cup kept \cup todo
            A == DOMAIN arrays
<1>1. /\ pc = "trim" /\ failures' \in 0 .. MaxFailures
      /\ UNCHANGED <<disk, arrays, tool, pc, mem, reader, ret, cur, range, jobs, new, opts,
                     dead, version, trims, crashes, seen>>
  BY TrimOneStep
<1>2. PICK m \in todo :
          /\ todo' = todo \ {m} /\ kept' = kept \cup Piece(m)
          /\ \/ alive' = alive
             \/ alive' = alive \ {m.array} /\ m \notin dead /\ {"ALL", "DECR"} \subseteq opts
  BY TrimOneStep
<1>. DEFINE K == Cut(m, range.off, range.len)
            Y == (X \ {m}) \cup K
<1>3. /\ set = {} /\ opts = UpdateTrim /\ dead = {} /\ range.off + range.len <= FileLen
      /\ range.len > 0
      /\ Tiles(X, Cover(X)) /\ Cover(X) \cup Changed = (Bytes \ gone) \cup Changed
      /\ Sound(X, arrays, Live) /\ Versions(X, arrays, want)
      /\ Cover(exnode \cup kept) \cap Changed = {}
      /\ \A k \in todo : k \in Query(todo, range.off, range.len)
      /\ Tiles(new, Changed) /\ Sound(new, arrays, Live)
      /\ \A k \in new : arrays[k.array].version = version
  BY <1>1 DEF IInv, UpdateInv
<1>4. /\ alive' = alive /\ Piece(m) = K
  BY <1>2, <1>3 DEF UpdateTrim, Piece
<1>5. /\ range.off \in Nat /\ range.len \in Nat \ {0} /\ X \in SUBSET Mappings(A) /\ m \in X
      /\ m \in Mappings(A)
  BY <1>3 DEF IInv, TypeOK
<1>6. m.off < range.off + range.len /\ range.off < End(m)
  BY <1>3 DEF Query
<1>7. /\ K \in SUBSET Mappings(A) /\ Tiles(K, Positions(m) \ Changed)
      /\ \A c \in K : /\ c.array = m.array /\ End(c) <= End(m) /\ Positions(c) \subseteq Positions(m)
                      /\ c.at = 0 => m.at = 0 /\ c.off = m.off
  <2>. DEFINE o == range.off
              l == range.len
  <2>1. o \in Nat /\ l \in Nat \ {0} /\ m.off < o + l /\ o < End(m)
    BY <1>5, <1>6
  <2>. HIDE DEF o, l, A
  <2>2. /\ Cut(m, o, l) \in SUBSET Mappings(A)
        /\ Tiles(Cut(m, o, l), Positions(m) \ (o .. o + l - 1))
        /\ \A c \in Cut(m, o, l) :
              /\ c.array = m.array /\ End(c) <= End(m) /\ Positions(c) \subseteq Positions(m)
              /\ c.at = 0 => m.at = 0 /\ c.off = m.off
    BY <1>5, <2>1, CutPieces
  <2>. QED  BY <2>2 DEF o, l, Changed
<1>8. Tiles(Y, Cover(Y)) /\ Cover(Y) = Cover(X) \ (Positions(m) \cap Changed)
  <2>. HIDE DEF X, A
  <2>1. Tiles(X, Cover(X))
    BY <1>3 DEF X
  <2>. QED  BY <1>5, <1>6, <2>1, TilesCut DEF Changed
<1>. HIDE DEF K
<1>9. m \notin exnode \cup kept
  <2>1. Positions(m) \cap Changed # {}
    <3>1. todo \in SUBSET Mappings(A) /\ m \in Query(todo, range.off, range.len)
      BY <1>3, <1>5 DEF IInv, TypeOK
    <3>. QED  BY <1>5, <3>1, QueryMeets DEF Changed
  <2>. QED  BY <1>3, <2>1 DEF Cover
<1>10. exnode' \cup kept' \cup todo' = Y
  BY <1>1, <1>2, <1>4, <1>9 DEF mem
<1>11. Cover(exnode \cup kept') \cap Changed = {}
  <2>1. Cover(K) \cap Changed = {}
    BY <1>7 DEF Tiles
  <2>. QED  BY <1>2, <1>3, <1>4, <2>1 DEF Cover
<1>12. Sound(Y, arrays, Live) /\ Versions(Y, arrays, want)
  <2>1. ASSUME NEW c \in K
        PROVE  /\ Placed(arrays, c) /\ End(c) <= FileLen /\ c.array \in Live
               /\ \A p \in Positions(c) : arrays[c.array].version = want[p]
    <3>1. /\ Placed(arrays, m) /\ End(m) <= FileLen /\ m.array \in Live
          /\ \A p \in Positions(m) : arrays[m.array].version = want[p]
      BY <1>3 DEF Sound, Versions
    <3>2. /\ c.array = m.array /\ End(c) <= End(m) /\ Positions(c) \subseteq Positions(m)
          /\ c.at = 0 => m.at = 0 /\ c.off = m.off
      BY <1>7
    <3>3. End(c) \in Nat /\ End(m) \in Nat
      BY <1>5, <1>7, Extent
    <3>4. End(c) <= FileLen
      BY <3>1, <3>2, <3>3, FilesConstants
    <3>5. Placed(arrays, c)
      BY <3>1, <3>2 DEF Placed
    <3>. QED  BY <3>1, <3>2, <3>4, <3>5
  <2>. QED  BY <1>3, <2>1 DEF Sound, Versions
<1>13. Cover(Y) \cup Changed = (Bytes \ gone) \cup Changed
  <2>. HIDE DEF X, Y
  <2>1. Cover(X) \cup Changed = (Bytes \ gone) \cup Changed
    BY <1>3 DEF X
  <2>2. Cover(Y) \cup Changed = Cover(X) \cup Changed
    BY <1>8
  <2>. QED  BY <2>1, <2>2
<1>14. TypeOK'
  BY <1>1, <1>2, <1>4, <1>7, TrimOneType
<1>15. /\ Changed' = Changed /\ Live' = Live /\ arrays' = arrays /\ want' = want
       /\ version' = version /\ tool' = tool /\ new' = new /\ dead' = {} /\ gone' = gone
       /\ exnode' = exnode /\ set' = {} /\ opts' = UpdateTrim /\ range' = range /\ pc' = "trim"
       /\ file' = file /\ torn' = torn /\ doomed' = doomed /\ fileJob' = fileJob
  BY <1>1, <1>3, <1>4 DEF Changed, Live, seen, mem, disk, reader
<1>16. \A k \in todo' : k \in Query(todo', range.off, range.len)
  BY <1>2, <1>3 DEF Query
<1>. HIDE DEF X, Y
<1>17. UpdateInv'
  <2>1. pc' = "trim" =>
              LET Z == exnode' \cup kept' \cup todo'
              IN  /\ set' = {} /\ opts' = UpdateTrim
                  /\ Tiles(Z, Cover(Z)) /\ Cover(Z) \cup Changed' = (Bytes \ gone') \cup Changed'
                  /\ Sound(Z, arrays', Live') /\ Versions(Z, arrays', want')
                  /\ Cover(exnode' \cup kept') \cap Changed' = {}
                  /\ \A k \in todo' : k \in Query(todo', range'.off, range'.len)
                  /\ Tiles(new', Changed') /\ Sound(new', arrays', Live')
                  /\ \A k \in new' : arrays'[k.array].version = version'
    BY <1>3, <1>8, <1>10, <1>11, <1>12, <1>13, <1>15, <1>16
  <2>2. /\ range'.off + range'.len <= FileLen /\ range'.len > 0 /\ dead' = {} /\ pc' = "trim"
    BY <1>3, <1>15
  <2>. QED  BY <2>1, <2>2 DEF UpdateInv
<1>18. FileInv' /\ Untouched'
  BY <1>15, FileSame, UntouchedSame DEF IInv, disk
<1>19. NewInv' /\ TrimInv' /\ WriteInv'
  BY <1>15 DEF NewInv, TrimInv, WriteInv
<1>20. file # {} /\ ~torn /\ ~fileJob.reading
  BY <1>1 DEF IInv, ToolPcs
<1>. QED  BY <1>14, <1>15, <1>17, <1>18, <1>19, <1>20, OtherFrame

LEMMA TrimOneTrim == ASSUME IInv, TrimOne, tool = "trim" PROVE IInv'
<1>1. /\ pc = "trim" /\ failures' \in 0 .. MaxFailures
      /\ UNCHANGED <<disk, arrays, tool, pc, mem, reader, ret, cur, range, jobs, new, opts,
                     dead, version, trims, crashes, seen>>
  BY TrimOneStep
<1>2. PICK m \in todo :
          /\ todo' = todo \ {m} /\ kept' = kept \cup Piece(m)
          /\ \/ alive' = alive
             \/ alive' = alive \ {m.array} /\ m \notin dead /\ {"ALL", "DECR"} \subseteq opts
  BY TrimOneStep
<1>3. /\ set = {} /\ range.off = 0 /\ \A k \in todo : End(k) <= range.len
      /\ exnode \cup kept \cup todo \subseteq file
      /\ Cover(Staying) = Bytes \ (gone \cup doomed)
      /\ {"ALL", "DECR"} \subseteq opts => \A k \in todo : k.array \in excused
      /\ new = {}
  BY <1>1 DEF IInv, TrimInv
<1>4. m \in Mappings(DOMAIN arrays) /\ range.len \in Nat
  BY DEF IInv, TypeOK
<1>5. Cut(m, range.off, range.len) = {}
  <2>1. m.off \in Nat /\ range.off \in Nat /\ range.off <= m.off /\ End(m) <= range.off + range.len
    BY <1>3, <1>4, Extent
  <2>. QED  BY <1>4, <2>1, CutInside
<1>6. Piece(m) = IF Going(m) THEN {} ELSE {m}
  BY <1>5 DEF Piece, Going
<1>7. TypeOK'
  <2>1. alive' \subseteq alive /\ Piece(m) \in SUBSET Mappings(DOMAIN arrays)
    BY <1>2, <1>4, <1>6
  <2>. QED  BY <1>1, <1>2, <2>1, TrimOneType
<1>8. Live' = Live
  BY <1>1, <1>2, <1>3 DEF Live, seen
<1>9. Staying' = Staying
  <2>1. \A k : Going(k)' <=> Going(k)
    BY <1>1 DEF Going
  <2>. QED  BY <1>1, <1>2, <1>6, <2>1 DEF Staying, mem
<1>10. exnode' \cup kept' \cup todo' \subseteq file
  BY <1>1, <1>2, <1>3, <1>6 DEF mem
<1>11. TrimInv'
  <2>1. todo' \subseteq todo
    BY <1>2
  <2>. QED  BY <1>1, <1>3, <1>9, <1>10, <2>1 DEF TrimInv, disk, mem, seen
<1>12. FileInv' /\ Untouched'
  BY <1>1, <1>8, FileSame, UntouchedSame DEF IInv, seen
<1>13. NewInv' /\ UpdateInv' /\ WriteInv'
  BY <1>1 DEF NewInv, UpdateInv, WriteInv
<1>14. file # {} /\ ~torn /\ ~fileJob.reading
  BY <1>1 DEF IInv, ToolPcs
<1>. QED  BY <1>1, <1>7, <1>11, <1>12, <1>13, <1>14, OtherFrame DEF disk, reader

LEMMA TrimOneInv == ASSUME IInv, TrimOne PROVE IInv'
BY TrimOneStep, TrimOneUpload, TrimOneUpdate, TrimOneTrim

LEMMA TrimmedUpload == ASSUME IInv, Trimmed, tool = "upload" PROVE IInv'
<1>1. /\ pc = "trim" /\ set' = set \cup kept /\ kept' = {} /\ pc' = "refill"
      /\ UNCHANGED <<exnode, new>>
      /\ UNCHANGED <<disk, depots, tool, maxlen, reader, ret, cur, range, jobs, todo, opts,
                     dead, counts, seen>>
  BY DEF Trimmed
<1>2. kept = {}
  BY <1>1 DEF IInv, UploadInv
<1>3. set' = set
  BY <1>1, <1>2
<1>4. TypeOK'
  BY <1>1, <1>3 DEF IInv, TypeOK, Pcs, disk, depots, reader, counts, seen
<1>5. ReaderInv'
  BY <1>1 DEF IInv, ReaderInv, InHand, Handing, reader
<1>6. PartInv'
  BY <1>1 DEF IInv, PartInv, Handing, reader
<1>7. NewInv' /\ WriteInv'
  BY <1>1 DEF NewInv, WriteInv
<1>8. UploadInv'
  BY <1>1, <1>3 DEF IInv, UploadInv, depots, seen, Live
<1>. QED  BY <1>1, <1>4, <1>5, <1>6, <1>7, <1>8, Uploading, UploadFrame DEF counts, seen, depots

\* What an update or lors_trim has left goes into the exnode.
LEMMA TrimmedStep ==
    ASSUME IInv, Trimmed, tool \in {"update", "trim"}
    PROVE  /\ pc = "trim" /\ todo = {} /\ set = {} /\ kept' = {} /\ new' = {} /\ pc' = "write"
           /\ set' = kept /\ exnode' = exnode \cup kept \cup new
           /\ UNCHANGED <<disk, depots, tool, maxlen, reader, ret, cur, range, jobs, todo, opts,
                          dead, counts, seen>>
           /\ TypeOK' /\ FileInv' /\ Untouched' /\ NewInv' /\ ~fileJob.reading
<1>1. /\ pc = "trim" /\ todo = {} /\ set' = set \cup kept /\ kept' = {} /\ pc' = "write"
      /\ exnode' = exnode \cup set' \cup new /\ new' = {}
      /\ UNCHANGED <<disk, depots, tool, maxlen, reader, ret, cur, range, jobs, todo, opts,
                     dead, counts, seen>>
  BY DEF Trimmed
<1>2. set = {}
  BY <1>1 DEF IInv, UpdateInv, TrimInv
<1>3. TypeOK'
  <2>1. exnode' \cup set' \cup new' \cup todo' \cup kept' \subseteq Mappings(DOMAIN arrays)
    BY <1>1 DEF IInv, TypeOK
  <2>. QED  BY <1>1, <2>1 DEF IInv, TypeOK, Pcs, disk, depots, reader, counts, seen
<1>4. FileInv' /\ Untouched'
  BY <1>1, FileSame, UntouchedSame DEF IInv, depots, counts, seen, Live
<1>5. NewInv' /\ ~fileJob.reading
  BY <1>1 DEF NewInv, IInv, ToolPcs
<1>. QED  BY <1>1, <1>2, <1>3, <1>4, <1>5

LEMMA TrimmedUpdate == ASSUME IInv, Trimmed, tool = "update" PROVE IInv'
<1>. DEFINE X == exnode \cup kept
<1>1. /\ pc = "trim" /\ todo = {} /\ kept' = {} /\ new' = {} /\ pc' = "write"
      /\ exnode' = exnode \cup kept \cup new
      /\ UNCHANGED <<disk, depots, tool, maxlen, reader, ret, cur, range, jobs, todo, opts,
                     dead, counts, seen>>
      /\ TypeOK' /\ FileInv' /\ Untouched' /\ NewInv' /\ ~fileJob.reading
  BY TrimmedStep
<1>2. X = exnode \cup kept \cup todo
  BY <1>1
<1>3. /\ dead = {} /\ range.off + range.len <= FileLen /\ range.len > 0
      /\ Tiles(X, Cover(X)) /\ Cover(X) \cup Changed = (Bytes \ gone) \cup Changed
      /\ Sound(X, arrays, Live) /\ Versions(X, arrays, want)
      /\ Cover(X) \cap Changed = {}
      /\ Tiles(new, Changed) /\ Sound(new, arrays, Live)
      /\ \A k \in new : arrays[k.array].version = version
  <2>1. /\ dead = {} /\ range.off + range.len <= FileLen /\ range.len > 0
        /\ LET Z == exnode \cup kept \cup todo
           IN  /\ Tiles(Z, Cover(Z)) /\ Cover(Z) \cup Changed = (Bytes \ gone) \cup Changed
               /\ Sound(Z, arrays, Live) /\ Versions(Z, arrays, want)
        /\ Cover(exnode \cup kept) \cap Changed = {}
        /\ Tiles(new, Changed) /\ Sound(new, arrays, Live)
        /\ \A k \in new : arrays[k.array].version = version
    BY <1>1 DEF IInv, UpdateInv
  <2>. QED  BY <1>2, <2>1
<1>4. /\ X \in SUBSET Mappings(DOMAIN arrays) /\ new \in SUBSET Mappings(DOMAIN arrays)
      /\ want \in [Bytes -> 0 .. MaxUpdates]
  BY DEF IInv, TypeOK
<1>5. doomed = {}
  BY NothingDoomed
<1>. HIDE DEF X
<1>6. Tiles(X \cup new, Cover(X) \cup Changed)
  BY <1>3, TilesUnion
<1>7. Sound(X \cup new, arrays, Live)
  BY <1>3 DEF Sound
<1>8. Renewed = Changed
  BY DEF Renewed, Changed
<1>9. Versions(X \cup new, arrays, Due)
  <2>1. ASSUME NEW m \in X, NEW p \in Positions(m) PROVE arrays[m.array].version = Due[p]
    <3>1. p \in Bytes
      BY <1>3, <1>4, InFile DEF Sound
    <3>2. p \notin Changed
      BY <1>3 DEF Cover
    <3>. QED  BY <1>3, <1>8, <3>1, <3>2 DEF Due, Versions
  <2>2. ASSUME NEW m \in new, NEW p \in Positions(m) PROVE arrays[m.array].version = Due[p]
    <3>1. p \in Bytes
      BY <1>3, <1>4, InFile DEF Sound
    <3>2. p \in Changed
      BY <1>3 DEF Cover, Tiles
    <3>. QED  BY <1>3, <1>8, <3>1, <3>2 DEF Due
  <2>. QED  BY <2>1, <2>2 DEF Versions
<1>10. exnode' = X \cup new
  BY <1>1 DEF X
<1>11. /\ Renewed' = Renewed /\ Due' = Due /\ Live' = Live /\ arrays' = arrays /\ gone' = gone
       /\ doomed' = {} /\ file' = file /\ torn' = torn
  BY <1>1, <1>5 DEF Renewed, Due, Live, depots, disk, counts, seen
<1>12. WriteInv'
  <2>1. (Bytes \ (gone' \cup doomed')) \cup Renewed' = Cover(X) \cup Changed
    BY <1>3, <1>8, <1>11
  <2>2. Tiles(exnode', (Bytes \ (gone' \cup doomed')) \cup Renewed')
    BY <1>6, <1>10, <2>1
  <2>. QED  BY <1>7, <1>9, <1>10, <1>11, <2>2 DEF WriteInv
<1>13. UpdateInv' /\ TrimInv'
  BY <1>1, <1>3 DEF UpdateInv, TrimInv
<1>. QED  BY <1>1, <1>12, <1>13, OtherFrame DEF reader

LEMMA DueIsWant ==
    ASSUME IInv, Renewed = {}
    PROVE  Due = want
<1>1. want \in [Bytes -> 0 .. MaxUpdates]
  BY DEF IInv, TypeOK
<1>. QED  BY <1>1 DEF Due

LEMMA TrimmedTrim == ASSUME IInv, Trimmed, tool = "trim" PROVE IInv'
<1>1. /\ pc = "trim" /\ todo = {} /\ kept' = {} /\ new' = {} /\ pc' = "write"
      /\ exnode' = exnode \cup kept \cup new
      /\ UNCHANGED <<disk, depots, tool, maxlen, reader, ret, cur, range, jobs, todo, opts,
                     dead, counts, seen>>
      /\ TypeOK' /\ FileInv' /\ Untouched' /\ NewInv' /\ ~fileJob.reading
  BY TrimmedStep
<1>2. /\ exnode \cup kept \cup todo \subseteq file /\ new = {}
      /\ Cover(Staying) = Bytes \ (gone \cup doomed)
  BY <1>1 DEF IInv, TrimInv
<1>3. exnode' = Staying /\ exnode' \subseteq file
  BY <1>1, <1>2 DEF Staying
<1>4. /\ Tiles(file, Bytes \ gone) /\ Sound(file, arrays, Live) /\ Versions(file, arrays, want)
  BY <1>1 DEF IInv, ToolPcs, FileInv
<1>5. Tiles(exnode', Cover(exnode'))
  BY <1>3, <1>4, TilesLess
<1>6. Renewed = {}
  BY DEF Renewed
<1>7. /\ Renewed' = {} /\ Due' = want /\ Live' = Live /\ arrays' = arrays /\ gone' = gone
      /\ doomed' = doomed
  BY <1>1, <1>6, DueIsWant DEF Renewed, Due, Live, depots, counts, seen
<1>8. WriteInv'
  <2>1. (Bytes \ (gone' \cup doomed')) \cup Renewed' = Cover(exnode')
    BY <1>2, <1>3, <1>7
  <2>. QED  BY <1>3, <1>4, <1>5, <1>7, <2>1, SoundSubset, VersionsSubset DEF WriteInv
<1>9. UpdateInv' /\ TrimInv'
  BY <1>1 DEF UpdateInv, TrimInv
<1>. QED  BY <1>1, <1>8, <1>9, OtherFrame DEF reader

LEMMA TrimmedInv == ASSUME IInv, Trimmed PROVE IInv'
<1>1. tool \in {"upload", "update", "trim"}
  BY DEF Trimmed, IInv, ToolPcs, TypeOK, Tools
<1>. QED  BY <1>1, TrimmedUpload, TrimmedUpdate, TrimmedTrim

-----------------------------------------------------------------------------
(* The update and lors_trim begin. *)

LEMMA FileThere ==
    ASSUME IInv, file # {}
    PROVE  /\ arrays # << >> /\ ~torn
           /\ file \in SUBSET Mappings(DOMAIN arrays) /\ Tiles(file, Bytes \ gone)
           /\ Sound(file, arrays, Live) /\ Versions(file, arrays, want)
           /\ \A m \in file : End(m) <= FileLen /\ m.array \in DOMAIN arrays
<1>1. file \in SUBSET Mappings(DOMAIN arrays)
  BY DEF IInv, TypeOK
<1>2. \A m \in file : m.array \in DOMAIN arrays
  BY <1>1, Extent
<1>3. arrays # << >>
  BY <1>2
<1>. QED  BY <1>1, <1>2, <1>3 DEF IInv, FileInv, Sound

LEMMA BeginUpdateInv == ASSUME IInv, BeginUpdate PROVE IInv'
<1>1. /\ pc = "idle" /\ file # {} /\ version < MaxUpdates /\ version' = version + 1
      /\ tool' = "update"
      /\ UNCHANGED <<disk, depots, reader, ret, cur, todo, kept, opts, dead, trims, failures,
                     crashes, seen>>
  BY DEF BeginUpdate
<1>2. PICK r \in Ranges :
          /\ set' = Query(file, r[1], r[2])
          /\ exnode' = file \ set'
          /\ maxlen' = FindMaxlength(set')
          /\ StoreAt(r[1], r[2])
  BY DEF BeginUpdate
<1>3. r[1] \in Nat /\ r[2] \in Nat \ {0} /\ r[1] + r[2] <= FileLen
  BY FilesAssumption
<1>4. /\ NewInv' /\ jobs' \subseteq Bytes /\ range' \in [off : 0 .. FileLen, len : 0 .. FileLen]
      /\ pc' = "store" /\ new' = {} /\ range' = [off |-> r[1], len |-> r[2]]
  BY <1>2, <1>3, StoreStarts
<1>5. range'.off = r[1] /\ range'.len = r[2]
  BY <1>4
<1>6. /\ tool = "none" /\ todo = {} /\ kept = {} /\ dead = {} /\ ~fileJob.reading /\ doomed = {}
  BY <1>1 DEF IInv, Idle, NoJob, Untouched
<1>7. set' \subseteq file /\ exnode' \subseteq file
  BY <1>2 DEF Query
<1>8. maxlen' \in 0 .. FileLen
  BY <1>1, <1>2, <1>7, FileThere, LastIn
<1>9. version' \in 0 .. MaxUpdates
  BY <1>1, FilesConstants DEF IInv, TypeOK
<1>10. TypeOK'
  <2>1. exnode' \cup set' \cup new' \cup todo' \cup kept' \subseteq Mappings(DOMAIN arrays)
    BY <1>1, <1>4, <1>6, <1>7, FileThere
  <2>. QED  BY <1>1, <1>4, <1>8, <1>9, <2>1
            DEF IInv, TypeOK, Tools, Pcs, disk, depots, reader, seen
<1>11. FileInv'
  BY <1>1, FileSame DEF IInv, depots, seen, Live
<1>12. Untouched'
  BY <1>1, <1>6, FileThere DEF Untouched, depots, seen
<1>13. UpdateInv'
  BY <1>1, <1>2, <1>3, <1>4, <1>5, <1>6 DEF UpdateInv, disk
<1>14. TrimInv' /\ WriteInv'
  BY <1>1, <1>4 DEF TrimInv, WriteInv
<1>. QED  BY <1>1, <1>4, <1>6, <1>10, <1>11, <1>12, <1>13, <1>14, FileThere, OtherFrame
          DEF disk, reader

\* All mappings that end in a range from the front on overlap it.
LEMMA QueryAll ==
    ASSUME NEW A, NEW S \in SUBSET Mappings(A), NEW len \in Nat, \A m \in S : End(m) <= len
    PROVE  Query(S, 0, len) = S
<1>1. ASSUME NEW m \in S PROVE m.off < 0 + len /\ 0 < End(m)
  <2>1. m.off \in Nat /\ End(m) \in Nat /\ m.off < End(m)
    BY Extent
  <2>. QED  BY <2>1
<1>. QED  BY <1>1 DEF Query

\* lors_trim has taken the segments S of the file.
LEMMA Segments ==
    ASSUME IInv, file # {}, NEW S \in SUBSET file
    PROVE  /\ FindMaxlength(S) \in 0 .. FileLen /\ \A m \in S : End(m) <= FindMaxlength(S)
           /\ Query(S, 0, FindMaxlength(S)) = S
           /\ Cover(S) \subseteq Bytes /\ Cover(file \ S) = Bytes \ (gone \cup Cover(S))
           /\ S \in SUBSET Mappings(DOMAIN arrays)
<1>1. /\ S \in SUBSET Mappings(DOMAIN arrays) /\ \A m \in S : End(m) <= FileLen
      /\ Tiles(file, Bytes \ gone)
  BY FileThere
<1>2. FindMaxlength(S) \in 0 .. FileLen /\ \A m \in S : End(m) <= FindMaxlength(S)
  BY <1>1, LastIn
<1>3. Query(S, 0, FindMaxlength(S)) = S
  <2>. DEFINE e == FindMaxlength(S)
  <2>1. e \in Nat /\ \A m \in S : End(m) <= e
    BY <1>2
  <2>. HIDE DEF e
  <2>2. Query(S, 0, e) = S
    BY <1>1, <2>1, QueryAll
  <2>. QED  BY <2>2 DEF e
<1>4. Cover(S) \subseteq Bytes
  BY <1>1, InFile
<1>5. Tiles(file \ S, (Bytes \ gone) \ Cover(S))
  BY <1>1, TilesLess
<1>6. Cover(file \ S) = Bytes \ (gone \cup Cover(S))
  BY <1>5 DEF Tiles
<1>. QED  BY <1>1, <1>2, <1>3, <1>4, <1>6

LEMMA BeginTrimInv == ASSUME IInv, BeginTrim PROVE IInv'
<1>1. /\ pc = "idle" /\ file # {} /\ trims < MaxTrims /\ trims' = trims + 1 /\ tool' = "trim"
      /\ UNCHANGED <<disk, depots, reader, ret, cur, jobs, new, dead, version, failures,
                     crashes, want, gone>>
  BY DEF BeginTrim
<1>2. PICK S \in SUBSET file \ {{}}, D \in SUBSET {"DECR"} :
          /\ exnode' = file \ S /\ maxlen' = FindMaxlength(S)
          /\ \/ /\ TrimFrom(S, 0, maxlen', D \cup {"ALL"})
                /\ doomed' = Cover(S)
                /\ excused' = IF D = {} THEN excused ELSE excused \cup {m.array : m \in S}
             \/ /\ set' = S /\ opts' = D \cup {"DEAD"} /\ pc' = "stat"
                /\ UNCHANGED <<range, todo, kept, doomed, excused>>
  BY DEF BeginTrim
<1>3. /\ FindMaxlength(S) \in 0 .. FileLen /\ \A m \in S : End(m) <= FindMaxlength(S)
      /\ Query(S, 0, FindMaxlength(S)) = S
      /\ Cover(S) \subseteq Bytes /\ Cover(file \ S) = Bytes \ (gone \cup Cover(S))
      /\ S \in SUBSET Mappings(DOMAIN arrays) /\ S \in SUBSET file
  BY <1>1, Segments
<1>4. /\ tool = "none" /\ new = {} /\ todo = {} /\ kept = {} /\ dead = {} /\ jobs = {}
      /\ ~fileJob.reading /\ doomed = {}
  BY <1>1 DEF IInv, Idle, NoJob, Untouched
<1>5. trims' \in 0 .. MaxTrims
  BY <1>1, FilesConstants DEF IInv, TypeOK
<1>6. /\ arrays # << >> /\ ~torn /\ file \in SUBSET Mappings(DOMAIN arrays)
      /\ \A m \in file : m.array \in DOMAIN arrays
  BY <1>1, FileThere
<1>7. exnode' = file \ S /\ maxlen' = FindMaxlength(S)
  BY <1>2
<1>8. Untouched'
  BY <1>1, <1>6 DEF Untouched, depots
<1>9. CASE /\ TrimFrom(S, 0, maxlen', D \cup {"ALL"})
           /\ doomed' = Cover(S)
           /\ excused' = IF D = {} THEN excused ELSE excused \cup {m.array : m \in S}
  <2>1. /\ todo' = S /\ set' = {} /\ kept' = {} /\ opts' = D \cup {"ALL"} /\ pc' = "trim"
        /\ range' = [off |-> 0, len |-> maxlen']
    BY <1>3, <1>7, <1>9 DEF TrimFrom
  <2>2. range' \in [off : 0 .. FileLen, len : 0 .. FileLen] /\ range'.off = 0 /\ range'.len = maxlen'
    <3>1. 0 \in 0 .. FileLen /\ maxlen' \in 0 .. FileLen
      BY <1>3, <1>7, FilesConstants
    <3>. QED  BY <2>1, <3>1
  <2>3. excused \subseteq excused' /\ excused' \subseteq DOMAIN arrays
    <3>1. {m.array : m \in S} \subseteq DOMAIN arrays /\ excused \subseteq DOMAIN arrays
      BY SMTT(30), <1>3, <1>6 DEF IInv, TypeOK
    <3>. QED  BY <1>9, <3>1
  <2>4. TypeOK'
    <3>1. exnode' \cup set' \cup new' \cup todo' \cup kept' \subseteq Mappings(DOMAIN arrays)
      BY <1>1, <1>3, <1>4, <1>6, <1>7, <2>1
    <3>2. opts' \subseteq {"ALL", "DECR", "DEAD"} /\ gone' \cup doomed' \subseteq Bytes
      BY <1>1, <1>3, <1>9, <2>1 DEF IInv, TypeOK
    <3>3. maxlen' \in 0 .. FileLen /\ tool' \in Tools /\ pc' \in Pcs
      BY <1>1, <1>3, <1>7, <2>1 DEF Tools, Pcs
    <3>. QED  BY <1>1, <1>5, <2>2, <2>3, <3>1, <3>2, <3>3 DEF IInv, TypeOK, disk, depots, reader
  <2>5. FileInv'
    <3>1. Live \subseteq Live'
      BY <1>1, <2>3 DEF Live, depots
    <3>2. Sound(file, arrays, Live') /\ Versions(file, arrays, want)
      BY <3>1, <1>1, FileThere DEF Sound
    <3>. QED  BY <1>1, <3>2 DEF IInv, FileInv, disk, depots
  <2>6. TrimInv'
    <3>1. Staying' = file \ S
      <4>1. \A m : Going(m)'
        BY <2>1 DEF Going
      <4>. QED  BY <1>7, <2>1, <4>1 DEF Staying
    <3>2. Cover(Staying)' = Bytes \ (gone' \cup doomed')
      BY <1>1, <1>3, <1>9, <3>1
    <3>3. {"ALL", "DECR"} \subseteq opts' => \A m \in todo' : m.array \in excused'
      BY <1>9, <2>1
    <3>4. exnode' \cup kept' \cup todo' \subseteq file' /\ \A m \in todo' : End(m) <= range'.len
      BY <1>1, <1>3, <1>7, <2>1, <2>2 DEF disk
    <3>. QED  BY <1>1, <1>4, <2>1, <2>2, <3>2, <3>3, <3>4 DEF TrimInv
  <2>7. NewInv' /\ UpdateInv' /\ WriteInv'
    BY <1>1, <2>1 DEF NewInv, UpdateInv, WriteInv
  <2>. QED  BY <1>1, <1>4, <1>6, <1>8, <2>1, <2>4, <2>5, <2>6, <2>7, OtherFrame DEF disk, reader
<1>10. CASE /\ set' = S /\ opts' = D \cup {"DEAD"} /\ pc' = "stat"
            /\ UNCHANGED <<range, todo, kept, doomed, excused>>
  <2>1. TypeOK'
    <3>1. exnode' \cup set' \cup new' \cup todo' \cup kept' \subseteq Mappings(DOMAIN arrays)
      BY <1>1, <1>3, <1>4, <1>6, <1>7, <1>10
    <3>2. opts' \subseteq {"ALL", "DECR", "DEAD"} /\ maxlen' \in 0 .. FileLen
          /\ tool' \in Tools /\ pc' \in Pcs
      BY <1>1, <1>3, <1>7, <1>10 DEF Tools, Pcs
    <3>. QED  BY <1>1, <1>5, <1>10, <3>1, <3>2 DEF IInv, TypeOK, disk, depots, reader
  <2>2. FileInv'
    BY <1>1, <1>10, FileSame DEF IInv, depots, Live
  <2>3. TrimInv'
    <3>1. "ALL" \notin opts' /\ \A m \in set' : End(m) <= maxlen'
      BY <1>3, <1>7, <1>10
    <3>. QED  BY <1>1, <1>3, <1>4, <1>7, <1>10, <3>1 DEF TrimInv, disk
  <2>4. NewInv' /\ UpdateInv' /\ WriteInv'
    BY <1>1, <1>10 DEF NewInv, UpdateInv, WriteInv
  <2>. QED  BY <1>1, <1>4, <1>6, <1>8, <1>10, <2>1, <2>2, <2>3, <2>4, OtherFrame DEF disk, reader
<1>. QED  BY <1>2, <1>9, <1>10

LEMMA StatInv == ASSUME IInv, Stat PROVE IInv'
<1>1. /\ pc = "stat" /\ tool = "trim" /\ file # {} /\ ~torn /\ ~fileJob.reading
      /\ TrimFrom(set, 0, maxlen, opts)
      /\ UNCHANGED <<disk, depots, tool, exnode, maxlen, reader, ret, cur, jobs, new,
                     version, trims, crashes, want, gone, excused>>
  BY DEF Stat, IInv, ToolPcs
<1>2. PICK S \in SUBSET set : /\ failures' = failures \/ Fails
                              /\ dead' = S /\ doomed' = Cover(S)
  BY DEF Stat
<1>3. /\ exnode = file \ set /\ set \subseteq file /\ "ALL" \notin opts /\ new = {}
      /\ \A m \in set : End(m) <= maxlen
  BY <1>1 DEF IInv, TrimInv
<1>4. /\ maxlen \in 0 .. FileLen /\ maxlen \in Nat /\ set \in SUBSET Mappings(DOMAIN arrays)
  BY DEF IInv, TypeOK
<1>5. Query(set, 0, maxlen) = set
  BY <1>3, <1>4, QueryAll
<1>6. /\ todo' = set /\ set' = {} /\ kept' = {} /\ opts' = opts /\ pc' = "trim"
      /\ range' = [off |-> 0, len |-> maxlen]
  BY <1>1, <1>5 DEF TrimFrom
<1>7. range' \in [off : 0 .. FileLen, len : 0 .. FileLen] /\ range'.off = 0 /\ range'.len = maxlen
  <2>1. 0 \in 0 .. FileLen
    BY FilesConstants
  <2>. QED  BY <1>4, <1>6, <2>1
<1>8. /\ Cover(S) \subseteq Bytes /\ Cover(file \ S) = Bytes \ (gone \cup Cover(S))
  BY <1>1, <1>3, Segments
<1>9. TypeOK'
  <2>1. exnode' \cup set' \cup new' \cup todo' \cup kept' \subseteq Mappings(DOMAIN arrays)
    BY <1>1, <1>4, <1>6 DEF IInv, TypeOK
  <2>2. failures' \in 0 .. MaxFailures /\ dead' \subseteq Mappings(DOMAIN arrays)
    BY <1>2, <1>4, TypeFails
  <2>3. gone' \cup doomed' \subseteq Bytes
    BY <1>1, <1>2, <1>8 DEF IInv, TypeOK
  <2>. QED  BY <1>1, <1>6, <1>7, <2>1, <2>2, <2>3 DEF IInv, TypeOK, Pcs, disk, depots, reader
<1>10. FileInv' /\ Untouched'
  BY <1>1, FileSame, FileThere DEF IInv, depots, Live, Untouched
<1>11. TrimInv'
  <2>1. Staying' = file \ S
    <3>1. \A m : Going(m)' <=> m \in S
      BY <1>2, <1>3, <1>6 DEF Going
    <3>2. Staying' = exnode \cup {m \in set : m \notin S}
      BY <1>1, <1>6, <3>1 DEF Staying
    <3>. QED  BY <1>3, <3>2
  <2>2. Cover(Staying)' = Bytes \ (gone' \cup doomed')
    BY <1>1, <1>2, <1>8, <2>1
  <2>3. exnode' \cup kept' \cup todo' \subseteq file' /\ \A m \in todo' : End(m) <= range'.len
    BY <1>1, <1>3, <1>6, <1>7 DEF disk
  <2>. QED  BY <1>1, <1>3, <1>6, <1>7, <2>2, <2>3 DEF TrimInv
<1>12. NewInv' /\ UpdateInv' /\ WriteInv'
  BY <1>1, <1>6 DEF NewInv, UpdateInv, WriteInv
<1>. QED  BY <1>1, <1>6, <1>9, <1>10, <1>11, <1>12, OtherFrame DEF disk, reader

-----------------------------------------------------------------------------
(* The exnode file is written. *)

LEMMA UnlinkInv == ASSUME IInv, Unlink PROVE IInv'
<1>1. /\ tool = "trim" /\ file' = {} /\ gone' = gone \cup doomed /\ doomed' = {} /\ Exit
      /\ UNCHANGED <<torn, depots, counts, want, excused>>
  BY DEF Unlink
<1>2. RestOK'
  BY <1>1 DEF IInv, TypeOK, RestOK, depots, counts
<1>3. FileInv'
  BY <1>1, NothingSound DEF FileInv
<1>4. Untouched'
  BY <1>1 DEF IInv, Untouched, depots, Exit
<1>. QED  BY <1>1, <1>2, <1>3, <1>4, ExitInv

LEMMA OpenFileInv == ASSUME IInv, OpenFile PROVE IInv'
<1>1. /\ pc = "write" /\ UNCHANGED <<depots, version, trims, crashes, want, gone, excused>>
  BY DEF OpenFile
<1>2. CASE Fails /\ Exit /\ doomed' = {} /\ UNCHANGED disk
  BY <1>1, <1>2, ExitQuiet, TypeFails
<1>3. CASE file' = {} /\ torn' = TRUE /\ UNCHANGED <<tool, pc, mem, reader, call, doomed, failures>>
  <2>1. TypeOK'
    BY <1>1, <1>3 DEF IInv, TypeOK, depots, mem, reader, call
  <2>2. FileInv'
    BY <1>3, NothingSound DEF FileInv
  <2>3. Untouched' /\ ReaderInv' /\ PartInv' /\ UploadInv'
    BY <1>1, <1>3, UntouchedSame, ReaderSame, PartSame, UploadSame
       DEF IInv, depots, mem, call, Live
  <2>4. Idle' /\ NewInv'
    BY <1>1, <1>3 DEF Idle, NewInv
  <2>5. ToolPcs'
    BY <1>1, <1>3 DEF IInv, ToolPcs, reader
  <2>6. UpdateInv' /\ TrimInv'
    BY <1>1, <1>3 DEF IInv, UpdateInv, TrimInv, call
  <2>7. WriteInv'
    BY <1>1, <1>3, WriteSame DEF IInv, depots, mem, call, Live
  <2>. QED  BY <2>1, <2>2, <2>3, <2>4, <2>5, <2>6, <2>7 DEF IInv
<1>. QED  BY <1>2, <1>3 DEF OpenFile

LEMMA WriteFileInv == ASSUME IInv, WriteFile PROVE IInv'
<1>1. /\ pc = "write" /\ doomed' = {} /\ Exit /\ tool # "none"
      /\ UNCHANGED <<depots, version, trims, crashes, excused>>
  BY DEF WriteFile, IInv, ToolPcs
<1>2. CASE Fails /\ UNCHANGED <<disk, gone, want>>
  BY <1>1, <1>2, ExitQuiet, TypeFails
<1>3. CASE /\ file' = exnode /\ torn' = FALSE
           /\ gone' = (gone \cup doomed) \ Renewed
           /\ want' = [p \in Bytes |-> IF p \in Renewed THEN version ELSE want[p]]
           /\ UNCHANGED failures
  <2>1. /\ Tiles(exnode, (Bytes \ (gone \cup doomed)) \cup Renewed) /\ Sound(exnode, arrays, Live)
        /\ Versions(exnode, arrays, Due)
    BY <1>1 DEF IInv, WriteInv
  <2>2. Renewed \subseteq Bytes
    <3>1. tool = "update" => range.off \in Nat /\ range.len \in Nat /\ range.off + range.len <= FileLen
      BY DEF IInv, TypeOK, UpdateInv
    <3>. QED  BY <3>1, FilesConstants DEF Renewed, Bytes
  <2>3. Bytes \ gone' = (Bytes \ (gone \cup doomed)) \cup Renewed
    BY <1>3, <2>2
  <2>4. want' = Due /\ Live' = Live /\ arrays' = arrays
    BY <1>1, <1>3 DEF Due, Live, depots
  <2>5. FileInv'
    BY <1>3, <2>1, <2>3, <2>4 DEF FileInv
  <2>6. RestOK'
    <3>1. want' \in [Bytes -> 0 .. MaxUpdates] /\ gone' \cup doomed' \subseteq Bytes
      BY <1>1, <1>3 DEF IInv, TypeOK
    <3>2. file' \subseteq Mappings(DOMAIN arrays) /\ torn' \in BOOLEAN
      BY <1>3 DEF IInv, TypeOK
    <3>. QED  BY <1>1, <1>3, <3>1, <3>2 DEF IInv, TypeOK, RestOK, depots
  <2>7. Untouched'
    <3>1. tool' = "none"
      BY <1>1 DEF Exit
    <3>2. arrays = << >> => tool = "upload"
      BY <1>1 DEF IInv, Untouched, TypeOK, Tools
    <3>3. ASSUME arrays = << >> PROVE version = 0 /\ gone' = {} /\ want' = [p \in Bytes |-> 0]
      <4>1. version = 0 /\ gone = {} /\ doomed = {} /\ want = [p \in Bytes |-> 0] /\ Renewed = {}
        BY <3>2, <3>3 DEF IInv, Untouched, Renewed
      <4>. QED  BY <1>3, <2>4, <4>1, DueIsWant
    <3>. QED  BY <1>1, <2>4, <3>1, <3>3 DEF Untouched
  <2>. QED  BY <1>1, <2>5, <2>6, <2>7, ExitInv
<1>. QED  BY <1>2, <1>3 DEF WriteFile

LEMMA LoseInv == ASSUME IInv, Lose PROVE IInv'
<1>1. /\ failures' \in 0 .. MaxFailures
      /\ UNCHANGED <<disk, arrays, tool, pc, mem, reader, call, version, trims, crashes, want,
                     gone, doomed>>
  BY TypeFails DEF Lose
<1>2. PICK a \in alive : alive' = alive \ {a} /\ excused' = excused \cup {a}
  BY DEF Lose
<1>3. Live' = Live /\ excused \subseteq excused'
  BY <1>2 DEF Live
<1>4. TypeOK'
  <2>1. alive' \subseteq DOMAIN arrays /\ excused' \subseteq DOMAIN arrays
    BY <1>2 DEF IInv, TypeOK
  <2>. QED  BY <1>1, <2>1 DEF IInv, TypeOK, disk, mem, reader, call
<1>5. FileInv' /\ Untouched' /\ ToolPcs' /\ ReaderInv' /\ PartInv'
  BY <1>1, <1>3, FileSame, UntouchedSame, ToolSame, ReaderSame, PartSame DEF IInv, mem, reader, call
<1>6. UploadInv' /\ NewInv' /\ UpdateInv' /\ TrimInv' /\ WriteInv'
  BY <1>1, <1>3, UploadSame, NewSame, UpdateSame, TrimSame, WriteSame DEF IInv, mem, call, disk
<1>7. Idle'
  BY <1>1 DEF IInv, Idle, mem, reader, call
<1>. QED  BY <1>4, <1>5, <1>6, <1>7 DEF IInv

LEMMA StutterInv == ASSUME IInv, UNCHANGED vars PROVE IInv'
<1>1. UNCHANGED <<disk, depots, tool, pc, mem, reader, call, counts, seen>>
  BY DEF vars
<1>2. TypeOK'
  BY <1>1 DEF IInv, TypeOK, disk, depots, mem, reader, call, counts, seen
<1>3. FileInv' /\ Untouched' /\ ToolPcs' /\ ReaderInv' /\ PartInv'
  BY <1>1, FileSame, UntouchedSame, ToolSame, ReaderSame, PartSame
     DEF IInv, depots, mem, reader, call, counts, seen, Live
<1>4. UploadInv' /\ NewInv' /\ UpdateInv' /\ TrimInv' /\ WriteInv'
  BY <1>1, UploadSame, NewSame, UpdateSame, TrimSame, WriteSame
     DEF IInv, depots, mem, call, disk, counts, seen, Live
<1>5. Idle'
  BY <1>1 DEF IInv, Idle, mem, reader, call
<1>. QED  BY <1>2, <1>3, <1>4, <1>5 DEF IInv

-----------------------------------------------------------------------------
(* The theorems. *)

LEMMA InitInv == Init => IInv
<1>. SUFFICES ASSUME Init PROVE IInv
  OBVIOUS
<1>1. TypeOK
  <2>1. /\ 0 \in 0 .. FileLen /\ 0 \in 0 .. BufSize /\ 0 \in 0 .. MaxUpdates /\ 0 \in 0 .. MaxTrims
        /\ 0 \in 0 .. MaxFailures /\ 0 \in 0 .. MaxCrashes
    BY FilesConstants
  <2>2. fileJob \in [buf : {0, 1}, n : 0 .. BufSize, status : {"success", "eof", "failed"},
                     reading : BOOLEAN]
        /\ range \in [off : 0 .. FileLen, len : 0 .. FileLen]
    BY <2>1 DEF Init, NoJob, NoRange
  <2>3. arrays \in Seq([version : 0 .. MaxUpdates, bytes : Seq(Bytes)])
    BY DEF Init
  <2>4. buf \in [{0, 1} -> [0 .. BufSize - 1 -> Bytes \cup {NoByte}]]
    BY EmptyType DEF Init
  <2>5. want \in [Bytes -> 0 .. MaxUpdates]
    BY <2>1 DEF Init
  <2>. QED  BY <2>1, <2>2, <2>3, <2>4, <2>5 DEF Init, TypeOK, Tools, Pcs
<1>2. FileInv /\ Untouched /\ Idle
  BY NothingSound DEF Init, FileInv, Untouched, Idle
<1>3. ToolPcs /\ ReaderInv /\ PartInv /\ UploadInv
  BY DEF Init, ToolPcs, NoJob, ReaderInv, PartInv, UploadInv
<1>4. NewInv /\ UpdateInv /\ TrimInv /\ WriteInv
  BY DEF Init, NewInv, UpdateInv, TrimInv, WriteInv
<1>. QED  BY <1>1, <1>2, <1>3, <1>4 DEF IInv

\* Every step of a tool, its reader and the depots keeps the invariant.
THEOREM FilesInvariant == Spec => []IInv
<1>1. IInv /\ [Next]_vars => IInv'
  <2>. SUFFICES ASSUME IInv, [Next]_vars PROVE IInv'
    OBVIOUS
  <2>1. CASE ReadSome \/ ReadEnd \/ ReadFails
    BY <2>1, ReadSomeInv, ReadEndInv, ReadFailsInv
  <2>2. CASE BeginUpload \/ FirstRead \/ StartReader \/ Join
    BY <2>2, BeginUploadInv, FirstReadInv, StartReaderInv, JoinInv
  <2>3. CASE StoreBlock \/ FailBlock \/ Stored \/ StoredPartly \/ StoreFailed
    BY <2>3, StoreBlockInv, FailBlockInv, StoredInv, StoredPartlyInv, StoreFailedInv
  <2>4. CASE TrimOne \/ Trimmed \/ Refill
    BY <2>4, TrimOneInv, TrimmedInv, RefillInv
  <2>5. CASE BeginUpdate \/ BeginTrim \/ Stat
    BY <2>5, BeginUpdateInv, BeginTrimInv, StatInv
  <2>6. CASE Unlink \/ OpenFile \/ WriteFile
    BY <2>6, UnlinkInv, OpenFileInv, WriteFileInv
  <2>7. CASE Crash \/ Leave \/ Undefined \/ Lose
    BY <2>7, CrashInv, LeaveInv, UndefinedInv, LoseInv
  <2>8. CASE Rest \/ UNCHANGED vars
    BY <2>8, StutterInv DEF Rest
  <2>. QED  BY <2>1, <2>2, <2>3, <2>4, <2>5, <2>6, <2>7, <2>8 DEF Next
<1>. QED  BY <1>1, InitInv, PTL DEF Spec

\* The state of the tools is well typed: no offset, position or buffer index
\* leaves its range, whatever read() returns.
THEOREM FilesTypeOK == Spec => []TypeOK
<1>1. IInv => TypeOK
  BY DEF IInv
<1>. QED  BY <1>1, FilesInvariant, PTL

\* A finished exnode file holds every byte once, but for those that lors_trim
\* took: after short reads, stores done again, cuts, kills and lost arrays.
THEOREM FilesAreWhole == Spec => []FileWhole
<1>1. IInv => FileWhole
  <2>. SUFFICES ASSUME IInv, file # {}, NEW p \in Bytes
                PROVE  Cardinality(Holders(file, p)) = IF p \in gone THEN 0 ELSE 1
    BY DEF FileWhole
  <2>1. Tiles(file, Bytes \ gone)
    BY DEF IInv, FileInv
  <2>2. CASE p \in gone
    <3>1. Holders(file, p) = {}
      BY <2>1, <2>2 DEF Tiles, Cover, Holders
    <3>. QED  BY <2>2, <3>1, FS_EmptySet
  <2>3. CASE p \notin gone
    <3>1. PICK m \in file : p \in Positions(m)
      BY <2>1, <2>3 DEF Tiles, Cover
    <3>2. \A k \in file : p \in Positions(k) => k = m
      BY <2>1, <3>1 DEF Tiles
    <3>3. Holders(file, p) = {m}
      BY <3>1, <3>2 DEF Holders
    <3>. QED  BY <2>3, <3>3, FS_Singleton
  <2>. QED  BY <2>2, <2>3
<1>. QED  BY <1>1, FilesInvariant, PTL

\* Every byte is in an array that was stored for its last version, and where the
\* mapping has kept its front, at its place there.
THEOREM DataIsTrue == Spec => []DataTrue
<1>1. IInv => DataTrue
  BY DEF IInv, FileInv, Sound, Placed, Versions, DataTrue
<1>. QED  BY <1>1, FilesInvariant, PTL

\* No array that the file names is deleted but by a lors_trim that was told to,
\* wherever a tool dies between the depots and the file.
THEOREM NamedStayAlive == Spec => []NamedAlive
<1>1. IInv => NamedAlive
  BY DEF IInv, FileInv, Sound, Live, NamedAlive
<1>. QED  BY <1>1, FilesInvariant, PTL
=============================================================================
