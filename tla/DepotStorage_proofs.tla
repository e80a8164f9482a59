------------------------- MODULE DepotStorage_proofs -------------------------
(***************************************************************************)
(* Proofs about the byte arrays of the depot, for any number of arrays,    *)
(* threads, requests and crashes.                                          *)
(***************************************************************************)
EXTENDS DepotStorage, FiniteSetTheorems, WellFoundedInduction, TLAPS

-----------------------------------------------------------------------------
(* Finite sums.  Instead of an induction over sets: if a statement fails   *)
(* for a subset of S, it fails for one and holds for all parts of it.      *)

\* A family of sets that is not empty has a member no other member is part of.
LEMMA LeastSet ==
    ASSUME NEW S, IsFiniteSet(S), NEW B \in SUBSET SUBSET S, B # {}
    PROVE  \E s \in B : \A u \in B : u \subseteq s => u = s
<1> DEFINE N == {Cardinality(s) : s \in B}
           R == {ss \in Nat \X Nat : ss[1] < ss[2]}
<1>1. \A s \in B : IsFiniteSet(s) /\ Cardinality(s) \in Nat
  <2>1. \A s \in B : s \in SUBSET S
    OBVIOUS
  <2> QED BY <2>1, FS_Subset, FS_CardinalityType
<1>2. N \in SUBSET Nat /\ N # {}
  BY <1>1
<1>3. IsWellFoundedOn(R, Nat)
  BY NatLessThanWellFounded DEF OpToRel
<1>4. PICK n \in N : \A k \in N : <<k, n>> \notin R
  <2> HIDE DEF R, N
  <2> QED BY <1>2, <1>3, WFMin
<1>5. \A k \in N : n <= k
  <2> TAKE k \in N
  <2>1. <<k, n>> \in Nat \X Nat /\ <<k, n>>[1] = k /\ <<k, n>>[2] = n
    BY <1>2
  <2> QED BY <2>1, <1>4
<1>6. PICK s \in B : n = Cardinality(s)
  OBVIOUS
<1>7. ASSUME NEW u \in B, u \subseteq s
      PROVE  u = s
  <2>1. Cardinality(s) <= Cardinality(u)
    BY <1>5, <1>6
  <2>2. IsFiniteSet(s) /\ u \in SUBSET s /\ Cardinality(s) \in Nat /\ Cardinality(u) \in Nat
    BY <1>1, <1>7
  <2> QED BY <2>1, <2>2, FS_Subset
<1> QED BY <1>7

\* The sum of a function over a finite set (MapThenSumSet).

Total(f, S) == MapThenSumSet(LAMBDA a : f[a], S)
Pick(s) == CHOOSE x \in s : TRUE
Adds(g, f, S) ==
    g = [s \in SUBSET S |-> IF s = {} THEN 0 ELSE f[Pick(s)] + g[s \ {Pick(s)}]]

LEMMA PickIn == ASSUME NEW s, s # {} PROVE Pick(s) \in s
BY DEF Pick

LEMMA TotalDef ==
    ASSUME NEW f, NEW S
    PROVE  Total(f, S) = (CHOOSE g : Adds(g, f, S))[S]
BY DEF Total, MapThenSumSet, MapThenFoldSet, Adds, Pick

LEMMA AddsAt ==
    ASSUME NEW f, NEW S, NEW g, Adds(g, f, S), NEW s \in SUBSET S
    PROVE  /\ s = {} => g[s] = 0
           /\ s # {} => g[s] = f[Pick(s)] + g[s \ {Pick(s)}]
<1> DEFINE G(u) == IF u = {} THEN 0 ELSE f[Pick(u)] + g[u \ {Pick(u)}]
<1>1. g = [u \in SUBSET S |-> G(u)]
  BY DEF Adds
<1>2. g[s] = G(s)
  <2> HIDE DEF G
  <2> QED BY <1>1
<1> QED BY <1>2

\* Two functions that add up the same thing agree.
LEMMA AddsOnce ==
    ASSUME NEW f, NEW S, IsFiniteSet(S), NEW T, NEW g, NEW h, Adds(g, f, S), Adds(h, f, T),
           NEW s \in SUBSET S, s \in SUBSET T
    PROVE  g[s] = h[s]
<1> DEFINE B == {u \in SUBSET S : u \in SUBSET T /\ g[u] # h[u]}
<1> SUFFICES ASSUME B # {} PROVE FALSE
  OBVIOUS
<1>1. PICK u \in B : \A v \in B : v \subseteq u => v = u
  <2>1. B \in SUBSET SUBSET S
    OBVIOUS
  <2> HIDE DEF B
  <2> QED BY <2>1, LeastSet
<1>2. CASE u = {}
  <2>1. g[u] = 0
    BY <1>2, AddsAt
  <2>2. h[u] = 0
    BY <1>2, AddsAt
  <2> QED BY <2>1, <2>2
<1>3. CASE u # {}
  <2> DEFINE v == u \ {Pick(u)}
  <2>1. Pick(u) \in u /\ v \subseteq u /\ v # u /\ v \in SUBSET S /\ v \in SUBSET T
    BY <1>3, PickIn
  <2>2. g[v] = h[v]
    BY <1>1, <2>1
  <2>3. g[u] = f[Pick(u)] + g[v] /\ h[u] = f[Pick(u)] + h[v]
    BY <1>3, AddsAt
  <2> QED BY <2>2, <2>3
<1> QED BY <1>2, <1>3

\* There is such a function for every finite set.
LEMMA AddsExists ==
    ASSUME NEW f, NEW S, IsFiniteSet(S)
    PROVE  \E g : Adds(g, f, S)
<1> DEFINE B == {u \in SUBSET S : ~\E g : Adds(g, f, u)}
<1> SUFFICES ASSUME B # {} PROVE FALSE
  OBVIOUS
<1>1. PICK s \in B : \A v \in B : v \subseteq s => v = s
  <2>1. B \in SUBSET SUBSET S
    OBVIOUS
  <2> HIDE DEF B
  <2> QED BY <2>1, LeastSet
<1>2. \A u \in SUBSET s : u # s => \E g : Adds(g, f, u)
  BY <1>1
<1> DEFINE G(u) == CHOOSE g : Adds(g, f, u)
           sum == [u \in SUBSET s |->
                     IF u = {} THEN 0 ELSE f[Pick(u)] + G(u \ {Pick(u)})[u \ {Pick(u)}]]
<1>3. \A u \in SUBSET s : u # s => Adds(G(u), f, u)
  BY <1>2
<1>4. ASSUME NEW u \in SUBSET s, u # s
      PROVE  sum[u] = G(u)[u]
  <2>0. Adds(G(u), f, u) /\ IsFiniteSet(u)
    BY <1>3, <1>4, FS_Subset
  <2> DEFINE v == u \ {Pick(u)}
  <2>1. sum[u] = IF u = {} THEN 0 ELSE f[Pick(u)] + G(v)[v]
    OBVIOUS
  <2> HIDE DEF G, sum
  <2>2. CASE u = {}
    BY <2>0, <2>1, <2>2, AddsAt
  <2>3. CASE u # {}
    <3>1. Pick(u) \in u /\ v \in SUBSET u /\ v # s /\ v \in SUBSET s
      BY <2>3, PickIn
    <3>2. Adds(G(v), f, v)
      BY <3>1, <1>3
    <3>3. G(u)[v] = G(v)[v]
      BY <2>0, <3>1, <3>2, AddsOnce
    <3>4. u \in SUBSET u
      OBVIOUS
    <3>5. G(u)[u] = f[Pick(u)] + G(u)[v]
      BY <2>0, <2>3, <3>4, AddsAt
    <3> QED BY <2>1, <2>3, <3>3, <3>5
  <2> QED BY <2>2, <2>3
<1>5. Adds(sum, f, s)
  <2> DEFINE H(u) == IF u = {} THEN 0 ELSE f[Pick(u)] + sum[u \ {Pick(u)}]
             K(u) == IF u = {} THEN 0 ELSE f[Pick(u)] + G(u \ {Pick(u)})[u \ {Pick(u)}]
  <2>1. ASSUME NEW u \in SUBSET s
        PROVE  K(u) = H(u)
    <3> HIDE DEF G, sum
    <3>1. CASE u = {}
      BY <3>1
    <3>2. CASE u # {}
      <4>1. Pick(u) \in u
        BY <3>2, PickIn
      <4>2. u \ {Pick(u)} \in SUBSET s /\ u \ {Pick(u)} # s
        BY <4>1
      <4>3. sum[u \ {Pick(u)}] = G(u \ {Pick(u)})[u \ {Pick(u)}]
        BY <4>2, <1>4
      <4> QED BY <4>3
    <3> QED BY <3>1, <3>2
  <2>2. sum = [u \in SUBSET s |-> K(u)]
    OBVIOUS
  <2>3. sum = [u \in SUBSET s |-> H(u)]
    <3> HIDE DEF H, K, sum
    <3> QED BY <2>1, <2>2
  <2> QED BY <2>3 DEF Adds
<1> QED BY <1>1, <1>5

LEMMA TotalEmpty == ASSUME NEW f PROVE Total(f, {}) = 0
<1>1. IsFiniteSet({}) /\ {} \in SUBSET {}
  BY FS_EmptySet
<1>2. Adds(CHOOSE g : Adds(g, f, {}), f, {})
  BY <1>1, AddsExists
<1> QED BY <1>1, <1>2, AddsAt, TotalDef

LEMMA TotalPick ==
    ASSUME NEW f, NEW S, IsFiniteSet(S), S # {}
    PROVE  Total(f, S) = f[Pick(S)] + Total(f, S \ {Pick(S)})
<1> DEFINE T == S \ {Pick(S)}
           G(u) == CHOOSE g : Adds(g, f, u)
<1>1. T \in SUBSET S /\ S \in SUBSET S /\ T \in SUBSET T /\ IsFiniteSet(T)
  BY FS_Subset
<1>2. Adds(G(S), f, S) /\ Adds(G(T), f, T)
  BY <1>1, AddsExists
<1>3. Total(f, S) = G(S)[S] /\ Total(f, T) = G(T)[T]
  BY TotalDef
<1> HIDE DEF G
<1>4. G(S)[T] = G(T)[T]
  BY <1>1, <1>2, AddsOnce
<1>5. G(S)[S] = f[Pick(S)] + G(S)[T]
  BY <1>1, <1>2, AddsAt
<1> QED BY <1>3, <1>4, <1>5

\* The sum of integers is an integer, that of natural numbers a natural number.
LEMMA TotalType ==
    ASSUME NEW S, IsFiniteSet(S), NEW f, \A a \in S : f[a] \in Int
    PROVE  Total(f, S) \in Int /\ ((\A a \in S : f[a] \in Nat) => Total(f, S) \in Nat)
<1> DEFINE B == {u \in SUBSET S : ~(Total(f, u) \in Int /\ ((\A a \in u : f[a] \in Nat) => Total(f, u) \in Nat))}
<1> SUFFICES ASSUME B # {} PROVE FALSE
  OBVIOUS
<1>1. PICK u \in B : \A v \in B : v \subseteq u => v = u
  <2>1. B \in SUBSET SUBSET S
    OBVIOUS
  <2> HIDE DEF B
  <2> QED BY <2>1, LeastSet
<1>2. CASE u = {}
  BY <1>2, TotalEmpty
<1>3. CASE u # {}
  <2> DEFINE p == Pick(u)
             v == u \ {p}
  <2>1. p \in u /\ v \subseteq u /\ v # u /\ v \in SUBSET S /\ u \in SUBSET S
    BY <1>3, PickIn
  <2>2. Total(f, v) \in Int /\ ((\A a \in v : f[a] \in Nat) => Total(f, v) \in Nat)
    BY <1>1, <2>1
  <2>3. Total(f, u) = f[p] + Total(f, v)
    BY <1>3, <2>1, TotalPick, FS_Subset
  <2>4. f[p] \in Int
    BY <2>1
  <2> HIDE DEF p
  <2>5. Total(f, u) \in Int
    BY <2>2, <2>3, <2>4
  <2>6. (\A a \in u : f[a] \in Nat) => Total(f, u) \in Nat
    BY <2>1, <2>2, <2>3
  <2> QED BY <2>5, <2>6
<1> QED BY <1>2, <1>3

\* Any element can be taken out of the sum first.
LEMMA TotalRemove ==
    ASSUME NEW S, IsFiniteSet(S), NEW f, \A a \in S : f[a] \in Int, NEW x \in S
    PROVE  Total(f, S) = f[x] + Total(f, S \ {x})
<1> DEFINE B == {u \in SUBSET S : \E y \in u : Total(f, u) # f[y] + Total(f, u \ {y})}
<1> SUFFICES ASSUME B # {} PROVE FALSE
  OBVIOUS
<1>1. PICK u \in B : \A v \in B : v \subseteq u => v = u
  <2>1. B \in SUBSET SUBSET S
    OBVIOUS
  <2> HIDE DEF B
  <2> QED BY <2>1, LeastSet
<1>2. PICK y \in u : Total(f, u) # f[y] + Total(f, u \ {y})
  OBVIOUS
<1> DEFINE p == Pick(u)
           w == (u \ {p}) \ {y}
<1>3. p \in u /\ u \in SUBSET S /\ IsFiniteSet(u)
  BY PickIn, FS_Subset
<1>4. Total(f, u) = f[p] + Total(f, u \ {p})
  BY <1>3, TotalPick
<1> HIDE DEF p
<1>5. y # p
  BY <1>2, <1>4
<1>6. Total(f, u \ {p}) = f[y] + Total(f, w)
  <2>1. u \ {p} \in SUBSET S /\ u \ {p} \subseteq u /\ u \ {p} # u /\ y \in u \ {p}
    BY <1>3, <1>5
  <2> QED BY <1>1, <2>1
<1>7. Total(f, u \ {y}) = f[p] + Total(f, w)
  <2>1. u \ {y} \in SUBSET S /\ u \ {y} \subseteq u /\ u \ {y} # u /\ p \in u \ {y}
    BY <1>3, <1>5
  <2>2. (u \ {y}) \ {p} = w
    OBVIOUS
  <2> QED BY <1>1, <2>1, <2>2
<1>8. f[p] \in Int /\ f[y] \in Int /\ Total(f, w) \in Int
  <2>1. w \in SUBSET S /\ IsFiniteSet(w)
    BY <1>3, FS_Subset
  <2>2. \A a \in w : f[a] \in Int
    BY <2>1
  <2>3. Total(f, w) \in Int
    BY <2>1, <2>2, TotalType
  <2> QED BY <1>3, <2>3
<1> HIDE DEF w
<1> QED BY <1>2, <1>4, <1>6, <1>7, <1>8

\* A sum depends on the values at the elements alone.
LEMMA TotalSame ==
    ASSUME NEW S, IsFiniteSet(S), NEW f, NEW h, \A a \in S : f[a] = h[a]
    PROVE  Total(f, S) = Total(h, S)
<1> DEFINE B == {u \in SUBSET S : Total(f, u) # Total(h, u)}
<1> SUFFICES ASSUME B # {} PROVE FALSE
  OBVIOUS
<1>1. PICK u \in B : \A v \in B : v \subseteq u => v = u
  <2>1. B \in SUBSET SUBSET S
    OBVIOUS
  <2> HIDE DEF B
  <2> QED BY <2>1, LeastSet
<1>2. CASE u = {}
  BY <1>2, TotalEmpty
<1>3. CASE u # {}
  <2> DEFINE p == Pick(u)
             v == u \ {p}
  <2>1. p \in u /\ v \subseteq u /\ v # u /\ v \in SUBSET S /\ IsFiniteSet(u)
    BY <1>3, PickIn, FS_Subset
  <2>2. Total(f, u) = f[p] + Total(f, v) /\ Total(h, u) = h[p] + Total(h, v)
    BY <1>3, <2>1, TotalPick
  <2>3. Total(f, v) = Total(h, v) /\ f[p] = h[p]
    BY <1>1, <2>1
  <2> QED BY <2>2, <2>3
<1> QED BY <1>2, <1>3

\* A sum of as many values as there are elements, none of them above b.
LEMMA TotalBound ==
    ASSUME NEW S, IsFiniteSet(S), NEW b \in Nat, NEW f,
           \A a \in S : f[a] \in Int /\ f[a] <= b
    PROVE  Total(f, S) <= Cardinality(S) * b
<1> DEFINE B == {u \in SUBSET S : ~(Total(f, u) <= Cardinality(u) * b)}
<1> SUFFICES ASSUME B # {} PROVE FALSE
  OBVIOUS
<1>1. PICK u \in B : \A v \in B : v \subseteq u => v = u
  <2>1. B \in SUBSET SUBSET S
    OBVIOUS
  <2> HIDE DEF B
  <2> QED BY <2>1, LeastSet
<1>2. CASE u = {}
  BY <1>2, TotalEmpty, FS_EmptySet
<1>3. CASE u # {}
  <2> DEFINE p == Pick(u)
             v == u \ {p}
             n == Cardinality(v)
  <2>1. p \in u /\ v \subseteq u /\ v # u /\ v \in SUBSET S /\ IsFiniteSet(u) /\ IsFiniteSet(v)
    BY <1>3, PickIn, FS_Subset
  <2>2. Total(f, u) = f[p] + Total(f, v)
    BY <1>3, <2>1, TotalPick
  <2>3. Total(f, v) <= n * b
    BY <1>1, <2>1
  <2>4. Cardinality(u) = n + 1 /\ n \in Nat
    <3> HIDE DEF p
    <3>1. Cardinality(u) \in Nat /\ Cardinality(v) = Cardinality(u) - 1
      BY <2>1, FS_RemoveElement, FS_CardinalityType
    <3>2. n \in Nat
      BY <2>1, FS_CardinalityType
    <3> QED BY <3>1, <3>2
  <2>5. f[p] \in Int /\ f[p] <= b
    BY <2>1
  <2>6. Total(f, v) \in Int
    BY <2>1, TotalType
  <2> HIDE DEF n, v, p
  <2>7. (n + 1) * b = n * b + b /\ n * b \in Int
    BY <2>4
  <2>8. Total(f, u) <= (n + 1) * b
    BY <2>2, <2>3, <2>5, <2>6, <2>7
  <2> QED BY <2>4, <2>8
<1> QED BY <1>2, <1>3

-----------------------------------------------------------------------------
(* The inductive invariant                                                 *)

(* Types, and what a thread holds where it is. *)

Grown == Sizes \cup NewSizes        \* what the size of an array may be

Records == [key : Arrays, size : Grown \cup {0}, refs : Int, ends : Nat, valid : BOOLEAN]

ClockType ==
    /\ phase \in Phases /\ now \in 0..MaxNow /\ crashes \in 0..MaxCrashes
    /\ requests \in 0..MaxRequests

ArrayType ==
    /\ mem \in [Arrays -> {"none", "live", "dying", "freed"}] /\ file \subseteq Arrays
    /\ size \in [Arrays -> Grown \cup {0}] /\ refs \in [Arrays -> Int]
    /\ ends \in [Arrays -> Nat] /\ reference \in [Arrays -> Int]
    /\ deleted \in [Arrays -> BOOLEAN] /\ wl \in [Arrays -> BOOLEAN]
    /\ next \in Nat \ {0} /\ index \in [Arrays -> 0..next - 1] /\ used \in Int

FileType ==
    /\ lss \in Seq(Records) /\ old \in Seq(Records)
    /\ known \subseteq Arrays /\ dirty \subseteq Arrays

SeenType == lost \subseteq Arrays /\ kept \subseteq Arrays

ThreadType ==
    /\ pc \in [Threads -> Pcs] /\ op \in [Threads -> Ops]
    /\ arr \in [Threads -> Arrays \cup {NoArray}]
    /\ tmp \in [Threads -> Int] /\ inc \in [Threads -> Int]

SyncType ==
    /\ needed \in Sizes \cup {0} /\ alloc \in BOOLEAN /\ woken \subseteq Threads
    /\ untested \in Nat

\* Where a thread has no array yet.
Bare == {"idle", "grant"} \cup Asking

\* A thread serves a request that it may get, and holds an array from the moment
\* on that there is one.
ThreadShape == \A t \in Threads :
    /\ pc[t] # "idle" => op[t] \in Does[t]
    /\ pc[t] \notin Bare => arr[t] \in Arrays
    /\ pc[t] \in Bare \ {"idle"} => tmp[t] \in Sizes /\ op[t] = "allocate"
    /\ pc[t] = "apply" => tmp[t] \in NewSizes /\ op[t] = "chng"

TypeInv ==
    ClockType /\ ArrayType /\ FileType /\ SeenType /\ ThreadType /\ ThreadShape /\ SyncType

-----------------------------------------------------------------------------
(* The effect of the steps that look at the room                           *)

\* Either nothing happens to the arrays, or those go that have expired and that
\* nobody uses.
Sweeps ==
    \/ UNCHANGED <<arrays, used, lss, lost>>
    \/ Shrunk(Unused) /\ \A a \in Unused : ~NoRecord(a)

\* A thread that asks for n goes on to p: there is room, or there is none.
Asked(t, n, p) ==
    /\ pc' = [pc EXCEPT ![t] = p] /\ op' = [op EXCEPT ![t] = "allocate"]
    /\ tmp' = [tmp EXCEPT ![t] = n]
    /\ \/ p \in {"grant", "let"} /\ Room(n, used') /\ untested' = 0
       \/ p \in {"full", "need", "deny"} /\ untested' = untested

Changes(t, n) ==
    /\ pc' = [pc EXCEPT ![t] = "apply"] /\ UNCHANGED <<op, arr>>
    /\ tmp' = [tmp EXCEPT ![t] = n] /\ inc' = [inc EXCEPT ![t] = n - size[arr[t]]]
    /\ Room(n - size[arr[t]], used') /\ Tested(n - size[arr[t]])

\* Nothing changes but where a thread is, and who is signalled.
Moves(t) == Syncs(t) \/ Leave(t)

LEMMA AskStep ==
    ASSUME NEW t \in Threads, Asks(t)
    PROVE  /\ Running /\ pc[t] \in {"idle", "again", "last"} /\ (pc[t] = "idle" => phase = "up")
           /\ \/ requests < MaxRequests /\ requests' = requests + 1
              \/ requests' = requests
           /\ Sweeps
           /\ UNCHANGED <<phase, now, crashes, next, known, old, dirty, arr, inc, kept>>
<1>1. CASE Allocate(t)
  <2>1. PICK n \in Sizes : CheckSize(n, Goto(t, "grant"), Goto(t, "full"))
    BY <1>1 DEF Allocate
  <2>2. Sweeps
    BY <2>1 DEF CheckSize, Sweeps
  <2> QED BY <1>1, <2>2 DEF Allocate, Comes, Running
<1>2. CASE Claim(t)
  <2>1. Sweeps
    BY <1>2 DEF Claim, CheckSize, Sweeps
  <2> QED BY <1>2, <2>1 DEF Claim, At, clock
<1>3. CASE Retest(t)
  <2>1. Sweeps
    BY <1>3 DEF Retest, CheckSize, Sweeps
  <2> QED BY <1>3, <2>1 DEF Retest, At, clock
<1> QED BY <1>1, <1>2, <1>3 DEF Asks

LEMMA AskLocals ==
    ASSUME ThreadType, ThreadShape, NEW t \in Threads, Asks(t)
    PROVE  /\ "allocate" \in Does[t]
           /\ \E n \in Sizes, p \in {"grant", "full", "need", "let", "deny"} : Asked(t, n, p)
<1>0. \A n \in Sizes : n \in Nat /\ n > 0
  BY StorageAssumption
<1>1. CASE Allocate(t)
  <2>1. PICK n \in Sizes :
            /\ CheckSize(n, Goto(t, "grant"), Goto(t, "full"))
            /\ tmp' = [tmp EXCEPT ![t] = n] /\ op' = [op EXCEPT ![t] = "allocate"]
    BY <1>1 DEF Allocate
  <2>2. Asked(t, n, "grant") \/ Asked(t, n, "full")
    BY <1>0, <2>1 DEF CheckSize, Goto, Asked, Room, Tested
  <2> QED BY <1>1, <2>2 DEF Allocate
<1>2. ASSUME pc[t] \in {"again", "last"}, UNCHANGED <<op, tmp>>
      PROVE  /\ "allocate" \in Does[t] /\ tmp[t] \in Sizes
             /\ op' = [op EXCEPT ![t] = "allocate"] /\ tmp' = [tmp EXCEPT ![t] = tmp[t]]
  BY <1>2 DEF ThreadType, ThreadShape, Bare, Asking
<1>3. CASE Claim(t)
  <2>1. Asked(t, tmp[t], "grant") \/ Asked(t, tmp[t], "need")
    BY <1>0, <1>2, <1>3 DEF Claim, CheckSize, Goto, Asked, Room, Tested, At
  <2> QED BY <1>2, <1>3, <2>1 DEF Claim, At
<1>4. CASE Retest(t)
  <2>1. Asked(t, tmp[t], "let") \/ Asked(t, tmp[t], "deny")
    BY <1>0, <1>2, <1>4 DEF Retest, CheckSize, Goto, Asked, Room, Tested, At
  <2> QED BY <1>2, <1>4, <2>1 DEF Retest, At
<1> QED BY <1>1, <1>3, <1>4 DEF Asks

LEMMA MoveStep ==
    ASSUME NEW t \in Threads, Moves(t)
    PROVE  /\ Running /\ pc[t] \in Asking \cup {"leave"}
           /\ \/ Done(t)
              \/ /\ pc[t] \in Asking /\ UNCHANGED <<op, arr, tmp, inc>>
                 /\ \E p \in Asking \cup {"grant"} : Goto(t, p)
           /\ UNCHANGED <<clock, arrays, used, next, known, files, seen>>
<1>1. CASE Full(t) \/ BeginWait(t) \/ TimeOut(t)
  BY <1>1 DEF Full, BeginWait, TimeOut, At, Asking, sync
<1>2. CASE EndWait(t) \/ EndNeed(t) \/ Leave(t)
  BY <1>2 DEF EndWait, EndNeed, Leave, At, Asking
<1> QED BY <1>1, <1>2 DEF Moves, Syncs

LEMMA ChngStep ==
    ASSUME NEW t \in Threads, Chng(t)
    PROVE  /\ Running /\ pc[t] = "manage" /\ op[t] = "chng" /\ Usable(t)
           /\ Sweeps
           /\ (Done(t) /\ untested' = untested) \/ \E n \in NewSizes : Changes(t, n)
           /\ UNCHANGED <<clock, next, known, old, dirty, kept>>
<1>1. PICK n \in NewSizes :
          CheckSize(n - size[arr[t]],
                    /\ Goto(t, "apply")
                    /\ tmp' = [tmp EXCEPT ![t] = n]
                    /\ inc' = [inc EXCEPT ![t] = n - size[arr[t]]]
                    /\ UNCHANGED <<op, arr>>,
                    Done(t))
  BY DEF Chng
<1>2. Sweeps /\ ((Done(t) /\ untested' = untested) \/ Changes(t, n))
  BY <1>1 DEF CheckSize, Sweeps, Changes, Goto, Room
<1> QED BY <1>2 DEF Chng, At

LEMMA TruncateStep ==
    ASSUME NEW t \in Threads, Truncate(t)
    PROVE  /\ Running /\ pc[t] = "truncate" /\ Sweeps
           /\ Goto(t, "leave") /\ UNCHANGED <<op, arr, tmp, inc>>
           /\ UNCHANGED <<clock, next, known, old, dirty, untested, kept>>
BY DEF Truncate, At, Sweeps

-----------------------------------------------------------------------------
(* Types                                                                   *)

LEMMA Sizings ==
    /\ IsFiniteSet(Arrays) /\ IsFiniteSet(Threads) /\ NoArray \notin Arrays
    /\ \A n \in Sizes \cup NewSizes : n \in Nat /\ n > 0
    /\ \A n \in Grown : n \in Nat /\ n > 0
    /\ StableStorage \in Nat /\ Lifetime \in Nat
    /\ MaxNow \in Nat /\ MaxRequests \in Nat /\ MaxCrashes \in Nat
    /\ \A t \in Threads : Does[t] \subseteq Ops
BY StorageAssumption DEF Grown

LEMMA SizeOfTotal == ASSUME NEW S PROVE SizeOf(S) = Total(size, S)
BY DEF SizeOf, Total

LEMMA SizeOfType ==
    ASSUME ArrayType, NEW S \in SUBSET Arrays
    PROVE  SizeOf(S) \in Nat
<1>1. IsFiniteSet(S)
  BY Sizings, FS_Subset
<1>2. ASSUME NEW a \in S PROVE size[a] \in Nat
  <2>1. size[a] \in Grown \cup {0}
    BY DEF ArrayType
  <2>2. \A n \in Grown : n \in Nat
    BY Sizings
  <2> QED BY <2>1, <2>2
<1>3. Total(size, S) \in Nat
  <2>1. \A a \in S : size[a] \in Nat
    BY <1>2
  <2> QED BY <1>1, <2>1, TotalType
<1> QED BY <1>3, SizeOfTotal

LEMMA InvalidatedType ==
    ASSUME FileType, NEW S
    PROVE  /\ Invalidated(S) \in Seq(Records) /\ DOMAIN Invalidated(S) = DOMAIN lss
           /\ \A i \in DOMAIN lss : Invalidated(S)[i].key = lss[i].key
<1> DEFINE R(i) == IF \E a \in S : index[a] = i
                   THEN [key |-> lss[i].key, size |-> 0, refs |-> 0, ends |-> 0, valid |-> FALSE]
                   ELSE lss[i]
<1>1. lss \in Seq(Records) /\ DOMAIN lss = 1 .. Len(lss) /\ Len(lss) \in Nat
  BY DEF FileType
<1>2. ASSUME NEW i \in DOMAIN lss
      PROVE  R(i) \in Records /\ R(i).key = lss[i].key
  <2>1. lss[i] \in Records
    BY <1>1
  <2> QED BY <2>1 DEF Records
<1>3. Invalidated(S) = [i \in DOMAIN lss |-> R(i)]
  BY DEF Invalidated
<1> HIDE DEF R
<1>4. Invalidated(S) \in [1 .. Len(lss) -> Records]
  BY <1>1, <1>2, <1>3
<1>5. \A i \in DOMAIN lss : Invalidated(S)[i].key = lss[i].key
  BY <1>2, <1>3
<1> QED BY <1>1, <1>4, <1>5

LEMMA RewrittenType ==
    ASSUME FileType, ArrayType, NEW a \in Arrays, ~NoRecord(a)
    PROVE  /\ Rewritten(a) \in Seq(Records) /\ DOMAIN Rewritten(a) = DOMAIN lss
           /\ \A i \in DOMAIN lss : Rewritten(a)[i].key = lss[i].key
           /\ \A i \in DOMAIN lss : i # index[a] => Rewritten(a)[i] = lss[i]
           /\ Rewritten(a)[index[a]].valid /\ Rewritten(a)[index[a]].ends = ends[a]
<1> DEFINE i == index[a]
           r == [lss[i] EXCEPT !.size = size[a], !.refs = refs[a], !.ends = ends[a], !.valid = TRUE]
<1>1. lss \in Seq(Records) /\ i \in DOMAIN lss
  BY DEF FileType, NoRecord
<1>2. size[a] \in Grown \cup {0} /\ refs[a] \in Int /\ ends[a] \in Nat
  BY DEF ArrayType
<1>3. r \in Records /\ r.key = lss[i].key /\ r.valid /\ r.ends = ends[a]
  <2>1. lss[i] \in Records
    BY <1>1
  <2> QED BY <1>2, <2>1 DEF Records
<1>4. Rewritten(a) = [lss EXCEPT ![i] = r]
  BY DEF Rewritten
<1> HIDE DEF i, r
<1>5. /\ Rewritten(a) \in Seq(Records) /\ DOMAIN Rewritten(a) = DOMAIN lss
      /\ Rewritten(a)[i] = r /\ \A j \in DOMAIN lss : j # i => Rewritten(a)[j] = lss[j]
  BY <1>1, <1>3, <1>4
<1> QED BY <1>1, <1>3, <1>5 DEF i

LEMMA ErasedType ==
    ASSUME ArrayType, NEW S \in SUBSET Arrays, Erased(S), next' = next
    PROVE  /\ mem' \in [Arrays -> {"none", "live", "dying", "freed"}]
           /\ size' \in [Arrays -> Grown \cup {0}] /\ refs' \in [Arrays -> Int]
           /\ ends' \in [Arrays -> Nat] /\ reference' \in [Arrays -> Int]
           /\ wl' \in [Arrays -> BOOLEAN] /\ index' \in [Arrays -> 0..next' - 1]
<1>1. mem' \in [Arrays -> {"none", "live", "dying", "freed"}]
  BY DEF Erased, ArrayType
<1>2. size' \in [Arrays -> Grown \cup {0}]
  BY DEF Erased, ArrayType
<1>3. refs' \in [Arrays -> Int] /\ ends' \in [Arrays -> Nat] /\ reference' \in [Arrays -> Int]
  BY DEF Erased, ArrayType
<1>4. wl' \in [Arrays -> BOOLEAN]
  BY DEF Erased, ArrayType
<1>5. index' \in [Arrays -> 0..next' - 1]
  BY DEF Erased, ArrayType
<1> QED BY <1>1, <1>2, <1>3, <1>4, <1>5

LEMMA SweepsType ==
    ASSUME ArrayType, FileType, SeenType, Sweeps, next' = next
    PROVE  ArrayType' /\ lss' \in Seq(Records) /\ lost' \subseteq Arrays
<1>1. CASE UNCHANGED <<arrays, used, lss, lost>>
  BY <1>1 DEF arrays, fields, ArrayType, FileType, SeenType
<1>2. CASE Shrunk(Unused)
  <2>1. Unused \in SUBSET Arrays
    BY DEF Unused, Expired, Tree
  <2>2. SizeOf(Unused) \in Nat
    BY <2>1, SizeOfType
  <2>3. deleted' \in [Arrays -> BOOLEAN]
    BY <1>2 DEF Shrunk
  <2>4. used' \in Int
    BY <1>2, <2>2 DEF Shrunk, ArrayType
  <2>5. file' \subseteq Arrays /\ lost' \subseteq Arrays
    BY <1>2, <2>1 DEF Shrunk, ArrayType, SeenType
  <2>6. lss' \in Seq(Records)
    BY <1>2, InvalidatedType DEF Shrunk
  <2>7. Erased(Unused)
    BY <1>2 DEF Shrunk
  <2>8. next' \in Nat \ {0}
    BY DEF ArrayType
  <2>9. /\ mem' \in [Arrays -> {"none", "live", "dying", "freed"}]
        /\ size' \in [Arrays -> Grown \cup {0}] /\ refs' \in [Arrays -> Int]
        /\ ends' \in [Arrays -> Nat] /\ reference' \in [Arrays -> Int]
        /\ wl' \in [Arrays -> BOOLEAN] /\ index' \in [Arrays -> 0..next' - 1]
    BY <2>1, <2>7, ErasedType
  <2> QED BY <2>3, <2>4, <2>5, <2>6, <2>8, <2>9 DEF ArrayType
<1> QED BY <1>1, <1>2 DEF Sweeps

\* Where a thread is, its array is one of the depot's.
LEMMA Holding ==
    ASSUME TypeInv, NEW t \in Threads, pc[t] \notin Bare
    PROVE  arr[t] \in Arrays
BY DEF TypeInv, ThreadShape

LEMMA ArrayTypeStep == ASSUME TypeInv, Next PROVE ArrayType'
<1> USE DEF TypeInv
<1>1. ASSUME NEW t \in Threads, Asks(t) \/ Truncate(t) \/ Chng(t)
      PROVE  ArrayType'
  BY <1>1, AskStep, TruncateStep, ChngStep, SweepsType
<1>2. ASSUME NEW t \in Threads,
             \/ Answer(t) \/ AddRecord(t) \/ RefuseRecovering(t) \/ BeginRead(t)
             \/ BeginManage(t) \/ Store(t) \/ SaveStore(t) \/ EndRead(t) \/ Release(t)
             \/ Check(t) \/ Resave(t) \/ Save(t) \/ Moves(t) \/ Undefined(t)
      PROVE  ArrayType'
  BY <1>2, MoveStep DEF Answer, AddRecord, RefuseRecovering, BeginRead, BeginManage, Store, SaveStore,
              EndRead, Release, Check, Resave, Save, Undefined, arrays, fields, ArrayType
<1>3. ASSUME NEW t \in Threads, Insert(t)
      PROVE  ArrayType'
  <2>1. PICK a \in Arrays :
          /\ mem' = [mem EXCEPT ![a] = "live"]
          /\ size' = [size EXCEPT ![a] = tmp[t]]
          /\ refs' = [refs EXCEPT ![a] = 1]
          /\ ends' = [ends EXCEPT ![a] = now + Lifetime]
          /\ file' = file \cup {a}
    BY <1>3 DEF Insert
  <2>2. tmp[t] \in Grown \cup {0} /\ tmp[t] \in Int
    BY <1>3 DEF Insert, At, ThreadShape, ThreadType, Grown, Bare, Asking
  <2>3. now + Lifetime \in Nat
    BY Sizings DEF ClockType
  <2>4. used' \in Int
    BY <1>3, <2>2 DEF Insert, ArrayType
  <2>5. size' \in [Arrays -> Grown \cup {0}] /\ ends' \in [Arrays -> Nat]
    BY <2>1, <2>2, <2>3 DEF ArrayType
  <2> QED BY <1>3, <2>1, <2>4, <2>5 DEF Insert, ArrayType
<1>4. ASSUME NEW t \in Threads, Number(t)
      PROVE  ArrayType'
  <2>1. next' \in Nat \ {0} /\ next \in 0..next' - 1 /\ index \in [Arrays -> 0..next' - 1]
    BY <1>4 DEF Number, ArrayType
  <2>2. index' \in [Arrays -> 0..next' - 1]
    BY <1>4, <2>1 DEF Number, Position
  <2> QED BY <1>4, <2>1, <2>2 DEF Number, ArrayType
<1>5. ASSUME NEW t \in Threads, Decode(t) \/ Reject(t) \/ Drop(t)
      PROVE  ArrayType'
  <2>1. tmp[t] \in Int
    BY DEF ThreadType
  <2>2. reference' \in [Arrays -> Int]
    BY <1>5, <2>1 DEF Decode, Reject, Drop, ArrayType
  <2> QED BY <1>5, <2>2 DEF Decode, Reject, Drop, ArrayType
<1>6. ASSUME NEW t \in Threads, BeginStore(t) \/ Unlock(t)
      PROVE  ArrayType'
  BY <1>6 DEF BeginStore, Unlock, ArrayType
<1>7. ASSUME NEW t \in Threads, Jettison(t)
      PROVE  ArrayType'
  <2>1. arr[t] \in Arrays
    BY <1>7, Holding DEF Jettison, At, Bare, Asking
  <2>2. size[arr[t]] \in Int
    <3>1. size[arr[t]] \in Grown \cup {0}
      BY <2>1 DEF ArrayType
    <3> QED BY <3>1, Sizings
  <2>3. used' \in Int
    BY <1>7, <2>2 DEF Jettison, ArrayType
  <2>4. mem' \in [Arrays -> {"none", "live", "dying", "freed"}] /\ file' \subseteq Arrays
    BY <1>7 DEF Jettison, ArrayType, FilesWithout
  <2>5. deleted' \in [Arrays -> BOOLEAN]
    BY <1>7 DEF Jettison, ArrayType
  <2> QED BY <1>7, <2>3, <2>4, <2>5 DEF Jettison, ArrayType
<1>8. ASSUME NEW t \in Threads, Forget(t)
      PROVE  ArrayType'
  <2>1. {arr[t]} \in SUBSET Arrays /\ Erased({arr[t]}) /\ next' = next
    BY <1>8, Holding DEF Forget, At, Bare, Asking
  <2>2. /\ mem' \in [Arrays -> {"none", "live", "dying", "freed"}]
        /\ size' \in [Arrays -> Grown \cup {0}] /\ refs' \in [Arrays -> Int]
        /\ ends' \in [Arrays -> Nat] /\ reference' \in [Arrays -> Int]
        /\ wl' \in [Arrays -> BOOLEAN] /\ index' \in [Arrays -> 0..next' - 1]
    BY <2>1, ErasedType
  <2>3. deleted' \in [Arrays -> BOOLEAN]
    BY <1>8 DEF Forget, ArrayType
  <2> QED BY <1>8, <2>2, <2>3 DEF Forget, ArrayType
<1>9. ASSUME NEW t \in Threads, Incr(t)
      PROVE  ArrayType'
  <2>1. arr[t] \in Arrays
    BY <1>9, Holding DEF Incr, At, Bare, Asking
  <2>2. refs' \in [Arrays -> Int]
    BY <1>9, <2>1 DEF Incr, ArrayType
  <2> QED BY <1>9, <2>2 DEF Incr, ArrayType
<1>10. ASSUME NEW t \in Threads, Decr(t)
       PROVE  ArrayType'
  <2>0. arr[t] \in Arrays
    BY <1>10, Holding DEF Decr, At, Bare, Asking
  <2>1. refs' \in [Arrays -> Int]
    BY <1>10, <2>0 DEF Decr, ArrayType
  <2>2. deleted' \in [Arrays -> BOOLEAN]
    BY <1>10 DEF Decr, ArrayType
  <2> QED BY <1>10, <2>1, <2>2 DEF Decr, ArrayType
<1>11. ASSUME NEW t \in Threads, Apply(t)
       PROVE  ArrayType'
  <2>1. tmp[t] \in Grown \cup {0} /\ inc[t] \in Int
    BY <1>11 DEF Apply, At, ThreadShape, ThreadType, Grown
  <2>2. now + Lifetime \in Nat
    BY Sizings DEF ClockType
  <2>3. used' \in Int
    BY <1>11, <2>1 DEF Apply, ArrayType
  <2>4. size' \in [Arrays -> Grown \cup {0}] /\ ends' \in [Arrays -> Nat]
    BY <1>11, <2>1, <2>2 DEF Apply, ArrayType
  <2> QED BY <1>11, <2>3, <2>4 DEF Apply, ArrayType
<1>12. CASE Crash
  <2>1. next' = 1 /\ index' = [a \in Arrays |-> 0] /\ used' = 0
    BY <1>12 DEF Crash
  <2>2. index' \in [Arrays -> 0..next' - 1]
    BY <2>1
  <2>3. /\ mem' \in [Arrays -> {"none", "live", "dying", "freed"}]
        /\ size' \in [Arrays -> Grown \cup {0}] /\ refs' \in [Arrays -> Int]
        /\ ends' \in [Arrays -> Nat] /\ reference' \in [Arrays -> Int]
    BY <1>12 DEF Crash
  <2>4. deleted' \in [Arrays -> BOOLEAN] /\ wl' \in [Arrays -> BOOLEAN]
    BY <1>12 DEF Crash
  <2> QED BY <1>12, <2>1, <2>2, <2>3, <2>4 DEF Crash, ArrayType
<1>13. CASE BeginRecovery \/ SkipRecord \/ EndRecovery \/ RecoverFinish \/ Tick \/ Waits
  BY <1>13 DEF BeginRecovery, SkipRecord, EndRecovery, RecoverFinish, Tick, Waits, vars,
               arrays, fields, ArrayType
<1>14. CASE RestoreRecord
  <2> DEFINE r == Head(old)
             a == r.key
  <2>1. old # << >> /\ old \in Seq(Records)
    BY <1>14 DEF RestoreRecord, FileType
  <2>2. r \in Records
    BY <2>1
  <2>3. a \in Arrays /\ r.size \in Grown \cup {0} /\ r.refs \in Int /\ r.ends \in Nat
    BY <2>2 DEF Records
  <2>4. /\ mem' = [mem EXCEPT ![a] = "live"]
        /\ size' = [size EXCEPT ![a] = r.size]
        /\ refs' = [refs EXCEPT ![a] = IF a \in dirty THEN 1 ELSE r.refs]
        /\ ends' = [ends EXCEPT ![a] = IF a \in dirty THEN now + Lifetime ELSE r.ends]
        /\ index' = [index EXCEPT ![a] = next]
        /\ used' = used + r.size /\ next' = next + 1
        /\ UNCHANGED <<file, reference, deleted, wl>>
    BY <1>14 DEF RestoreRecord, Charge
  <2> HIDE DEF r
  <2>5. used' \in Int
    BY <2>3, <2>4, Sizings DEF ArrayType
  <2>6. next' \in Nat \ {0} /\ next \in 0..next' - 1 /\ index \in [Arrays -> 0..next' - 1]
    BY <2>4 DEF ArrayType
  <2>7. index' \in [Arrays -> 0..next' - 1]
    BY <2>4, <2>6
  <2>8. now + Lifetime \in Nat
    BY Sizings DEF ClockType
  <2>9. ends' \in [Arrays -> Nat] /\ refs' \in [Arrays -> Int]
    BY <2>3, <2>4, <2>8 DEF ArrayType
  <2>10. size' \in [Arrays -> Grown \cup {0}]
    BY <2>3, <2>4 DEF ArrayType
  <2> QED BY <2>4, <2>5, <2>6, <2>7, <2>9, <2>10 DEF ArrayType
<1> QED BY <1>1, <1>2, <1>3, <1>4, <1>5, <1>6, <1>7, <1>8, <1>9, <1>10, <1>11, <1>12, <1>13,
           <1>14 DEF Next, Serves, Moves

LEMMA FileTypeStep == ASSUME TypeInv, Next PROVE FileType'
<1> USE DEF TypeInv
<1>1. ASSUME NEW t \in Threads, Asks(t) \/ Truncate(t) \/ Chng(t)
      PROVE  FileType'
  <2>1. Sweeps /\ next' = next /\ UNCHANGED <<known, old, dirty>>
    BY <1>1, AskStep, TruncateStep, ChngStep
  <2>2. lss' \in Seq(Records)
    BY <2>1, SweepsType
  <2> QED BY <2>1, <2>2 DEF FileType
<1>2. ASSUME NEW t \in Threads,
             \/ Insert(t) \/ Number(t) \/ Decode(t) \/ Reject(t) \/ RefuseRecovering(t)
             \/ BeginStore(t) \/ BeginRead(t) \/ BeginManage(t) \/ EndRead(t) \/ Release(t)
             \/ Drop(t) \/ Check(t) \/ Unlock(t) \/ Jettison(t) \/ Incr(t) \/ Decr(t)
             \/ Apply(t) \/ Moves(t) \/ Undefined(t)
      PROVE  FileType'
  BY <1>2, MoveStep DEF Insert, Number, Decode, Reject, RefuseRecovering, BeginStore, BeginRead,
              BeginManage, EndRead, Release, Drop, Check, Unlock, Jettison, Incr, Decr,
              Apply, Undefined, files, FileType
<1>3. ASSUME NEW t \in Threads, Answer(t)
      PROVE  FileType'
  <2>1. arr[t] \in Arrays
    BY <1>3, Holding DEF Answer, At, Bare, Asking
  <2> QED BY <1>3, <2>1 DEF Answer, files, FileType
<1>4. ASSUME NEW t \in Threads, AddRecord(t)
      PROVE  FileType'
  <2>1. arr[t] \in Arrays
    BY <1>4, Holding DEF AddRecord, At, Bare, Asking
  <2>2. Record(arr[t]) \in Records
    BY <2>1 DEF Record, Records, ArrayType
  <2> QED BY <1>4, <2>2 DEF AddRecord, FileType
<1>5. ASSUME NEW t \in Threads, SaveStore(t) \/ Resave(t) \/ Save(t)
      PROVE  FileType'
  <2>1. arr[t] \in Arrays /\ ~NoRecord(arr[t]) /\ lss' = Rewritten(arr[t])
    BY <1>5, Holding DEF SaveStore, Resave, Save, At, Bare, Asking
  <2>2. lss' \in Seq(Records)
    BY <2>1, RewrittenType
  <2> QED BY <1>5, <2>2 DEF SaveStore, Resave, Save, FileType
<1>6. ASSUME NEW t \in Threads, Store(t)
      PROVE  FileType'
  <2>1. arr[t] \in Arrays
    BY <1>6, Holding DEF Store, At, Bare, Asking
  <2> QED BY <1>6, <2>1 DEF Store, FileType
<1>7. ASSUME NEW t \in Threads, Forget(t)
      PROVE  FileType'
  <2>1. lss' \in Seq(Records)
    BY <1>7, InvalidatedType DEF Forget
  <2> QED BY <1>7, <2>1 DEF Forget, FileType
<1>8. CASE RecoverFinish \/ Tick \/ Waits \/ EndRecovery
  BY <1>8 DEF RecoverFinish, Tick, Waits, EndRecovery, vars, files, FileType
<1>9. CASE Crash \/ BeginRecovery \/ SkipRecord
  <2>1. << >> \in Seq(Records)
    OBVIOUS
  <2>2. CASE Crash
    BY <2>1, <2>2 DEF Crash, FileType
  <2>3. CASE BeginRecovery
    BY <2>1, <2>3 DEF BeginRecovery, FileType
  <2>4. CASE SkipRecord
    <3>1. old # << >> /\ old \in Seq(Records) /\ old' = Tail(old)
      BY <2>4 DEF SkipRecord, FileType
    <3>2. old' \in Seq(Records)
      BY <3>1
    <3> QED BY <2>4, <3>2 DEF SkipRecord, FileType
  <2> QED BY <1>9, <2>2, <2>3, <2>4
<1>10. CASE RestoreRecord
  <2> DEFINE r == Head(old)
             s == [r EXCEPT !.refs = refs'[r.key], !.ends = ends'[r.key]]
  <2>1. old # << >> /\ old \in Seq(Records)
    BY <1>10 DEF RestoreRecord, FileType
  <2>2. r \in Records /\ Tail(old) \in Seq(Records)
    BY <2>1
  <2>3. r.key \in Arrays
    BY <2>2 DEF Records
  <2>4. refs' \in [Arrays -> Int] /\ ends' \in [Arrays -> Nat]
    <3>1. ArrayType'
      BY <1>10, ArrayTypeStep DEF Next
    <3> QED BY <3>1 DEF ArrayType
  <2>5. s \in Records
    <3> HIDE DEF r
    <3> QED BY <2>2, <2>3, <2>4 DEF Records
  <2>6. lss' = Append(lss, s) /\ old' = Tail(old) /\ dirty' = dirty \ {r.key} /\ known' = known
    BY <1>10 DEF RestoreRecord
  <2> HIDE DEF s, r
  <2> QED BY <2>2, <2>5, <2>6 DEF FileType
<1> QED BY <1>1, <1>2, <1>3, <1>4, <1>5, <1>6, <1>7, <1>8, <1>9, <1>10 DEF Next, Serves, Moves

LEMMA ClockTypeStep == ASSUME TypeInv, Next PROVE ClockType'
<1> USE DEF TypeInv
<1>1. ASSUME NEW t \in Threads, Asks(t) \/ Decode(t)
      PROVE  ClockType'
  <2>1. /\ \/ requests < MaxRequests /\ requests' = requests + 1
           \/ requests' = requests
        /\ UNCHANGED <<phase, now, crashes>>
    BY <1>1, AskStep DEF Decode, Comes
  <2>2. MaxRequests \in Nat
    BY Sizings
  <2> QED BY <2>1, <2>2 DEF ClockType
<1>2. ASSUME NEW t \in Threads, Serves(t), ~Asks(t), ~Decode(t)
      PROVE  ClockType'
  <2>1. /\ now' = now /\ crashes' = crashes /\ requests' = requests
        /\ phase' = phase \/ phase' = "undefined"
    BY <1>2, ChngStep, TruncateStep, MoveStep
       DEF Serves, Moves, Insert, Answer, Number, AddRecord, Reject, RefuseRecovering,
           BeginStore, BeginRead, BeginManage, Store, SaveStore, EndRead, Release, Drop,
           Check, Unlock, Resave, Jettison, Forget, Incr, Decr, Apply, Save,
           Undefined, clock
  <2> QED BY <2>1 DEF ClockType, Phases
<1>3. CASE Crash
  <2>1. MaxCrashes \in Nat /\ phase' = "down" /\ crashes < MaxCrashes /\ crashes' = crashes + 1
    BY <1>3, Sizings DEF Crash
  <2> QED BY <1>3, <2>1 DEF Crash, ClockType, Phases
<1>4. CASE Tick
  BY <1>4, Sizings DEF Tick, ClockType
<1>5. CASE BeginRecovery \/ SkipRecord \/ RestoreRecord \/ EndRecovery \/ RecoverFinish \/ Waits
  BY <1>5 DEF BeginRecovery, SkipRecord, RestoreRecord, EndRecovery, RecoverFinish, Waits,
              vars, clock, ClockType, Phases
<1> QED BY <1>1, <1>2, <1>3, <1>4, <1>5 DEF Next

LEMMA SeenTypeStep == ASSUME TypeInv, Next PROVE SeenType'
<1> USE DEF TypeInv
<1>1. ASSUME NEW t \in Threads, Asks(t) \/ Truncate(t) \/ Chng(t)
      PROVE  SeenType'
  <2>1. Sweeps /\ next' = next /\ kept' = kept
    BY <1>1, AskStep, TruncateStep, ChngStep
  <2>2. lost' \subseteq Arrays
    BY <2>1, SweepsType
  <2> QED BY <2>1, <2>2 DEF SeenType
<1>2. ASSUME NEW t \in Threads, Jettison(t)
      PROVE  SeenType'
  <2>1. arr[t] \in Arrays
    BY <1>2, Holding DEF Jettison, At, Bare, Asking
  <2> QED BY <1>2, <2>1 DEF Jettison, SeenType
<1>3. ASSUME NEW t \in Threads, Serves(t), ~Asks(t), ~Truncate(t), ~Chng(t), ~Jettison(t)
      PROVE  SeenType'
  <2>1. lost' = lost /\ kept' = kept
    BY <1>3, MoveStep
       DEF Serves, Moves, Insert, Answer, Number, AddRecord, Decode, Reject, RefuseRecovering,
           BeginStore, BeginRead, BeginManage, Store, SaveStore, EndRead, Release, Drop,
           Check, Unlock, Resave, Forget, Incr, Decr, Apply, Save, Undefined, seen
  <2> QED BY <2>1 DEF SeenType
<1>4. CASE Crash
  BY <1>4 DEF Crash, Owed, Tree, SeenType
<1>5. CASE \/ BeginRecovery \/ SkipRecord \/ RestoreRecord \/ EndRecovery \/ RecoverFinish
           \/ Tick \/ Waits
  BY <1>5 DEF BeginRecovery, SkipRecord, RestoreRecord, EndRecovery, RecoverFinish, Tick,
              Waits, vars, seen, SeenType
<1> QED BY <1>1, <1>2, <1>3, <1>4, <1>5 DEF Next

LEMMA ThreadTypeStep == ASSUME TypeInv, Next PROVE ThreadType' /\ ThreadShape'
<1> USE DEF TypeInv
<1>0. NoArray \in Arrays \cup {NoArray} /\ \A t \in Threads : Does[t] \subseteq Ops
  BY Sizings
<1>1. ASSUME NEW t \in Threads, Asks(t)
      PROVE  ThreadType' /\ ThreadShape'
  <2>1. /\ pc[t] \in {"idle", "again", "last"} /\ "allocate" \in Does[t]
        /\ arr' = arr /\ inc' = inc
    BY <1>1, AskStep, AskLocals
  <2>2. PICK n \in Sizes, p \in {"grant", "full", "need", "let", "deny"} : Asked(t, n, p)
    BY <1>1, AskLocals
  <2>3. n \in Int /\ p \in Pcs /\ p \in Bare
    BY Sizings DEF Pcs, Bare, Asking
  <2>4. ThreadType'
    BY <2>1, <2>2, <2>3 DEF Asked, ThreadType, Ops
  <2>5. ThreadShape'
    BY <2>1, <2>2, <2>3 DEF Asked, ThreadType, ThreadShape
  <2> QED BY <2>4, <2>5
<1>2. ASSUME NEW t \in Threads, Insert(t)
      PROVE  ThreadType' /\ ThreadShape'
  <2>1. PICK a \in Arrays : arr' = [arr EXCEPT ![t] = a]
    BY <1>2 DEF Insert
  <2>2. /\ pc[t] = "grant" /\ pc' = [pc EXCEPT ![t] = "answer"] /\ op' = op
        /\ tmp' = [tmp EXCEPT ![t] = 0] /\ inc' = inc
    BY <1>2 DEF Insert, At, Goto
  <2>3. ThreadType'
    BY <2>1, <2>2 DEF ThreadType, Pcs
  <2>4. ThreadShape'
    BY <2>1, <2>2 DEF ThreadType, ThreadShape, Bare, Asking
  <2> QED BY <2>3, <2>4
<1>3. ASSUME NEW t \in Threads, Done(t)
      PROVE  ThreadType' /\ ThreadShape'
  <2>1. ThreadType'
    BY <1>0, <1>3 DEF Done, Goto, ThreadType, Pcs, Ops
  <2>2. ThreadShape'
    BY <1>3 DEF Done, Goto, ThreadType, ThreadShape, Bare, Asking
  <2> QED BY <2>1, <2>2
\* A thread goes on with the request and the array it has.
<1>4. ASSUME NEW t \in Threads, NEW p \in Pcs \ ({"apply"} \cup Bare), Goto(t, p),
             pc[t] \notin Bare, op' = op, arr' = arr,
             \E n \in Int : tmp' = [tmp EXCEPT ![t] = n],
             \E n \in Int : inc' = [inc EXCEPT ![t] = n]
      PROVE  ThreadType' /\ ThreadShape'
  <2>1. PICK n \in Int : tmp' = [tmp EXCEPT ![t] = n]
    BY <1>4
  <2>2. PICK m \in Int : inc' = [inc EXCEPT ![t] = m]
    BY <1>4
  <2>3. ThreadType'
    BY <1>4, <2>1, <2>2 DEF Goto, ThreadType
  <2>4. ThreadShape'
    BY <1>4, <2>1 DEF Goto, ThreadType, ThreadShape, Bare, Asking
  <2> QED BY <2>3, <2>4
<1>5. ASSUME NEW t \in Threads, NEW p \in Pcs \ ({"apply"} \cup Bare), Goto(t, p),
             pc[t] \notin Bare, UNCHANGED <<op, arr, tmp, inc>>
      PROVE  ThreadType' /\ ThreadShape'
  <2>1. tmp' = [tmp EXCEPT ![t] = tmp[t]] /\ tmp[t] \in Int
    BY <1>5 DEF ThreadType
  <2>2. inc' = [inc EXCEPT ![t] = inc[t]] /\ inc[t] \in Int
    BY <1>5 DEF ThreadType
  <2> QED BY <1>4, <1>5, <2>1, <2>2
<1>6. ASSUME NEW t \in Threads, Answer(t) \/ Check(t) \/ Resave(t) \/ Jettison(t) \/ Decr(t)
      PROVE  ThreadType' /\ ThreadShape'
  <2>1. \/ Done(t)
        \/ /\ \E p \in {"number", "resave", "unlock", "jettison", "forget"} : Goto(t, p)
           /\ pc[t] \notin Bare /\ UNCHANGED <<op, arr, tmp, inc>>
    BY <1>6 DEF Answer, Check, Resave, Jettison, Decr, At, Bare, Asking
  <2> QED BY <1>3, <1>5, <2>1 DEF Pcs, Bare, Asking
<1>7. ASSUME NEW t \in Threads,
             \/ Number(t) \/ AddRecord(t) \/ BeginStore(t) \/ BeginRead(t) \/ BeginManage(t)
             \/ Store(t) \/ SaveStore(t) \/ EndRead(t) \/ Incr(t) \/ Truncate(t)
      PROVE  ThreadType' /\ ThreadShape'
  <2>1. /\ \E p \in {"record", "truncate", "leave", "write", "read", "release", "wrote", "save"} :
              Goto(t, p)
        /\ pc[t] \notin Bare /\ UNCHANGED <<op, arr, tmp, inc>>
    BY <1>7, TruncateStep
       DEF Number, AddRecord, BeginStore, BeginRead, BeginManage, Accepted, Store, SaveStore,
           EndRead, Incr, At, Bare, Asking
  <2> QED BY <1>5, <2>1 DEF Pcs, Bare, Asking
<1>8. ASSUME NEW t \in Threads,
             Reject(t) \/ RefuseRecovering(t) \/ Unlock(t) \/ Forget(t) \/ Save(t)
      PROVE  ThreadType' /\ ThreadShape'
  BY <1>3, <1>8 DEF Reject, RefuseRecovering, Unlock, Forget, Save
<1>9. ASSUME NEW t \in Threads, Decode(t)
      PROVE  ThreadType' /\ ThreadShape'
  <2>1. PICK a \in known, o \in Does[t] \ {"allocate"} :
            arr' = [arr EXCEPT ![t] = a] /\ op' = [op EXCEPT ![t] = o]
    BY <1>9 DEF Decode
  <2>2. a \in Arrays /\ o \in Ops
    BY <1>0 DEF FileType
  <2>3. pc[t] = "idle" /\ pc' = [pc EXCEPT ![t] = "decoded"] /\ tmp' = tmp /\ inc' = inc
    BY <1>9 DEF Decode, Goto
  <2>4. ThreadType'
    BY <2>1, <2>2, <2>3 DEF ThreadType, Pcs
  <2>5. ThreadShape'
    BY <2>1, <2>2, <2>3 DEF ThreadType, ThreadShape, Bare, Asking
  <2> QED BY <2>4, <2>5
<1>10. ASSUME NEW t \in Threads, Release(t)
       PROVE  ThreadType' /\ ThreadShape'
  <2>1. arr[t] \in Arrays /\ pc[t] \notin Bare
    BY <1>10, Holding DEF Release, At, Bare, Asking
  <2>2. reference[arr[t]] \in Int /\ inc' = [inc EXCEPT ![t] = inc[t]] /\ inc[t] \in Int
    BY <1>10, <2>1 DEF Release, ArrayType, ThreadType
  <2>3. tmp' = [tmp EXCEPT ![t] = reference[arr[t]]] /\ Goto(t, "drop") /\ op' = op /\ arr' = arr
    BY <1>10 DEF Release
  <2> QED BY <1>4, <2>1, <2>2, <2>3 DEF Pcs, Bare, Asking
<1>11. ASSUME NEW t \in Threads, Drop(t)
       PROVE  ThreadType' /\ ThreadShape'
  <2>1. /\ \E p \in {"manage", "check"} : Goto(t, p)
        /\ pc[t] \notin Bare /\ op' = op /\ arr' = arr /\ inc' = inc
        /\ tmp' = [tmp EXCEPT ![t] = 0]
    BY <1>11 DEF Drop, At, Bare, Asking
  <2>2. inc' = [inc EXCEPT ![t] = inc[t]] /\ inc[t] \in Int /\ 0 \in Int
    BY <2>1 DEF ThreadType
  <2> QED BY <1>4, <2>1, <2>2 DEF Pcs, Bare, Asking
<1>12. ASSUME NEW t \in Threads, Chng(t)
       PROVE  ThreadType' /\ ThreadShape'
  <2>1. /\ pc[t] = "manage" /\ op[t] = "chng"
        /\ Done(t) \/ \E n \in NewSizes : Changes(t, n)
    BY <1>12, ChngStep
  <2>2. ASSUME NEW n \in NewSizes, Changes(t, n)
        PROVE  ThreadType' /\ ThreadShape'
    <3>1. arr[t] \in Arrays
      BY <2>1, Holding DEF Bare, Asking
    <3>2. n \in Int /\ size[arr[t]] \in Int
      <4>1. size[arr[t]] \in Grown \cup {0}
        BY <3>1 DEF ArrayType
      <4> QED BY <4>1, Sizings
    <3>3. n - size[arr[t]] \in Int
      BY <3>2
    <3> DEFINE m == n - size[arr[t]]
    <3>4. /\ pc' = [pc EXCEPT ![t] = "apply"] /\ op' = op /\ arr' = arr
          /\ tmp' = [tmp EXCEPT ![t] = n] /\ inc' = [inc EXCEPT ![t] = m] /\ m \in Int
      BY <2>2, <3>3 DEF Changes
    <3> HIDE DEF m
    <3>5. ThreadType'
      BY <3>2, <3>4 DEF ThreadType, Pcs
    <3>6. ThreadShape'
      BY <2>1, <3>4 DEF ThreadType, ThreadShape, Bare, Asking
    <3> QED BY <3>5, <3>6
  <2> QED BY <1>3, <2>1, <2>2
<1>13. ASSUME NEW t \in Threads, Apply(t)
       PROVE  ThreadType' /\ ThreadShape'
  <2>1. /\ Goto(t, "save") /\ pc[t] \notin Bare /\ op' = op /\ arr' = arr
        /\ tmp' = [tmp EXCEPT ![t] = 0] /\ inc' = [inc EXCEPT ![t] = 0]
    BY <1>13 DEF Apply, At, Bare, Asking
  <2>2. "save" \in Pcs \ ({"apply"} \cup Bare) /\ 0 \in Int
    BY DEF Pcs, Bare, Asking
  <2> QED BY <1>4, <2>1, <2>2
<1>14. CASE Crash
  <2>1. /\ pc' = [t \in Threads |-> "idle"] /\ op' = [t \in Threads |-> "store"]
        /\ arr' = [t \in Threads |-> NoArray]
        /\ tmp' = [t \in Threads |-> 0] /\ inc' = [t \in Threads |-> 0]
    BY <1>14 DEF Crash
  <2>2. ThreadType'
    BY <1>0, <2>1 DEF ThreadType, Pcs, Ops
  <2>3. ThreadShape'
    BY <2>1 DEF ThreadShape, Bare, Asking
  <2> QED BY <2>2, <2>3
<1>15. ASSUME UNCHANGED locals
       PROVE  ThreadType' /\ ThreadShape'
  BY <1>15 DEF locals, ThreadType, ThreadShape
<1>16. CASE \/ BeginRecovery \/ SkipRecord \/ RestoreRecord \/ EndRecovery \/ RecoverFinish
            \/ Tick \/ Waits \/ \E t \in Threads : Undefined(t)
  BY <1>15, <1>16 DEF BeginRecovery, SkipRecord, RestoreRecord, EndRecovery, RecoverFinish,
                      Tick, Waits, Undefined, vars
<1>17. ASSUME NEW t \in Threads, Moves(t)
       PROVE  ThreadType' /\ ThreadShape'
  <2>1. CASE Done(t)
    BY <1>3, <2>1
  <2>2. ASSUME pc[t] \in Asking, UNCHANGED <<op, arr, tmp, inc>>,
               NEW p \in Asking \cup {"grant"}, Goto(t, p)
        PROVE  ThreadType' /\ ThreadShape'
    <3>1. p \in Pcs /\ p \in Bare /\ p \notin {"idle", "apply"} /\ pc[t] \in Bare \ {"idle"}
      BY <2>2 DEF Pcs, Bare, Asking
    <3>2. ThreadType'
      BY <2>2, <3>1 DEF Goto, ThreadType
    <3>3. ThreadShape'
      BY <2>2, <3>1 DEF Goto, ThreadType, ThreadShape
    <3> QED BY <3>2, <3>3
  <2> QED BY <1>17, <2>1, <2>2, MoveStep
<1> QED BY <1>1, <1>2, <1>6, <1>7, <1>8, <1>9, <1>10, <1>11, <1>12, <1>13, <1>14, <1>16, <1>17
        DEF Next, Serves, Moves

LEMMA SyncTypeStep == ASSUME TypeInv, Next PROVE SyncType'
<1> USE DEF TypeInv, SyncType
<1>1. ASSUME NEW c, Signal(c)
      PROVE  woken' \subseteq Threads
  BY <1>1 DEF Signal, Waiters
<1>2. ASSUME NEW t \in Threads, Asks(t)
      PROVE  SyncType'
  <2>1. needed' \in Sizes \cup {0} /\ alloc' = alloc
    <3>1. CASE Allocate(t) \/ Retest(t)
      BY <3>1 DEF Allocate, Retest
    <3>2. CASE Claim(t)
      <4>1. tmp[t] \in Sizes
        BY <3>2 DEF Claim, At, ThreadShape, Bare, Asking
      <4> QED BY <3>2, <4>1 DEF Claim, CheckSize
    <3> QED BY <1>2, <3>1, <3>2 DEF Asks
  <2>2. untested' \in Nat
    <3>1. untested' \in {0, untested}
      BY <1>2, AskLocals DEF Asked
    <3> QED BY <3>1
  <2>3. woken' \subseteq Threads
    BY <1>2 DEF Asks, Allocate, Claim, Retest, CheckSize, Shrunk, LetGo, Waiters
  <2> QED BY <2>1, <2>2, <2>3
<1>3. ASSUME NEW t \in Threads, Chng(t)
      PROVE  SyncType'
  <2>1. untested' \in {0, untested}
    BY <1>3, ChngStep DEF Changes, Tested
  <2>2. woken' \subseteq Threads
    BY <1>3 DEF Chng, CheckSize, Shrunk, LetGo, Waiters
  <2> QED BY <1>3, <2>1, <2>2 DEF Chng
<1>4. ASSUME NEW t \in Threads, EndWait(t)
      PROVE  SyncType'
  <2>1. pc[t] = "cond" => tmp[t] \in Nat
    BY Sizings DEF ThreadShape, Bare, Asking
  <2>2. untested' \in Nat
    BY <1>4, <2>1 DEF EndWait, At
  <2> QED BY <1>4, <2>2 DEF EndWait
<1>5. ASSUME NEW t \in Threads, BeginWait(t) \/ EndNeed(t) \/ Leave(t) \/ Truncate(t) \/ Jettison(t)
      PROVE  SyncType'
  <2>1. woken' \subseteq Threads
    BY <1>1, <1>5 DEF BeginWait, EndNeed, Leave, Truncate, Shrunk, LetGo, Waiters, Jettison
  <2> QED BY <1>5, <2>1 DEF BeginWait, EndNeed, Leave, Truncate, Jettison
<1>6. ASSUME NEW t \in Threads,
             \/ Full(t) \/ TimeOut(t) \/ Insert(t) \/ Answer(t) \/ Number(t) \/ AddRecord(t)
             \/ Decode(t) \/ Reject(t) \/ RefuseRecovering(t) \/ BeginStore(t) \/ BeginRead(t)
             \/ BeginManage(t) \/ Store(t) \/ SaveStore(t) \/ EndRead(t) \/ Release(t) \/ Drop(t)
             \/ Check(t) \/ Unlock(t) \/ Resave(t) \/ Forget(t) \/ Incr(t) \/ Decr(t)
             \/ Apply(t) \/ Save(t) \/ Undefined(t)
      PROVE  SyncType'
  BY <1>6 DEF Full, TimeOut, Insert, Answer, Number, AddRecord, Decode, Reject, RefuseRecovering,
              BeginStore, BeginRead, BeginManage, Store, SaveStore, EndRead, Release, Drop, Check,
              Unlock, Resave, Forget, Incr, Decr, Apply, Save, Undefined, sync
<1>7. CASE Crash
  BY <1>7 DEF Crash
<1>8. CASE \/ BeginRecovery \/ SkipRecord \/ RestoreRecord \/ EndRecovery \/ RecoverFinish
           \/ Tick \/ Waits
  BY <1>8 DEF BeginRecovery, SkipRecord, RestoreRecord, EndRecovery, RecoverFinish, Tick, Waits,
              vars, sync
<1> QED BY <1>2, <1>3, <1>4, <1>5, <1>6, <1>7, <1>8 DEF Next, Serves, Syncs

LEMMA TypeInit == Init => TypeInv
<1> SUFFICES ASSUME Init PROVE TypeInv
  OBVIOUS
<1>1. ClockType
  BY Sizings DEF Init, ClockType, Phases
<1>2. ArrayType
  <2>1. /\ mem \in [Arrays -> {"none", "live", "dying", "freed"}] /\ file \subseteq Arrays
        /\ size \in [Arrays -> Grown \cup {0}] /\ refs \in [Arrays -> Int]
        /\ ends \in [Arrays -> Nat] /\ reference \in [Arrays -> Int]
    BY DEF Init
  <2>2. deleted \in [Arrays -> BOOLEAN] /\ wl \in [Arrays -> BOOLEAN]
    BY DEF Init
  <2>3. next \in Nat \ {0} /\ used \in Int /\ index \in [Arrays -> 0..next - 1]
    BY DEF Init
  <2> QED BY <2>1, <2>2, <2>3 DEF ArrayType
<1>3. FileType
  <2>1. << >> \in Seq(Records)
    OBVIOUS
  <2> QED BY <2>1 DEF Init, FileType
<1>4. SeenType
  BY DEF Init, SeenType
<1>5. ThreadType
  <2>1. /\ pc = [t \in Threads |-> "idle"] /\ op = [t \in Threads |-> "store"]
        /\ arr = [t \in Threads |-> NoArray]
        /\ tmp = [t \in Threads |-> 0] /\ inc = [t \in Threads |-> 0]
    BY DEF Init
  <2>2. NoArray \in Arrays \cup {NoArray}
    OBVIOUS
  <2> QED BY <2>1, <2>2 DEF ThreadType, Pcs, Ops
<1>6. ThreadShape
  BY DEF Init, ThreadShape, Bare, Asking
<1>7. SyncType
  BY DEF Init, SyncType
<1> QED BY <1>1, <1>2, <1>3, <1>4, <1>5, <1>6, <1>7 DEF TypeInv

LEMMA TypeStep == ASSUME TypeInv, [Next]_vars PROVE TypeInv'
<1>1. CASE Next
  BY <1>1, ArrayTypeStep, FileTypeStep, ClockTypeStep, SeenTypeStep, ThreadTypeStep,
     SyncTypeStep
     DEF TypeInv
<1>2. CASE UNCHANGED vars
  BY <1>2 DEF vars, clock, arrays, fields, files, locals, sync, seen, TypeInv, ClockType,
              ArrayType, FileType, SeenType, ThreadType, ThreadShape, SyncType
<1> QED BY <1>1, <1>2

\* The types that the runs check follow.
LEMMA TypesOK == TypeInv => TypeOK
<1> SUFFICES ASSUME TypeInv PROVE TypeOK
  OBVIOUS
<1>1. ASSUME NEW r \in Range(lss) \cup Range(old)
      PROVE  /\ r.key \in Arrays /\ r.size \in Grown \cup {0} /\ r.refs \in Int /\ r.ends \in Nat
             /\ r.valid \in BOOLEAN
  <2>1. r \in Records
    BY DEF Range, TypeInv, FileType
  <2> QED BY <2>1 DEF Records
<1>2. Grown = Sizes \cup NewSizes
  BY DEF Grown
<1> QED BY <1>1, <1>2 DEF TypeInv, ClockType, ArrayType, FileType, SeenType, ThreadType, SyncType,
                          TypeOK

-----------------------------------------------------------------------------
(* What the steps of a thread leave alone                                  *)

LEMMA ServesClock ==
    ASSUME NEW t \in Threads, Serves(t)
    PROVE  /\ Running /\ phase' \in {phase, "undefined"}
           /\ now' = now /\ crashes' = crashes /\ old' = old /\ kept' = kept
<1>1. CASE Asks(t) \/ Chng(t) \/ Truncate(t)
  BY <1>1, AskStep, ChngStep, TruncateStep DEF clock, Running
<1>2. CASE Serves(t) /\ ~Asks(t) /\ ~Chng(t) /\ ~Truncate(t)
  BY <1>2, MoveStep
     DEF Serves, Moves, Insert, Answer, Number, AddRecord, Decode, Reject, RefuseRecovering,
              BeginStore, BeginRead, BeginManage, Store, SaveStore, EndRead, Release, Drop,
              Check, Unlock, Resave, Jettison, Forget, Incr, Decr, Apply, Save, Undefined,
              clock, files, seen, At, Accepted, Running
<1> QED BY <1>1, <1>2

\* The locals of the other threads.
LEMMA ServesOthers ==
    ASSUME TypeInv, NEW t \in Threads, Serves(t), NEW u \in Threads, u # t
    PROVE  pc'[u] = pc[u] /\ op'[u] = op[u] /\ arr'[u] = arr[u] /\ tmp'[u] = tmp[u] /\ inc'[u] = inc[u]
<1> USE DEF TypeInv, ThreadType
<1>1. ASSUME Done(t)
      PROVE  pc'[u] = pc[u] /\ op'[u] = op[u] /\ arr'[u] = arr[u] /\ tmp'[u] = tmp[u] /\ inc'[u] = inc[u]
  BY <1>1 DEF Done, Goto
<1>2. ASSUME NEW p, Goto(t, p), UNCHANGED <<op, arr, tmp, inc>>
      PROVE  pc'[u] = pc[u] /\ op'[u] = op[u] /\ arr'[u] = arr[u] /\ tmp'[u] = tmp[u] /\ inc'[u] = inc[u]
  BY <1>2 DEF Goto
<1>3. CASE Asks(t)
  BY <1>3, AskStep, AskLocals DEF Asked
<1>4. CASE Chng(t)
  BY <1>1, <1>4, ChngStep DEF Changes
<1>5. CASE Reject(t) \/ RefuseRecovering(t) \/ Unlock(t) \/ Forget(t) \/ Save(t)
  BY <1>1, <1>5 DEF Reject, RefuseRecovering, Unlock, Forget, Save
<1>6. CASE \/ Number(t) \/ AddRecord(t) \/ BeginStore(t) \/ BeginRead(t) \/ BeginManage(t)
           \/ Store(t) \/ SaveStore(t) \/ EndRead(t) \/ Incr(t)
  BY <1>2, <1>6 DEF Number, AddRecord, BeginStore, BeginRead, BeginManage, Store,
                    SaveStore, EndRead, Incr
<1>7. CASE Answer(t) \/ Check(t) \/ Resave(t) \/ Jettison(t) \/ Decr(t)
  BY <1>1, <1>2, <1>7 DEF Answer, Check, Resave, Jettison, Decr
<1>8. CASE Insert(t) \/ Decode(t) \/ Release(t) \/ Drop(t) \/ Apply(t)
  BY <1>8 DEF Insert, Decode, Release, Drop, Apply, Goto
<1>9. CASE Undefined(t)
  BY <1>9 DEF Undefined, locals
<1>10. CASE Truncate(t) \/ Moves(t)
  BY <1>1, <1>2, <1>10, TruncateStep, MoveStep
<1> QED BY <1>3, <1>4, <1>5, <1>6, <1>7, <1>8, <1>9, <1>10 DEF Serves, Moves

\* The life of a byte array: none, live, dying, freed.
LEMMA ServesMem ==
    ASSUME TypeInv, NEW t \in Threads, Serves(t), NEW a \in Arrays
    PROVE  \/ mem'[a] = mem[a]
           \/ /\ mem[a] = "none" /\ mem'[a] = "live" /\ Insert(t)
              /\ Fresh(a) /\ arr'[t] = a
           \/ /\ mem[a] = "live" /\ mem'[a] = "freed" /\ a \in Unused /\ Shrunk(Unused)
              /\ Asks(t) \/ Chng(t) \/ Truncate(t)
           \/ mem[a] = "live" /\ mem'[a] = "dying" /\ Jettison(t) /\ arr[t] = a
           \/ mem[a] = "dying" /\ mem'[a] = "freed" /\ Forget(t) /\ arr[t] = a
<1> USE DEF TypeInv, ArrayType, ThreadType
<1>1. CASE Asks(t) \/ Chng(t) \/ Truncate(t)
  <2>1. Sweeps
    BY <1>1, AskStep, ChngStep, TruncateStep
  <2>2. CASE UNCHANGED <<arrays, used, lss, lost>>
    BY <2>2 DEF arrays
  <2>3. CASE Shrunk(Unused)
    <3>1. mem'[a] = IF a \in Unused THEN "freed" ELSE mem[a]
      BY <2>3 DEF Shrunk, Erased
    <3>2. a \in Unused => mem[a] = "live"
      BY DEF Unused, Expired, Tree
    <3> QED BY <1>1, <2>3, <3>1, <3>2
  <2> QED BY <2>1, <2>2, <2>3 DEF Sweeps
<1>2. CASE Insert(t)
  <2>1. PICK b \in Arrays :
            Fresh(b) /\ arr' = [arr EXCEPT ![t] = b] /\ mem' = [mem EXCEPT ![b] = "live"]
    BY <1>2 DEF Insert
  <2> QED BY <1>2, <2>1 DEF Fresh
<1>3. CASE Jettison(t)
  BY <1>3 DEF Jettison
<1>4. CASE Forget(t)
  <2>1. mem'[a] = IF a = arr[t] THEN "freed" ELSE mem[a]
    BY <1>4 DEF Forget, Erased
  <2> QED BY <1>4, <2>1 DEF Forget
<1>5. CASE \/ Answer(t) \/ Number(t) \/ AddRecord(t) \/ Decode(t) \/ Reject(t)
           \/ RefuseRecovering(t) \/ BeginStore(t) \/ BeginRead(t) \/ BeginManage(t) \/ Store(t)
           \/ SaveStore(t) \/ EndRead(t) \/ Release(t) \/ Drop(t) \/ Check(t) \/ Unlock(t)
           \/ Resave(t) \/ Incr(t) \/ Decr(t) \/ Apply(t) \/ Save(t) \/ Moves(t) \/ Undefined(t)
  <2>1. mem' = mem
    BY <1>5, MoveStep
       DEF Answer, Number, AddRecord, Decode, Reject, RefuseRecovering, BeginStore,
                BeginRead, BeginManage, Store, SaveStore, EndRead, Release, Drop, Check,
                Unlock, Resave, Incr, Decr, Apply, Save, Undefined, arrays
  <2> QED BY <2>1
<1> QED BY <1>1, <1>2, <1>3, <1>4, <1>5 DEF Serves, Moves

-----------------------------------------------------------------------------
(* Phases, and the arrays that threads hold                                *)

\* While the depot is down, nobody works; nothing but recover() reads old records.
Phased ==
    /\ phase \in {"down", "loading"} => \A t \in Threads : pc[t] = "idle"
    /\ phase \in {"down", "loading"} =>
          \A a \in Arrays : ~deleted[a] /\ mem[a] \in {"none", "live"}
    /\ phase = "down" =>
          /\ next = 1 /\ used = 0
          /\ \A a \in Arrays : mem[a] = "none" /\ index[a] = 0 /\ ~wl[a]
    /\ phase \in {"down", "loading", "recovering"} => crashes > 0
    /\ phase # "loading" => old = << >>

\* An array that a thread holds has been made, and perhaps freed again.
Held == \A t \in Threads : pc[t] \notin Bare => mem[arr[t]] # "none"

LEMMA PhasedStep == ASSUME TypeInv, Phased, Next PROVE Phased'
<1>1. ASSUME NEW t \in Threads, Serves(t)
      PROVE  Phased'
  BY <1>1, ServesClock DEF Phased, Running
<1>2. CASE Crash
  <2>1. /\ phase' = "down" /\ crashes' = crashes + 1 /\ crashes \in Nat
        /\ next' = 1 /\ used' = 0 /\ old' = << >>
    BY <1>2 DEF Crash, TypeInv, ClockType
  <2>2. /\ \A t \in Threads : pc'[t] = "idle"
        /\ \A a \in Arrays : mem'[a] = "none" /\ index'[a] = 0 /\ ~deleted'[a] /\ ~wl'[a]
    BY <1>2 DEF Crash
  <2> QED BY <2>1, <2>2 DEF Phased
<1>3. CASE BeginRecovery
  BY <1>3 DEF BeginRecovery, Phased, arrays, fields, locals
<1>4. CASE SkipRecord
  BY <1>4 DEF SkipRecord, Phased, arrays, fields, locals, clock
<1>5. CASE RestoreRecord
  <2> DEFINE b == Head(old).key
  <2>1. /\ mem' = [mem EXCEPT ![b] = "live"] /\ phase = "loading" /\ phase' = phase
        /\ UNCHANGED <<pc, deleted, crashes>>
    BY <1>5 DEF RestoreRecord, locals, clock
  <2> HIDE DEF b
  <2>2. \A a \in Arrays : ~deleted'[a] /\ mem'[a] \in {"none", "live"}
    BY <2>1 DEF Phased, TypeInv, ArrayType
  <2> QED BY <2>1, <2>2 DEF Phased
<1>6. CASE EndRecovery
  BY <1>6 DEF EndRecovery, Phased, arrays, fields, locals
<1>7. CASE RecoverFinish \/ Tick
  BY <1>7 DEF RecoverFinish, Tick, Phased, arrays, fields, locals, files
<1>8. CASE Waits
  BY <1>8 DEF Waits, vars, Phased, arrays, fields, locals, files, clock
<1> QED BY <1>1, <1>2, <1>3, <1>4, <1>5, <1>6, <1>7, <1>8 DEF Next

\* A step that begins with an array in hand does not change it; the others take
\* one that is in the tree.
LEMMA ServesHand ==
    ASSUME TypeInv, NEW t \in Threads, Serves(t), pc'[t] \notin Bare
    PROVE  \/ pc[t] \notin Bare /\ arr'[t] = arr[t] /\ op'[t] = op[t]
           \/ Insert(t) /\ pc[t] = "grant" /\ pc'[t] = "answer" /\ mem'[arr'[t]] = "live"
              /\ op'[t] = op[t]
           \/ Decode(t) /\ pc[t] = "idle" /\ pc'[t] = "decoded" /\ mem[arr'[t]] = "live"
              /\ arr'[t] \in known /\ mem' = mem
<1> USE DEF TypeInv, ThreadType, ArrayType, Bare, Asking
<1>1. CASE Done(t)
  BY <1>1 DEF Done, Goto
<1>2. CASE Asks(t)
  BY <1>2, AskLocals DEF Asked
<1>3. CASE Chng(t)
  BY <1>1, <1>3, ChngStep DEF Changes
<1>4. CASE Reject(t) \/ RefuseRecovering(t) \/ Unlock(t) \/ Forget(t) \/ Save(t)
  BY <1>1, <1>4 DEF Reject, RefuseRecovering, Unlock, Forget, Save
<1>5. CASE \/ Number(t) \/ AddRecord(t) \/ BeginStore(t) \/ BeginRead(t) \/ BeginManage(t)
           \/ Store(t) \/ SaveStore(t) \/ EndRead(t) \/ Incr(t)
  BY <1>5 DEF Number, AddRecord, BeginStore, BeginRead, BeginManage, Accepted, Store,
              SaveStore, EndRead, Incr, At
<1>6. CASE Answer(t) \/ Check(t) \/ Resave(t) \/ Jettison(t) \/ Decr(t)
  BY <1>1, <1>6 DEF Answer, Check, Resave, Jettison, Decr, At
<1>7. CASE Release(t) \/ Drop(t) \/ Apply(t)
  BY <1>7 DEF Release, Drop, Apply, At
<1>8. CASE Insert(t)
  <2>1. PICK a \in Arrays : arr' = [arr EXCEPT ![t] = a] /\ mem' = [mem EXCEPT ![a] = "live"]
    BY <1>8 DEF Insert
  <2> QED BY <1>8, <2>1 DEF Insert, At, Goto
<1>9. CASE Decode(t)
  <2>1. PICK a \in known : arr' = [arr EXCEPT ![t] = a] /\ mem[a] = "live"
    BY <1>9 DEF Decode
  <2> QED BY <1>9, <2>1 DEF Decode, Goto
<1>10. CASE Undefined(t)
  <2>1. pc' = pc /\ arr' = arr /\ op' = op
    BY <1>10 DEF Undefined, locals
  <2>2. Running /\ pc[t] \notin Bare
    BY <1>10, <2>1 DEF Undefined
  <2> QED BY <2>1, <2>2
<1>11. CASE Truncate(t)
  BY <1>11, TruncateStep DEF Goto
<1>12. CASE Moves(t)
  BY <1>1, <1>12, MoveStep DEF Goto
<1> QED BY <1>2, <1>3, <1>4, <1>5, <1>6, <1>7, <1>8, <1>9, <1>10, <1>11, <1>12 DEF Serves, Moves

LEMMA HeldStep == ASSUME TypeInv, Phased, Held, Next PROVE Held'
<1>1. ASSUME NEW t \in Threads, Serves(t)
      PROVE  Held'
  <2> SUFFICES ASSUME NEW u \in Threads, pc'[u] \notin Bare
               PROVE  mem'[arr'[u]] # "none"
    BY DEF Held
  <2>1. \A a \in Arrays : mem[a] # "none" => mem'[a] # "none"
    BY <1>1, ServesMem
  <2>2. TypeInv'
    BY <1>1, TypeStep DEF Next
  <2>3. arr'[u] \in Arrays
    BY <2>2 DEF TypeInv, ThreadShape
  <2>4. CASE u # t
    <3>1. pc'[u] = pc[u] /\ arr'[u] = arr[u]
      BY <1>1, <2>4, ServesOthers
    <3> QED BY <2>1, <2>3, <3>1 DEF Held
  <2>5. CASE u = t
    <3>1. \/ pc[t] \notin Bare /\ arr'[t] = arr[t]
          \/ mem'[arr'[t]] = "live"
          \/ mem[arr'[t]] = "live"
      BY <1>1, <2>5, ServesHand
    <3> QED BY <2>1, <2>3, <2>5, <3>1 DEF Held
  <2> QED BY <2>4, <2>5
<1>2. CASE Crash
  BY <1>2 DEF Crash, Held, Bare, Asking
<1>3. CASE RestoreRecord
  <2>1. \A t \in Threads : pc'[t] = "idle"
    BY <1>3 DEF RestoreRecord, Phased, locals
  <2> QED BY <2>1 DEF Held, Bare, Asking
<1>4. CASE BeginRecovery \/ SkipRecord \/ EndRecovery \/ RecoverFinish \/ Tick \/ Waits
  <2>1. UNCHANGED <<pc, arr, mem>>
    BY <1>4 DEF BeginRecovery, SkipRecord, EndRecovery, RecoverFinish, Tick, Waits, vars,
                arrays, locals
  <2> QED BY <2>1 DEF Held
<1> QED BY <1>1, <1>2, <1>3, <1>4 DEF Next

-----------------------------------------------------------------------------
(* Freed arrays stay away                                                  *)

\* An array leaves the tree and its file goes in one step, and for good.
Gone ==
    /\ Tree \subseteq file
    /\ lost \cap file = {}
    /\ \A a \in Arrays : mem[a] \in {"dying", "freed"} => a \in lost

LEMMA GoneStep == ASSUME TypeInv, Gone, Next PROVE Gone'
<1> USE DEF Tree
<1>2. ASSUME NEW t \in Threads, Asks(t) \/ Chng(t) \/ Truncate(t)
      PROVE  Gone'
  <2>1. Sweeps
    BY <1>2, AskStep, ChngStep, TruncateStep
  <2>2. CASE UNCHANGED <<arrays, used, lss, lost>>
    BY <2>2 DEF arrays, Gone
  <2>3. CASE Shrunk(Unused)
    <3>1. \A a \in Arrays : mem'[a] = IF a \in Unused THEN "freed" ELSE mem[a]
      BY <2>3 DEF Shrunk, Erased
    <3>2. file' = file \ Unused /\ lost' = lost \cup Unused
      BY <2>3 DEF Shrunk
    <3> QED BY <3>1, <3>2 DEF Gone
  <2> QED BY <2>1, <2>2, <2>3 DEF Sweeps
<1>3. ASSUME NEW t \in Threads, Insert(t)
      PROVE  Gone'
  <2>1. PICK a \in Arrays : Fresh(a) /\ mem' = [mem EXCEPT ![a] = "live"] /\ file' = file \cup {a}
    BY <1>3 DEF Insert
  <2>2. lost' = lost
    BY <1>3 DEF Insert, seen
  <2> QED BY <2>1, <2>2 DEF Gone, Fresh, TypeInv, ArrayType
<1>4. ASSUME NEW t \in Threads, Jettison(t)
      PROVE  Gone'
  <2>1. arr[t] \in Arrays
    BY <1>4, Holding DEF Jettison, At, Bare, Asking
  <2>2. \/ UNCHANGED <<mem, file, lost>>
        \/ /\ mem' = [mem EXCEPT ![arr[t]] = "dying"] /\ file' = file \ {arr[t]}
           /\ lost' = lost \cup {arr[t]}
    BY <1>4 DEF Jettison, FilesWithout
  <2> QED BY <2>1, <2>2 DEF Gone, TypeInv, ArrayType
<1>5. ASSUME NEW t \in Threads, Forget(t)
      PROVE  Gone'
  <2>1. \A a \in Arrays : mem'[a] = IF a = arr[t] THEN "freed" ELSE mem[a]
    BY <1>5 DEF Forget, Erased
  <2>2. mem[arr[t]] = "dying" /\ file' = file /\ lost' = lost
    BY <1>5 DEF Forget, seen
  <2> QED BY <2>1, <2>2 DEF Gone
<1>6. ASSUME UNCHANGED <<mem, file, lost>>
      PROVE  Gone'
  BY <1>6 DEF Gone
<1>7. ASSUME NEW t \in Threads,
             Serves(t), ~Asks(t), ~Chng(t), ~Truncate(t), ~Insert(t), ~Jettison(t), ~Forget(t)
      PROVE  Gone'
  <2>1. UNCHANGED <<mem, file, lost>>
    BY <1>7, MoveStep
       DEF Serves, Moves, Answer, Number, AddRecord, Decode, Reject, RefuseRecovering, BeginStore,
                BeginRead, BeginManage, Store, SaveStore, EndRead, Release, Drop, Check,
                Unlock, Resave, Incr, Decr, Apply, Save, Undefined, arrays, seen
  <2> QED BY <1>6, <2>1
<1>8. CASE Crash
  BY <1>8 DEF Crash, Gone
<1>9. CASE RestoreRecord
  <2> DEFINE a == Head(old).key
  <2>1. a \in file /\ mem' = [mem EXCEPT ![a] = "live"] /\ file' = file /\ lost' = lost
    BY <1>9 DEF RestoreRecord, Restorable, seen
  <2> HIDE DEF a
  <2> QED BY <2>1 DEF Gone, TypeInv, ArrayType
<1>10. CASE BeginRecovery \/ SkipRecord \/ EndRecovery \/ RecoverFinish \/ Tick \/ Waits
  <2>1. UNCHANGED <<mem, file, lost>>
    BY <1>10 DEF BeginRecovery, SkipRecord, EndRecovery, RecoverFinish, Tick, Waits, vars,
                arrays, seen
  <2> QED BY <1>6, <2>1
<1> QED BY <1>2, <1>3, <1>4, <1>5, <1>7, <1>8, <1>9, <1>10 DEF Next

-----------------------------------------------------------------------------
(* The flag that writers poll                                              *)

\* The request that has set the flag of an array, until it clears it.
Owns(t) ==
    op[t] = "store" /\ pc[t] \in {"write", "wrote", "release", "drop", "check", "unlock"}

OneStore ==
    /\ \A t \in Threads : pc[t] \in {"write", "wrote", "unlock"} => op[t] = "store"
    /\ \A t \in Threads : pc[t] = "read" => op[t] # "store"
    /\ \A t \in Threads : Owns(t) => wl[arr[t]] \/ mem[arr[t]] = "freed"
    /\ \A t, u \in Threads : Owns(t) /\ Owns(u) /\ arr[t] = arr[u] => t = u
    /\ \A a \in Arrays : mem[a] \in {"none", "freed"} => ~wl[a]

LEMMA ServesFlag ==
    ASSUME TypeInv, NEW t \in Threads, Serves(t), NEW a \in Arrays
    PROVE  \/ wl'[a] = wl[a]
           \/ BeginStore(t) /\ a = arr[t] /\ ~wl[a] /\ wl'[a] /\ mem'[a] \in {"live", "dying"}
           \/ Unlock(t) /\ a = arr[t] /\ ~wl'[a]
           \/ mem'[a] = "freed" /\ ~wl'[a]
<1> USE DEF TypeInv, ArrayType
<1>1. CASE Asks(t) \/ Chng(t) \/ Truncate(t)
  <2>1. Sweeps
    BY <1>1, AskStep, ChngStep, TruncateStep
  <2>2. CASE UNCHANGED <<arrays, used, lss, lost>>
    BY <2>2 DEF arrays, fields
  <2>3. CASE Shrunk(Unused)
    <3>1. /\ mem'[a] = IF a \in Unused THEN "freed" ELSE mem[a]
          /\ wl'[a] = (wl[a] /\ a \notin Unused)
      BY <2>3 DEF Shrunk, Erased
    <3>2. wl[a] \in BOOLEAN
      OBVIOUS
    <3> QED BY <3>1, <3>2
  <2> QED BY <2>1, <2>2, <2>3 DEF Sweeps
<1>2. CASE BeginStore(t)
  <2>1. arr[t] \in Arrays /\ mem' = mem /\ ~wl[arr[t]] /\ mem[arr[t]] \in {"live", "dying"}
        /\ wl' = [wl EXCEPT ![arr[t]] = TRUE]
    BY <1>2, Holding DEF BeginStore, Accepted, At, Usable, Free, Bare, Asking
  <2>2. CASE a = arr[t]
    BY <1>2, <2>1, <2>2
  <2>3. CASE a # arr[t]
    BY <2>1, <2>3
  <2> QED BY <2>2, <2>3
<1>3. CASE Unlock(t)
  <2>1. arr[t] \in Arrays /\ wl' = [wl EXCEPT ![arr[t]] = FALSE]
    BY <1>3, Holding DEF Unlock, At, Bare, Asking
  <2>2. CASE a = arr[t]
    BY <1>3, <2>1, <2>2
  <2>3. CASE a # arr[t]
    BY <2>1, <2>3
  <2> QED BY <2>2, <2>3
<1>4. CASE Forget(t)
  <2>1. /\ mem'[a] = IF a \in {arr[t]} THEN "freed" ELSE mem[a]
        /\ wl'[a] = (wl[a] /\ a \notin {arr[t]})
    BY <1>4 DEF Forget, Erased
  <2>2. wl[a] \in BOOLEAN
    OBVIOUS
  <2> QED BY <2>1, <2>2
<1>5. CASE \/ Insert(t) \/ Answer(t) \/ Number(t) \/ AddRecord(t) \/ Decode(t) \/ Reject(t)
           \/ RefuseRecovering(t) \/ BeginRead(t) \/ BeginManage(t) \/ Store(t)
           \/ SaveStore(t) \/ EndRead(t) \/ Release(t) \/ Drop(t) \/ Check(t) \/ Resave(t)
           \/ Jettison(t) \/ Incr(t) \/ Decr(t) \/ Apply(t) \/ Save(t) \/ Moves(t)
           \/ Undefined(t)
  <2>1. wl' = wl
    BY <1>5, MoveStep
       DEF Insert, Answer, Number, AddRecord, Decode, Reject, RefuseRecovering,
                BeginRead, BeginManage, Store, SaveStore, EndRead, Release, Drop, Check,
                Resave, Jettison, Incr, Decr, Apply, Save, Undefined, arrays, fields
  <2> QED BY <2>1
<1> QED BY <1>1, <1>2, <1>3, <1>4, <1>5 DEF Serves, Moves

\* How a store comes to own the flag, and how it ceases to.
LEMMA ServesOwner ==
    ASSUME TypeInv, OneStore, NEW t \in Threads, Serves(t)
    PROVE  /\ pc'[t] \in {"write", "wrote", "unlock"} => op'[t] = "store"
           /\ pc'[t] = "read" => op'[t] # "store"
           /\ Owns(t)' => arr'[t] = arr[t] /\ (Owns(t) \/ BeginStore(t)) /\ ~Unlock(t)
           /\ Owns(t) => \/ Owns(t)' /\ arr'[t] = arr[t]
                         \/ Unlock(t)
                         \/ Check(t) /\ deleted[arr[t]]
           /\ BeginStore(t) => Owns(t)'
<1> USE DEF TypeInv, ThreadType, Owns
<1>1. ASSUME Done(t), ~Owns(t)
      PROVE  ~Owns(t)' /\ pc'[t] = "idle"
  BY <1>1 DEF Done, Goto
<1>2. CASE Asks(t)
  <2>1. pc[t] \in {"idle", "again", "last"}
    BY <1>2, AskStep
  <2>2. pc'[t] \in {"grant", "full", "need", "let", "deny"}
    BY <1>2, AskLocals DEF Asked
  <2>3. ~BeginStore(t)
    BY <2>1 DEF BeginStore, Accepted, At
  <2> QED BY <2>1, <2>2, <2>3
<1>3. CASE Chng(t)
  <2>1. pc[t] = "manage" /\ (Done(t) \/ \E n \in NewSizes : Changes(t, n))
    BY <1>3, ChngStep
  <2>2. pc'[t] \in {"idle", "apply"}
    BY <2>1 DEF Changes, Done, Goto
  <2>3. ~BeginStore(t)
    BY <2>1 DEF BeginStore, Accepted, At
  <2> QED BY <2>1, <2>2, <2>3
<1>4. CASE Unlock(t)
  <2>1. pc[t] = "unlock" /\ pc'[t] = "idle"
    BY <1>4 DEF Unlock, At, Done, Goto
  <2>2. ~BeginStore(t)
    BY <2>1 DEF BeginStore, Accepted, At
  <2> QED BY <1>4, <2>1, <2>2
<1>5. CASE Check(t)
  <2>1. /\ pc[t] = "check" /\ ~BeginStore(t) /\ ~Unlock(t)
        /\ \/ deleted[arr[t]] /\ Goto(t, "resave") /\ UNCHANGED <<op, arr>>
           \/ op[t] = "store" /\ Goto(t, "unlock") /\ UNCHANGED <<op, arr>>
           \/ op[t] # "store" /\ Done(t)
    BY <1>5 DEF Check, At, Clears, BeginStore, Accepted, Unlock
  <2> QED BY <1>5, <2>1 DEF Goto, Done
<1>6. CASE BeginStore(t)
  <2>1. pc[t] = "decoded" /\ op[t] = "store" /\ pc'[t] = "write" /\ op' = op /\ arr' = arr
    BY <1>6 DEF BeginStore, Accepted, At, Goto
  <2>2. ~Unlock(t)
    BY <2>1 DEF Unlock, At
  <2> QED BY <1>6, <2>1, <2>2
<1>7. CASE Store(t) \/ SaveStore(t) \/ Release(t) \/ Drop(t)
  <2>1. /\ pc[t] \in {"write", "wrote", "release", "drop"} /\ op' = op /\ arr' = arr
        /\ pc'[t] \in {"wrote", "release", "drop", "check"} \/ (op[t] # "store" /\ pc'[t] = "manage")
        /\ pc'[t] = "wrote" => pc[t] = "write"
    BY <1>7 DEF Store, SaveStore, Release, Drop, Goto, At, Manages
  <2>2. ~Unlock(t) /\ ~BeginStore(t)
    BY <2>1 DEF Unlock, BeginStore, Accepted, At
  <2>3. pc[t] = "write" => op[t] = "store"
    BY DEF OneStore
  <2> QED BY <2>1, <2>2, <2>3
<1>8. CASE \/ Insert(t) \/ Answer(t) \/ Number(t) \/ AddRecord(t) \/ Decode(t)
           \/ Reject(t) \/ RefuseRecovering(t) \/ Resave(t) \/ Jettison(t) \/ Forget(t)
           \/ Incr(t) \/ Decr(t) \/ Apply(t) \/ Save(t)
  <2>1. /\ pc[t] \in {"grant", "answer", "number", "record", "truncate", "idle", "decoded",
                      "resave", "jettison", "forget", "manage", "apply", "save"}
        /\ pc'[t] \in {"answer", "number", "record", "truncate", "idle", "decoded", "jettison",
                       "forget", "save", "resave"}
        /\ ~BeginStore(t)
    BY <1>8 DEF Insert, Answer, Number, AddRecord, Decode, Reject, RefuseRecovering,
                Resave, Jettison, Forget, Incr, Decr, Apply, Save, Done, Goto, At, BeginStore,
                Accepted
  <2> QED BY <2>1
<1>9. CASE BeginRead(t) \/ BeginManage(t) \/ EndRead(t)
  <2>1. /\ pc[t] \in {"decoded", "read"} /\ pc'[t] \in {"read", "release"} /\ op' = op /\ arr' = arr
        /\ pc[t] = "decoded" => op[t] # "store"
    BY <1>9 DEF BeginRead, BeginManage, EndRead, Accepted, Manages, At, Goto
  <2>2. ~Unlock(t) /\ (BeginStore(t) => op[t] = "store" /\ pc[t] = "decoded")
    BY <2>1 DEF Unlock, BeginStore, Accepted, At
  <2>3. op[t] # "store"
    BY <2>1 DEF OneStore
  <2> QED BY <2>1, <2>2, <2>3
<1>10. CASE Undefined(t)
  <2>1. pc' = pc /\ op' = op /\ arr' = arr
    BY <1>10 DEF Undefined, locals
  <2>2. ~BeginStore(t) /\ ~Unlock(t)
    BY <2>1 DEF BeginStore, Unlock, Accepted, At, Goto, Done
  <2> QED BY <2>1, <2>2 DEF OneStore
<1>11. CASE Truncate(t) \/ Moves(t)
  <2>1. pc[t] \in Asking \cup {"truncate", "leave"}
    BY <1>11, TruncateStep, MoveStep
  <2>2. pc'[t] \in Asking \cup {"idle", "grant", "leave"}
    BY <1>11, TruncateStep, MoveStep DEF Done, Goto
  <2>3. ~BeginStore(t)
    BY <2>1 DEF BeginStore, Accepted, At, Asking
  <2> QED BY <2>1, <2>2, <2>3 DEF Asking
<1> QED BY <1>2, <1>3, <1>4, <1>5, <1>6, <1>7, <1>8, <1>9, <1>10, <1>11 DEF Serves, Moves

LEMMA OneStoreStep == ASSUME TypeInv, Phased, OneStore, Next PROVE OneStore'
<1>0. TypeInv'
  BY TypeStep
<1>1. ASSUME NEW t \in Threads, Serves(t)
      PROVE  OneStore'
  <2>1. ASSUME NEW u \in Threads
        PROVE  /\ pc'[u] \in {"write", "wrote", "unlock"} => op'[u] = "store"
               /\ pc'[u] = "read" => op'[u] # "store"
               /\ Owns(u)' => /\ arr'[u] = arr[u] /\ arr[u] \in Arrays
                              /\ Owns(u) \/ (u = t /\ BeginStore(t))
                              /\ ~(u = t /\ Unlock(t))
    <3>1. CASE u = t
      <4>1. Owns(t)' => arr'[t] \in Arrays
        BY <1>0 DEF Owns, TypeInv, ThreadShape
      <4> QED BY <1>1, <3>1, <4>1, ServesOwner
    <3>2. CASE u # t
      <4>1. pc'[u] = pc[u] /\ op'[u] = op[u] /\ arr'[u] = arr[u]
        BY <1>1, <3>2, ServesOthers
      <4>2. Owns(u) => arr[u] \in Arrays
        BY DEF Owns, TypeInv, ThreadShape
      <4> QED BY <3>2, <4>1, <4>2 DEF OneStore, Owns
    <3> QED BY <3>1, <3>2
  <2>2. ASSUME NEW u \in Threads, Owns(u), BeginStore(t)
        PROVE  arr[u] # arr[t]
    BY <2>2, Holding DEF BeginStore, Accepted, At, Usable, Free, OneStore
  <2>3. ASSUME NEW u \in Threads, NEW v \in Threads, Owns(u)', Owns(v)', arr'[u] = arr'[v]
        PROVE  u = v
    <3>1. arr[u] = arr[v]
      BY <2>1, <2>3
    <3>2. CASE Owns(u) /\ Owns(v)
      BY <3>1, <3>2 DEF OneStore
    <3>3. CASE ~Owns(u) \/ ~Owns(v)
      BY <2>1, <2>2, <2>3, <3>1, <3>3
    <3> QED BY <3>2, <3>3
  <2>4. ASSUME NEW a \in Arrays
        PROVE  mem[a] = "freed" => mem'[a] = "freed"
    BY <1>1, ServesMem
  <2>5. ASSUME NEW u \in Threads, Owns(u)'
        PROVE  wl'[arr'[u]] \/ mem'[arr'[u]] = "freed"
    <3> DEFINE a == arr[u]
    <3>1. arr'[u] = a /\ a \in Arrays
      BY <2>1, <2>5
    <3>2. CASE Owns(u)
      <4>1. wl[a] \/ mem[a] = "freed"
        BY <3>2 DEF OneStore
      <4>2. ~(Unlock(t) /\ a = arr[t])
        <5>1. Unlock(t) => Owns(t)
          BY DEF Unlock, At, Owns, OneStore
        <5>2. u = t => ~Unlock(t)
          BY <2>1, <2>5
        <5> QED BY <3>2, <5>1, <5>2 DEF OneStore
      <4>3. wl'[a] = wl[a] \/ wl'[a] \/ mem'[a] = "freed"
        BY <1>1, <3>1, <4>2, ServesFlag
      <4> QED BY <2>4, <3>1, <4>1, <4>3
    <3>3. CASE u = t /\ BeginStore(t)
      <4>1. wl' = [wl EXCEPT ![a] = TRUE]
        BY <3>3 DEF BeginStore
      <4> QED BY <3>1, <4>1 DEF TypeInv, ArrayType
    <3> QED BY <2>1, <2>5, <3>2, <3>3
  <2>6. ASSUME NEW a \in Arrays, mem'[a] \in {"none", "freed"}
        PROVE  ~wl'[a]
    <3>1. mem[a] \in {"none", "freed"} \/ mem'[a] # mem[a]
      BY <2>6
    <3>2. CASE mem[a] \in {"none", "freed"}
      BY <1>1, <2>6, <3>2, ServesFlag DEF OneStore
    <3>3. CASE mem[a] \notin {"none", "freed"}
      <4>1. \/ a \in Unused /\ Shrunk(Unused)
            \/ Forget(t) /\ arr[t] = a
        BY <1>1, <2>6, <3>3, ServesMem
      <4> QED BY <4>1 DEF Shrunk, Forget, Erased
    <3> QED BY <3>2, <3>3
  <2>7. /\ \A u \in Threads : pc'[u] \in {"write", "wrote", "unlock"} => op'[u] = "store"
        /\ \A u \in Threads : pc'[u] = "read" => op'[u] # "store"
    BY <2>1
  <2> QED BY <2>3, <2>5, <2>6, <2>7 DEF OneStore
<1>2. ASSUME \A t \in Threads : pc'[t] = "idle",
             \A a \in Arrays : mem'[a] \in {"none", "freed"} => ~wl'[a]
      PROVE  OneStore'
  BY <1>2 DEF OneStore, Owns
<1>3. CASE Crash
  BY <1>2, <1>3 DEF Crash
<1>4. CASE RestoreRecord
  <2> DEFINE b == Head(old).key
  <2>1. pc' = pc /\ wl' = wl /\ mem' = [mem EXCEPT ![b] = "live"]
    BY <1>4 DEF RestoreRecord, locals
  <2>2. \A t \in Threads : pc'[t] = "idle"
    BY <1>4, <2>1 DEF RestoreRecord, Phased
  <2> HIDE DEF b
  <2>3. \A a \in Arrays : mem'[a] \in {"none", "freed"} => ~wl'[a]
    BY <2>1 DEF OneStore, TypeInv, ArrayType
  <2> QED BY <1>2, <2>2, <2>3
<1>5. CASE BeginRecovery \/ SkipRecord \/ EndRecovery \/ RecoverFinish \/ Tick \/ Waits
  <2>1. UNCHANGED <<pc, op, arr, mem, wl>>
    BY <1>5 DEF BeginRecovery, SkipRecord, EndRecovery, RecoverFinish, Tick, Waits, vars,
                arrays, fields, locals
  <2> QED BY <2>1 DEF OneStore, Owns
<1> QED BY <1>1, <1>3, <1>4, <1>5 DEF Next

\* Who waits for the flag of an array waits for somebody.
LEMMA FlagStep ==
    ASSUME TypeInv, Phased, OneStore, Next,
           \A a \in Tree : wl[a] => deleted[a] \/ \E t \in Threads : arr[t] = a /\ Owns(t)
    PROVE  \A a \in Tree' : wl'[a] => deleted'[a] \/ \E t \in Threads : arr'[t] = a /\ Owns(t)'
<1> SUFFICES ASSUME NEW a \in Arrays, mem'[a] = "live", wl'[a]
             PROVE  deleted'[a] \/ \E t \in Threads : arr'[t] = a /\ Owns(t)'
  BY DEF Tree
<1>1. ASSUME NEW t \in Threads, Serves(t)
      PROVE  deleted'[a] \/ \E u \in Threads : arr'[u] = a /\ Owns(u)'
  <2>1. wl[a] \/ (BeginStore(t) /\ a = arr[t])
    BY <1>1, ServesFlag
  <2>2. CASE BeginStore(t) /\ a = arr[t]
    <3>1. Owns(t)' /\ arr'[t] = a
      BY <1>1, <2>2, ServesOwner
    <3> QED BY <3>1
  <2>3. CASE wl[a]
    <3>1. mem[a] = "live"
      <4>1. mem[a] = "live" \/ mem[a] = "none"
        BY <1>1, ServesMem
      <4> QED BY <2>3, <4>1 DEF OneStore
    <3>2. deleted[a] \/ \E u \in Threads : arr[u] = a /\ Owns(u)
      BY <2>3, <3>1 DEF Tree
    <3>3. deleted[a] => deleted'[a]
      <4>1. deleted[a] \in BOOLEAN
        BY DEF TypeInv, ArrayType
      <4>2. CASE Asks(t) \/ Chng(t) \/ Truncate(t)
        <5>1. Sweeps
          BY <4>2, AskStep, ChngStep, TruncateStep
        <5>2. CASE UNCHANGED <<arrays, used, lss, lost>>
          BY <5>2 DEF arrays, fields
        <5>3. CASE Shrunk(Unused)
          <6>1. mem'[a] = IF a \in Unused THEN "freed" ELSE mem[a]
            BY <5>3 DEF Shrunk, Erased
          <6>2. deleted'[a] = (a \notin Unused /\ (deleted[a] \/ a \in Expired))
            BY <5>3 DEF Shrunk
          <6> QED BY <4>1, <6>1, <6>2
        <5> QED BY <5>1, <5>2, <5>3 DEF Sweeps
      <4>3. CASE Jettison(t)
        <5>1. arr[t] \in Arrays /\ deleted' = [deleted EXCEPT ![arr[t]] = TRUE]
          BY <4>3, Holding DEF Jettison, At, Bare, Asking
        <5> QED BY <4>1, <5>1 DEF TypeInv, ArrayType
      <4>4. CASE Decr(t)
        <5>1. \/ deleted' = deleted
              \/ deleted' = [deleted EXCEPT ![arr[t]] = deleted[arr[t]] \/ refs[arr[t]] = 1]
          BY <4>4 DEF Decr
        <5> QED BY <4>1, <5>1 DEF TypeInv, ArrayType
      <4>5. CASE Forget(t)
        <5>1. mem[arr[t]] = "dying" /\ deleted' = [deleted EXCEPT ![arr[t]] = FALSE]
          BY <4>5 DEF Forget
        <5>2. arr[t] # a
          BY <3>1, <5>1
        <5> QED BY <4>1, <5>1, <5>2 DEF TypeInv, ArrayType
      <4>6. CASE ~(Asks(t) \/ Chng(t) \/ Truncate(t) \/ Jettison(t) \/ Decr(t) \/ Forget(t))
        <5>1. deleted' = deleted
          BY <1>1, <4>6, MoveStep
             DEF Serves, Moves, Insert, Answer, Number, AddRecord, Decode, Reject, RefuseRecovering,
                 BeginStore, BeginRead, BeginManage, Store, SaveStore, EndRead, Release, Drop,
                 Check, Unlock, Resave, Incr, Apply, Save, Undefined, arrays, fields
        <5> QED BY <5>1
      <4> QED BY <4>2, <4>3, <4>4, <4>5, <4>6
    <3>4. ASSUME NEW u \in Threads, arr[u] = a, Owns(u), ~deleted[a]
          PROVE  arr'[u] = a /\ Owns(u)'
      <4>1. CASE u # t
        BY <1>1, <3>4, <4>1, ServesOthers DEF Owns
      <4>2. CASE u = t
        <5>1. ~Unlock(t)
          BY <3>4, <4>2 DEF Unlock, TypeInv, ArrayType
        <5> QED BY <1>1, <3>4, <4>2, <5>1, ServesOwner
      <4> QED BY <4>1, <4>2
    <3> QED BY <3>2, <3>3, <3>4
  <2> QED BY <2>1, <2>2, <2>3
<1>2. CASE Crash
  BY <1>2 DEF Crash
<1>3. CASE RestoreRecord
  <2> DEFINE b == Head(old).key
  <2>1. pc' = pc /\ wl' = wl /\ mem' = [mem EXCEPT ![b] = "live"] /\ arr' = arr /\ op' = op
        /\ deleted' = deleted
    BY <1>3 DEF RestoreRecord, locals
  <2>2. \A t \in Threads : ~Owns(t)
    BY <1>3 DEF RestoreRecord, Phased, Owns
  <2>3. mem[a] # "live"
    BY <2>1, <2>2, <1>3 DEF Tree, RestoreRecord, Phased
  <2> HIDE DEF b
  <2>4. mem[a] \in {"none", "live"} /\ wl[a]
    BY <1>3, <2>1 DEF RestoreRecord, Phased
  <2> QED BY <2>1, <2>3, <2>4 DEF OneStore
<1>5. CASE BeginRecovery \/ SkipRecord \/ EndRecovery \/ RecoverFinish \/ Tick \/ Waits
  <2>1. UNCHANGED <<pc, op, arr, mem, wl, deleted>>
    BY <1>5 DEF BeginRecovery, SkipRecord, EndRecovery, RecoverFinish, Tick, Waits, vars,
                arrays, fields, locals
  <2> QED BY <2>1 DEF Owns, Tree
<1> QED BY <1>1, <1>2, <1>3, <1>5 DEF Next

-----------------------------------------------------------------------------
(* One record for an array                                                 *)

Keys(s) == {s[i].key : i \in DOMAIN s}
Distinct(s) == \A i, j \in DOMAIN s : s[i].key = s[j].key => i = j

\* A thread that has an array to write the first record of.
Recording(t) == pc[t] \in {"answer", "number", "record"}

\* No array has two records, in the file or in what is left of the old one, and
\* what is in the tree has none in the old one: it is not restored twice.
RecordedOnce ==
    /\ Distinct(lss) /\ Distinct(old)
    /\ Keys(lss) \cap Keys(old) = {}
    /\ Keys(lss) \cup Keys(old) \subseteq file \cup lost
    /\ Tree \cap Keys(old) = {}
    /\ \A t \in Threads : Recording(t) => arr[t] \notin Keys(lss)
    /\ \A t, u \in Threads : Recording(t) /\ Recording(u) /\ arr[t] = arr[u] => t = u

LEMMA AppendKeys ==
    ASSUME NEW s \in Seq(Records), NEW r \in Records
    PROVE  /\ Keys(Append(s, r)) = Keys(s) \cup {r.key}
           /\ Distinct(s) /\ r.key \notin Keys(s) => Distinct(Append(s, r))
<1> DEFINE q == Append(s, r)
           n == Len(s)
<1>1. /\ n \in Nat /\ DOMAIN s = 1 .. n /\ DOMAIN q = 1 .. n + 1 /\ q[n + 1] = r
      /\ \A i \in 1 .. n : q[i] = s[i]
  OBVIOUS
<1> HIDE DEF q, n
<1>2. ASSUME NEW k
      PROVE  k \in Keys(q) <=> k \in Keys(s) \cup {r.key}
  <2>1. ASSUME NEW i \in 1 .. n + 1
        PROVE  q[i].key \in Keys(s) \cup {r.key}
    <3>1. i \in 1 .. n \/ i = n + 1
      BY <1>1
    <3> QED BY <1>1, <3>1 DEF Keys
  <2>2. r.key \in Keys(q)
    BY <1>1 DEF Keys
  <2>3. ASSUME NEW i \in 1 .. n
        PROVE  s[i].key \in Keys(q)
    <3>1. i \in 1 .. n + 1 /\ q[i] = s[i]
      BY <1>1
    <3> QED BY <1>1, <3>1 DEF Keys
  <2> QED BY <1>1, <2>1, <2>2, <2>3 DEF Keys
<1>3. ASSUME Distinct(s), r.key \notin Keys(s)
      PROVE  Distinct(q)
  <2> SUFFICES ASSUME NEW i \in 1 .. n + 1, NEW j \in 1 .. n + 1, q[i].key = q[j].key
               PROVE  i = j
    BY <1>1 DEF Distinct
  <2>1. (i \in 1 .. n \/ i = n + 1) /\ (j \in 1 .. n \/ j = n + 1)
    BY <1>1
  <2>2. \A k \in 1 .. n : q[k].key # r.key
    BY <1>1, <1>3 DEF Keys
  <2> QED BY <1>1, <1>3, <2>1, <2>2 DEF Distinct
<1> QED BY <1>2, <1>3 DEF q

LEMMA TailKeys ==
    ASSUME NEW s \in Seq(Records), s # << >>
    PROVE  /\ Head(s) \in Records /\ Head(s).key \in Keys(s)
           /\ Keys(Tail(s)) \subseteq Keys(s)
           /\ Distinct(s) => Distinct(Tail(s)) /\ Head(s).key \notin Keys(Tail(s))
           /\ \A i \in DOMAIN s : s[i] = Head(s) \/ \E j \in DOMAIN Tail(s) : s[i] = Tail(s)[j]
<1> DEFINE q == Tail(s)
           n == Len(s)
<1>1. /\ n \in Nat /\ n > 0 /\ DOMAIN s = 1 .. n /\ DOMAIN q = 1 .. n - 1 /\ Head(s) = s[1]
      /\ \A i \in 1 .. n - 1 : q[i] = s[i + 1]
      /\ Head(s) \in Records
  OBVIOUS
<1> HIDE DEF q, n
<1>2. Head(s).key \in Keys(s)
  BY <1>1 DEF Keys
<1>3. ASSUME NEW i \in 1 .. n - 1
      PROVE  i + 1 \in 1 .. n /\ q[i] = s[i + 1]
  BY <1>1
<1>4. Keys(q) \subseteq Keys(s)
  BY <1>1, <1>3 DEF Keys
<1>5. ASSUME Distinct(s)
      PROVE  Distinct(q) /\ Head(s).key \notin Keys(q)
  <2>1. Distinct(q)
    BY <1>1, <1>3, <1>5 DEF Distinct
  <2>2. ASSUME NEW i \in 1 .. n - 1
        PROVE  q[i].key # Head(s).key
    <3>1. i + 1 \in 1 .. n /\ i + 1 # 1 /\ 1 \in 1 .. n
      BY <1>1
    <3> QED BY <1>1, <1>3, <1>5, <3>1 DEF Distinct
  <2> QED BY <1>1, <2>1, <2>2 DEF Keys
<1>6. ASSUME NEW i \in 1 .. n
      PROVE  s[i] = Head(s) \/ \E j \in 1 .. n - 1 : s[i] = q[j]
  <2>1. CASE i = 1
    BY <1>1, <2>1
  <2>2. CASE i # 1
    <3>1. i - 1 \in 1 .. n - 1 /\ (i - 1) + 1 = i
      BY <1>1, <2>2
    <3> QED BY <1>3, <3>1
  <2> QED BY <2>1, <2>2
<1> QED BY <1>1, <1>2, <1>4, <1>5, <1>6 DEF q

\* What a thread does to the records: their arrays stay as they are, but for a
\* new record at the end.
LEMMA ServesKeys ==
    ASSUME TypeInv, NEW t \in Threads, Serves(t)
    PROVE  /\ \/ DOMAIN lss' = DOMAIN lss /\ \A i \in DOMAIN lss : lss'[i].key = lss[i].key
              \/ AddRecord(t) /\ lss' = Append(lss, Record(arr[t]))
           /\ file \cup lost \subseteq file' \cup lost'
<1> USE DEF TypeInv
<1>1. CASE Asks(t) \/ Chng(t) \/ Truncate(t)
  <2>1. Sweeps
    BY <1>1, AskStep, ChngStep, TruncateStep
  <2>2. CASE UNCHANGED <<arrays, used, lss, lost>>
    BY <2>2 DEF arrays
  <2>3. CASE Shrunk(Unused)
    <3>1. lss' = Invalidated(Unused) /\ file' = file \ Unused /\ lost' = lost \cup Unused
      BY <2>3 DEF Shrunk
    <3> QED BY <3>1, InvalidatedType
  <2> QED BY <2>1, <2>2, <2>3 DEF Sweeps
<1>2. CASE SaveStore(t) \/ Resave(t) \/ Save(t)
  <2>1. arr[t] \in Arrays /\ ~NoRecord(arr[t]) /\ lss' = Rewritten(arr[t])
    BY <1>2, Holding DEF SaveStore, Resave, Save, At, Bare, Asking
  <2>2. file' = file /\ lost' = lost
    BY <1>2 DEF SaveStore, Resave, Save, arrays, seen
  <2> QED BY <2>1, <2>2, RewrittenType
<1>3. CASE Forget(t)
  <2>1. lss' = Invalidated({arr[t]}) /\ file' = file /\ lost' = lost
    BY <1>3 DEF Forget, seen
  <2> QED BY <2>1, InvalidatedType
<1>4. CASE AddRecord(t)
  BY <1>4 DEF AddRecord, arrays, seen
<1>5. CASE \/ Insert(t) \/ Answer(t) \/ Number(t) \/ Decode(t) \/ Reject(t)
           \/ RefuseRecovering(t) \/ BeginStore(t) \/ BeginRead(t) \/ BeginManage(t)
           \/ Store(t) \/ EndRead(t) \/ Release(t) \/ Drop(t) \/ Check(t) \/ Unlock(t)
           \/ Jettison(t) \/ Incr(t) \/ Decr(t) \/ Apply(t) \/ Moves(t) \/ Undefined(t)
  <2>1. lss' = lss
    BY <1>5, MoveStep
       DEF Insert, Answer, Number, Decode, Reject, RefuseRecovering, BeginStore,
                BeginRead, BeginManage, Store, EndRead, Release, Drop, Check, Unlock, Jettison,
                Incr, Decr, Apply, Undefined, files
  <2>2. file \cup lost \subseteq file' \cup lost'
    BY <1>5, MoveStep
       DEF Insert, Answer, Number, Decode, Reject, RefuseRecovering, BeginStore,
                BeginRead, BeginManage, Store, EndRead, Release, Drop, Check, Unlock, Jettison,
                Incr, Decr, Apply, Undefined, arrays, seen, FilesWithout
  <2> QED BY <2>1, <2>2
<1> QED BY <1>1, <1>2, <1>3, <1>4, <1>5 DEF Serves, Moves

\* A thread has a first record to write since it made the array.
LEMMA ServesRecording ==
    ASSUME TypeInv, NEW t \in Threads, Serves(t), Recording(t)'
    PROVE  \/ Recording(t) /\ arr'[t] = arr[t] /\ ~AddRecord(t)
           \/ Insert(t) /\ Fresh(arr'[t]) /\ arr'[t] \in Arrays /\ lss' = lss
<1>1. /\ pc'[t] \in {"answer", "number", "record"} /\ ~AddRecord(t)
      /\ pc[t] \in {"answer", "number", "record"} \/ Insert(t)
  <2> USE DEF TypeInv, ThreadType, Recording
  <2>1. CASE Asks(t) \/ Chng(t) \/ Truncate(t)
    BY <2>1, AskLocals, ChngStep, TruncateStep DEF Asked, Changes, Done, Goto
  <2>2. CASE Undefined(t)
    BY <2>2 DEF Undefined, locals, AddRecord, Goto, At
  <2>3. CASE Moves(t)
    BY <2>3, MoveStep DEF Asking, Done, Goto
  <2>4. CASE ~(Asks(t) \/ Chng(t) \/ Truncate(t) \/ Undefined(t) \/ Moves(t))
    BY <2>4 DEF Serves, Moves, Insert, Answer, Number, AddRecord, Decode, Reject, RefuseRecovering,
                BeginStore, BeginRead, BeginManage, Store, SaveStore, EndRead, Release, Drop,
                Check, Unlock, Resave, Jettison, Forget, Incr, Decr, Apply, Save, Done, Goto, At
  <2> QED BY <2>1, <2>2, <2>3, <2>4
<1>2. CASE pc[t] \in {"answer", "number", "record"}
  <2>1. arr'[t] = arr[t]
    BY <1>1, <1>2, ServesHand DEF Bare, Asking
  <2> QED BY <1>1, <1>2, <2>1 DEF Recording
<1>3. CASE Insert(t)
  <2>1. PICK a \in Arrays : Fresh(a) /\ arr' = [arr EXCEPT ![t] = a]
    BY <1>3 DEF Insert
  <2>2. arr'[t] = a
    BY <2>1 DEF TypeInv, ThreadType
  <2> QED BY <1>3, <2>1, <2>2 DEF Insert, files
<1> QED BY <1>1, <1>2, <1>3

LEMMA NoKeys == Keys(<< >>) = {} /\ Distinct(<< >>)
<1>1. DOMAIN << >> = {}
  <2>1. Len(<< >>) = 0 /\ << >> \in Seq({}) /\ 1 .. 0 = {}
    OBVIOUS
  <2> QED BY <2>1
<1> QED BY <1>1 DEF Keys, Distinct

LEMMA SameKeys ==
    ASSUME NEW s, NEW q, DOMAIN q = DOMAIN s, \A i \in DOMAIN s : q[i].key = s[i].key
    PROVE  Keys(q) = Keys(s) /\ (Distinct(s) => Distinct(q))
BY DEF Keys, Distinct

LEMMA RecordedOnceStep ==
    ASSUME TypeInv, Phased, Held, Gone, RecordedOnce, Next
    PROVE  RecordedOnce'
<1>1. ASSUME NEW t \in Threads, Serves(t)
      PROVE  RecordedOnce'
  <2>1. Distinct(old)' /\ Keys(old)' = {}
    <3>1. old = << >> /\ old' = old
      BY <1>1, ServesClock DEF Phased, Running
    <3> QED BY <3>1, NoKeys
  <2>2. ASSUME NEW u \in Threads, Recording(u)
        PROVE  arr[u] \in Arrays /\ mem[arr[u]] # "none" /\ arr[u] \in file \cup lost
    <3>1. arr[u] \in Arrays /\ mem[arr[u]] # "none"
      BY <2>2, Holding DEF Held, Recording, Bare, Asking
    <3>2. mem[arr[u]] \in {"live", "dying", "freed"}
      BY <3>1 DEF TypeInv, ArrayType
    <3> QED BY <3>1, <3>2 DEF Gone, Tree
  <2>3. AddRecord(t) => Recording(t)
    BY DEF AddRecord, At, Recording
  <2>4. /\ Distinct(lss)'
        /\ Keys(lss)' = Keys(lss) \/ (AddRecord(t) /\ Keys(lss)' = Keys(lss) \cup {arr[t]})
    <3>1. CASE DOMAIN lss' = DOMAIN lss /\ \A i \in DOMAIN lss : lss'[i].key = lss[i].key
      BY <3>1, SameKeys DEF RecordedOnce
    <3>2. CASE AddRecord(t) /\ lss' = Append(lss, Record(arr[t]))
      <4>1. Record(arr[t]) \in Records /\ Record(arr[t]).key = arr[t]
        BY <2>2, <2>3, <3>2 DEF Record, Records, TypeInv, ArrayType
      <4>2. lss \in Seq(Records) /\ arr[t] \notin Keys(lss) /\ Distinct(lss)
        BY <2>3, <3>2 DEF TypeInv, FileType, RecordedOnce
      <4> QED BY <3>2, <4>1, <4>2, AppendKeys
    <3> QED BY <1>1, <3>1, <3>2, ServesKeys
  <2>5. Keys(lss)' \subseteq file' \cup lost'
    <3>1. Keys(lss)' \subseteq file \cup lost
      BY <2>2, <2>3, <2>4 DEF RecordedOnce
    <3> QED BY <1>1, <3>1, ServesKeys
  <2>6. ASSUME NEW u \in Threads, Recording(u)'
        PROVE  \/ Recording(u) /\ arr'[u] = arr[u] /\ ~(u = t /\ AddRecord(t))
               \/ u = t /\ Fresh(arr'[u]) /\ arr'[u] \in Arrays /\ lss' = lss
    <3>1. CASE u = t
      BY <1>1, <2>6, <3>1, ServesRecording
    <3>2. CASE u # t
      BY <1>1, <2>6, <3>2, ServesOthers DEF Recording
    <3> QED BY <3>1, <3>2
  <2>7. ASSUME NEW u \in Threads, Recording(u)'
        PROVE  arr'[u] \notin Keys(lss)'
    <3>1. CASE Recording(u) /\ arr'[u] = arr[u] /\ ~(u = t /\ AddRecord(t))
      <4>1. arr[u] \notin Keys(lss)
        BY <3>1 DEF RecordedOnce
      <4>2. AddRecord(t) => arr[u] # arr[t]
        BY <2>3, <3>1 DEF RecordedOnce
      <4> QED BY <2>4, <3>1, <4>1, <4>2
    <3>2. CASE Fresh(arr'[u]) /\ lss' = lss
      BY <3>2 DEF Fresh, RecordedOnce
    <3> QED BY <2>6, <2>7, <3>1, <3>2
  <2>8. ASSUME NEW u \in Threads, NEW v \in Threads, Recording(u)', Recording(v)', arr'[u] = arr'[v]
        PROVE  u = v
    <3>1. (Recording(u) /\ arr'[u] = arr[u]) \/ (u = t /\ mem[arr'[u]] = "none")
      BY <2>6, <2>8 DEF Fresh
    <3>2. (Recording(v) /\ arr'[v] = arr[v]) \/ (v = t /\ mem[arr'[v]] = "none")
      BY <2>6, <2>8 DEF Fresh
    <3>3. \A w \in Threads : Recording(w) => mem[arr[w]] # "none"
      BY <2>2
    <3> QED BY <2>8, <3>1, <3>2, <3>3 DEF RecordedOnce
  <2> QED BY <2>1, <2>4, <2>5, <2>7, <2>8 DEF RecordedOnce
<1>2. ASSUME \A t \in Threads : pc'[t] = "idle"
      PROVE  \A t \in Threads : ~Recording(t)'
  BY <1>2 DEF Recording
<1>3. CASE Crash
  <2>1. \A t \in Threads : ~Recording(t)'
    BY <1>2, <1>3 DEF Crash
  <2>2. old' = << >> /\ UNCHANGED <<lss, file, lost>>
    BY <1>3 DEF Crash
  <2>3. Tree' = {}
    BY <1>3 DEF Crash, Tree
  <2>4. Distinct(old)' /\ Keys(old)' = {}
    BY <2>2, NoKeys
  <2> QED BY <2>1, <2>2, <2>3, <2>4 DEF RecordedOnce
<1>4. CASE BeginRecovery
  <2>1. \A t \in Threads : ~Recording(t)'
    BY <1>2, <1>4 DEF BeginRecovery, Phased, locals
  <2>2. lss' = << >> /\ old' = lss /\ UNCHANGED <<file, lost>>
    BY <1>4 DEF BeginRecovery, arrays, seen
  <2>3. Tree' = {}
    BY <1>4 DEF BeginRecovery, arrays, Phased, Tree
  <2>4. Distinct(lss)' /\ Keys(lss)' = {}
    BY <2>2, NoKeys
  <2> QED BY <2>1, <2>2, <2>3, <2>4 DEF RecordedOnce
<1>5. CASE SkipRecord
  <2>1. old \in Seq(Records) /\ old # << >> /\ old' = Tail(old)
    BY <1>5 DEF SkipRecord, TypeInv, FileType
  <2>2. UNCHANGED <<lss, file, lost, mem, pc, arr>>
    BY <1>5 DEF SkipRecord, arrays, seen, locals
  <2>3. Keys(old)' \subseteq Keys(old) /\ Distinct(old)'
    BY <2>1, TailKeys DEF RecordedOnce
  <2> QED BY <2>2, <2>3 DEF RecordedOnce, Recording, Tree
<1>6. CASE RestoreRecord
  <2> DEFINE r == Head(old)
             n == [r EXCEPT !.refs = refs'[r.key], !.ends = ends'[r.key]]
  <2>1. old \in Seq(Records) /\ old # << >> /\ old' = Tail(old) /\ lss' = Append(lss, n)
    BY <1>6 DEF RestoreRecord, TypeInv, FileType
  <2>2. r \in Records /\ r.key \in Keys(old)
    BY <2>1, TailKeys
  <2>3. n \in Records /\ n.key = r.key
    <3>1. r.key \in Arrays
      BY <2>2 DEF Records
    <3>2. refs'[r.key] \in Int /\ ends'[r.key] \in Nat
      <4>1. ArrayType'
        BY <1>6, ArrayTypeStep DEF Next
      <4> QED BY <3>1, <4>1 DEF ArrayType
    <3> HIDE DEF r
    <3> QED BY <2>2, <3>2 DEF Records
  <2>4. mem' = [mem EXCEPT ![r.key] = "live"] /\ UNCHANGED <<file, lost, pc, arr>>
    BY <1>6 DEF RestoreRecord, seen, locals
  <2>5. \A t \in Threads : ~Recording(t)'
    BY <1>2, <1>6, <2>4 DEF RestoreRecord, Phased
  <2>6. Keys(old)' \subseteq Keys(old) /\ Distinct(old)' /\ r.key \notin Keys(old)'
    BY <2>1, TailKeys DEF RecordedOnce
  <2>7. Keys(lss)' = Keys(lss) \cup {r.key} /\ Distinct(lss)'
    <3>1. lss \in Seq(Records) /\ r.key \notin Keys(lss) /\ Distinct(lss)
      BY <2>2 DEF TypeInv, FileType, RecordedOnce
    <3> HIDE DEF n, r
    <3> QED BY <2>1, <2>3, <3>1, AppendKeys
  <2> HIDE DEF r
  <2>8. Tree' \subseteq Tree \cup {r.key}
    BY <2>4 DEF Tree, TypeInv, ArrayType
  <2> QED BY <2>2, <2>4, <2>5, <2>6, <2>7, <2>8 DEF RecordedOnce
<1>7. CASE EndRecovery \/ RecoverFinish \/ Tick \/ Waits
  <2>1. UNCHANGED <<lss, old, file, lost, mem, pc, arr>>
    BY <1>7 DEF EndRecovery, RecoverFinish, Tick, Waits, vars, arrays, seen, locals, files
  <2> QED BY <2>1 DEF RecordedOnce, Recording, Tree
<1> QED BY <1>1, <1>3, <1>4, <1>5, <1>6, <1>7 DEF Next

-----------------------------------------------------------------------------
(* The space that is charged                                               *)

\* At most one thread may resize arrays: the increase is computed before the lock.
SingleResizer == \A t, u \in Threads : "chng" \in Does[t] \cap Does[u] => t = u

\* A thread that is to resize an array still knows by how much.
Resized == \A t \in Threads :
    pc[t] = "apply" /\ mem[arr[t]] = "live" => inc[t] = tmp[t] - size[arr[t]]

Charged == used = SizeOf(Tree)

\* The part of a sum that goes, and the rest.
LEMMA TotalSplit ==
    ASSUME NEW S, IsFiniteSet(S), NEW f, \A a \in S : f[a] \in Int, NEW P \in SUBSET S
    PROVE  Total(f, S) = Total(f, P) + Total(f, S \ P)
<1> DEFINE B == {u \in SUBSET S : Total(f, S) # Total(f, u) + Total(f, S \ u)}
<1> SUFFICES ASSUME B # {} PROVE FALSE
  OBVIOUS
<1>1. PICK u \in B : \A v \in B : v \subseteq u => v = u
  <2>1. B \in SUBSET SUBSET S
    OBVIOUS
  <2> HIDE DEF B
  <2> QED BY <2>1, LeastSet
<1>0. \A v \in SUBSET S : IsFiniteSet(v) /\ Total(f, v) \in Int
  <2> TAKE v \in SUBSET S
  <2>1. IsFiniteSet(v) /\ \A a \in v : f[a] \in Int
    BY FS_Subset
  <2> QED BY <2>1, TotalType
<1>2. CASE u = {}
  <2>1. Total(f, u) = 0 /\ Total(f, S) \in Int
    BY <1>0, <1>2, TotalEmpty
  <2>2. S \ u = S
    BY <1>2
  <2>3. Total(f, S \ u) = Total(f, S)
    BY <2>2
  <2>4. Total(f, S) # Total(f, u) + Total(f, S \ u)
    BY <1>1
  <2> QED BY <2>1, <2>3, <2>4
<1>3. CASE u # {}
  <2> DEFINE p == Pick(u)
             v == u \ {p}
             w == S \ v
  <2>1. p \in u /\ v \subseteq u /\ v # u /\ v \in SUBSET S /\ w \in SUBSET S /\ p \in w
    BY <1>3, PickIn
  <2>2. w \ {p} = S \ u
    BY <2>1
  <2>3. Total(f, S) = Total(f, v) + Total(f, w)
    BY <1>1, <2>1
  <2>4. Total(f, u) = f[p] + Total(f, v)
    BY <1>0, <1>3, <2>1, TotalPick
  <2>5. Total(f, w) = f[p] + Total(f, S \ u)
    <3>1. IsFiniteSet(w) /\ \A a \in w : f[a] \in Int
      BY <1>0, <2>1
    <3>2. Total(f, w) = f[p] + Total(f, w \ {p})
      <4> HIDE DEF w, p
      <4> QED BY <2>1, <3>1, TotalRemove
    <3> QED BY <2>2, <3>2
  <2>6. Total(f, v) \in Int /\ Total(f, S \ u) \in Int /\ f[p] \in Int
    BY <1>0, <2>1
  <2> HIDE DEF v, w, p
  <2> QED BY <2>3, <2>4, <2>5, <2>6
<1> QED BY <1>2, <1>3

\* What a step of a thread does to the size of an array in the tree.
LEMMA ServesSize ==
    ASSUME TypeInv, NEW t \in Threads, Serves(t), NEW a \in Arrays,
           mem[a] # "none", mem'[a] # "freed"
    PROVE  size'[a] = size[a] \/ (Apply(t) /\ a = arr[t] /\ size'[a] = tmp[t])
<1> USE DEF TypeInv, ArrayType, ThreadType
<1>1. CASE Asks(t) \/ Chng(t) \/ Truncate(t)
  <2>1. Sweeps
    BY <1>1, AskStep, ChngStep, TruncateStep
  <2> QED BY <2>1 DEF Sweeps, Shrunk, Erased, arrays, fields
<1>2. CASE Insert(t)
  <2>1. PICK b \in Arrays : Fresh(b) /\ size' = [size EXCEPT ![b] = tmp[t]]
    BY <1>2 DEF Insert
  <2> QED BY <2>1 DEF Fresh
<1>3. CASE Forget(t)
  BY <1>3 DEF Forget, Erased
<1>4. CASE Apply(t)
  BY <1>4 DEF Apply
<1>5. CASE \/ Answer(t) \/ Number(t) \/ AddRecord(t) \/ Decode(t) \/ Reject(t)
           \/ RefuseRecovering(t) \/ BeginStore(t) \/ BeginRead(t) \/ BeginManage(t)
           \/ Store(t) \/ SaveStore(t) \/ EndRead(t) \/ Release(t) \/ Drop(t) \/ Check(t)
           \/ Unlock(t) \/ Resave(t) \/ Jettison(t) \/ Incr(t) \/ Decr(t) \/ Save(t)
           \/ Moves(t) \/ Undefined(t)
  BY <1>5, MoveStep
     DEF Answer, Number, AddRecord, Decode, Reject, RefuseRecovering, BeginStore,
              BeginRead, BeginManage, Store, SaveStore, EndRead, Release, Drop, Check, Unlock,
              Resave, Jettison, Incr, Decr, Save, Undefined, arrays, fields
<1> QED BY <1>1, <1>2, <1>3, <1>4, <1>5 DEF Serves, Moves

LEMMA ResizedStep ==
    ASSUME SingleResizer, TypeInv, Phased, Held, Resized, Next
    PROVE  Resized'
<1>1. ASSUME NEW t \in Threads, Serves(t)
      PROVE  Resized'
  <2> SUFFICES ASSUME NEW u \in Threads, pc'[u] = "apply", mem'[arr'[u]] = "live"
               PROVE  inc'[u] = tmp'[u] - size'[arr'[u]]
    BY DEF Resized
  <2> DEFINE a == arr'[u]
  <2>1. a \in Arrays
    <3>1. TypeInv'
      BY <1>1, TypeStep DEF Next
    <3> QED BY <3>1 DEF TypeInv, ThreadShape
  <2>2. CASE u # t
    <3>1. pc[u] = "apply" /\ arr[u] = a /\ tmp'[u] = tmp[u] /\ inc'[u] = inc[u]
      BY <1>1, <2>2, ServesOthers
    <3>2. mem[a] = "live"
      <4>1. mem[a] # "none"
        BY <3>1 DEF Held, Bare, Asking
      <4> QED BY <1>1, <2>1, <4>1, ServesMem
    <3>3. size'[a] = size[a]
      <4>1. Apply(t) => u = t
        <5>1. Apply(t) => "chng" \in Does[t]
          BY DEF Apply, At, TypeInv, ThreadShape
        <5>2. "chng" \in Does[u]
          BY <3>1 DEF TypeInv, ThreadShape
        <5> QED BY <5>1, <5>2 DEF SingleResizer
      <4> QED BY <1>1, <2>1, <2>2, <3>2, <4>1, ServesSize
    <3> QED BY <3>1, <3>2, <3>3 DEF Resized
  <2>3. CASE u = t
    <3>1. Undefined(t) \/ Chng(t)
      <4>1. CASE Asks(t) \/ Truncate(t) \/ Moves(t)
        <5>1. pc'[t] # "apply"
          BY <4>1, AskLocals, TruncateStep, MoveStep
             DEF Asked, Asking, Done, Goto, TypeInv, ThreadType
        <5> QED BY <2>3, <5>1
      <4>2. CASE ~(Asks(t) \/ Truncate(t) \/ Moves(t) \/ Chng(t) \/ Undefined(t))
        BY <1>1, <2>3, <4>2
           DEF Serves, Moves, Insert, Answer, Number, AddRecord, Decode, Reject, RefuseRecovering,
               BeginStore, BeginRead, BeginManage, Store, SaveStore, EndRead, Release, Drop,
               Check, Unlock, Resave, Jettison, Forget, Incr, Decr, Apply, Save, Done, Goto,
               TypeInv, ThreadType
      <4> QED BY <4>1, <4>2
    <3>2. CASE Undefined(t)
      <4>1. UNCHANGED <<pc, arr, tmp, inc, mem, size>>
        BY <3>2 DEF Undefined, locals, arrays, fields
      <4> QED BY <4>1 DEF Resized
    <3>3. CASE Chng(t)
      <4>1. ~Done(t)
        BY <2>3 DEF Done, Goto, TypeInv, ThreadType
      <4>2. PICK n \in NewSizes : Changes(t, n)
        BY <3>3, <4>1, ChngStep
      <4>3. tmp'[t] = n /\ inc'[t] = n - size[arr[t]] /\ arr' = arr
        BY <4>2 DEF Changes, TypeInv, ThreadType
      <4>4. size'[a] = size[a]
        <5>1. mem[a] = "live"
          BY <2>1, <2>3, <3>3, <4>3, ServesMem DEF Serves, Chng, At, Usable
        <5>2. ~Apply(t)
          BY <3>3 DEF Apply, Chng, At
        <5> QED BY <2>1, <3>3, <5>1, <5>2, ServesSize DEF Serves
      <4> QED BY <2>3, <4>3, <4>4
    <3> QED BY <3>1, <3>2, <3>3
  <2> QED BY <2>2, <2>3
<1>2. ASSUME \A t \in Threads : pc'[t] = "idle"
      PROVE  Resized'
  BY <1>2 DEF Resized
<1>3. CASE Crash
  BY <1>2, <1>3 DEF Crash
<1>4. CASE RestoreRecord
  <2>1. \A t \in Threads : pc'[t] = "idle"
    BY <1>4 DEF RestoreRecord, Phased, locals
  <2> QED BY <1>2, <2>1
<1>5. CASE BeginRecovery \/ SkipRecord \/ EndRecovery \/ RecoverFinish \/ Tick \/ Waits
  <2>1. UNCHANGED <<pc, arr, tmp, inc, mem, size>>
    BY <1>5 DEF BeginRecovery, SkipRecord, EndRecovery, RecoverFinish, Tick, Waits, vars,
                arrays, fields, locals
  <2> QED BY <2>1 DEF Resized
<1> QED BY <1>1, <1>3, <1>4, <1>5 DEF Next

LEMMA SizesType ==
    ASSUME ArrayType, NEW a \in Arrays
    PROVE  size[a] \in Nat /\ size[a] \in Int
<1>1. size[a] \in Grown \cup {0}
  BY DEF ArrayType
<1> QED BY <1>1, Sizings

LEMMA Trees == Tree \in SUBSET Arrays /\ IsFiniteSet(Tree)
<1>1. Tree \in SUBSET Arrays
  BY DEF Tree
<1> QED BY <1>1, Sizings, FS_Subset

LEMMA TreeTotal == SizeOf(Tree) = Total(size, Tree)
BY SizeOfTotal

LEMMA TreeTotalNext == SizeOf(Tree)' = Total(size', Tree')
<1>1. (SizeOf(Tree) = Total(size, Tree))'
  BY TreeTotal, PTL
<1> QED BY <1>1

\* An array joins the tree, or leaves it.
LEMMA TreeJoined ==
    ASSUME ArrayType, ArrayType', NEW a \in Arrays, a \notin Tree, Tree' = Tree \cup {a},
           \A b \in Tree : size'[b] = size[b]
    PROVE  SizeOf(Tree)' = SizeOf(Tree) + size'[a]
<1>1. IsFiniteSet(Tree') /\ Tree' \in SUBSET Arrays
  <2>1. (Tree \in SUBSET Arrays /\ IsFiniteSet(Tree))'
    BY Trees, PTL
  <2> QED BY <2>1
<1>2. \A b \in Tree' : size'[b] \in Int
  <2>1. \A b \in Arrays : size'[b] \in Int
    <3>1. \A b \in Arrays : ArrayType => size[b] \in Int
      BY SizesType
    <3>2. \A b \in Arrays : ArrayType' => size'[b] \in Int
      <4>1. \A b \in Arrays : size' \in [Arrays -> Grown \cup {0}] => size'[b] \in Int
        BY Sizings
      <4> QED BY <4>1 DEF ArrayType
    <3> QED BY <3>2
  <2> QED BY <1>1, <2>1
<1>3. Total(size', Tree') = size'[a] + Total(size', Tree' \ {a})
  <2>1. a \in Tree'
    OBVIOUS
  <2> QED BY <1>1, <1>2, <2>1, TotalRemove
<1>4. Total(size', Tree' \ {a}) = Total(size', Tree)
  <2>1. Tree' \ {a} = Tree
    OBVIOUS
  <2> QED BY <2>1
<1>5. Total(size', Tree) = Total(size, Tree)
  BY Trees, TotalSame
<1>6. SizeOf(Tree)' = Total(size', Tree') /\ SizeOf(Tree) = Total(size, Tree)
  <2>1. SizeOf(Tree)' = Total(size', Tree')
    BY TreeTotalNext
  <2> QED BY <2>1, SizeOfTotal
<1>7. SizeOf(Tree) \in Int
  BY Trees, SizeOfType
<1>8. size'[a] \in Int
  BY <1>2
<1> QED BY <1>3, <1>4, <1>5, <1>6, <1>7, <1>8

LEMMA TreeLeft ==
    ASSUME ArrayType, NEW P \in SUBSET Tree, Tree' = Tree \ P,
           \A b \in Tree' : size'[b] = size[b]
    PROVE  SizeOf(Tree)' = SizeOf(Tree) - SizeOf(P)
<1>1. IsFiniteSet(Tree) /\ Tree \in SUBSET Arrays /\ P \in SUBSET Arrays
  BY Trees
<1>2. \A b \in Tree : size[b] \in Int
  BY <1>1, SizesType
<1>3. Total(size, Tree) = Total(size, P) + Total(size, Tree \ P)
  BY <1>1, <1>2, TotalSplit
<1>4. Total(size', Tree') = Total(size, Tree')
  <2>1. IsFiniteSet(Tree')
    BY <1>1, FS_Subset
  <2> QED BY <2>1, TotalSame
<1>5. SizeOf(Tree)' = Total(size', Tree') /\ SizeOf(Tree) = Total(size, Tree)
      /\ SizeOf(P) = Total(size, P)
  <2>1. SizeOf(Tree)' = Total(size', Tree')
    BY TreeTotalNext
  <2> QED BY <2>1, SizeOfTotal
<1>6. SizeOf(Tree) \in Int /\ SizeOf(P) \in Int
  BY <1>1, SizeOfType
<1>7. Total(size, Tree \ P) \in Int
  <2>1. IsFiniteSet(Tree \ P) /\ \A b \in Tree \ P : size[b] \in Int
    BY <1>1, <1>2, FS_Subset
  <2> QED BY <2>1, TotalType
<1> QED BY <1>3, <1>4, <1>5, <1>6, <1>7

LEMMA SizeOfOne == ASSUME ArrayType, NEW a \in Arrays PROVE SizeOf({a}) = size[a]
<1>1. IsFiniteSet({a}) /\ \A b \in {a} : size[b] \in Int
  BY SizesType, FS_Singleton
<1>2. Total(size, {a}) = size[a] + Total(size, {a} \ {a})
  BY <1>1, TotalRemove
<1>3. {a} \ {a} = {} /\ size[a] \in Int
  BY SizesType
<1> QED BY <1>2, <1>3, TotalEmpty, SizeOfTotal

LEMMA ChargedStep ==
    ASSUME TypeInv, Phased, Resized, RecordedOnce, Charged, Next
    PROVE  Charged'
<1>0. ArrayType /\ ArrayType'
  BY ArrayTypeStep DEF TypeInv
<1>1. ASSUME UNCHANGED <<mem, size, used>>
      PROVE  Charged'
  <2>1. Tree' = Tree
    BY <1>1 DEF Tree
  <2>2. SizeOf(Tree)' = SizeOf(Tree)
    BY <1>1, <2>1, TreeTotal, TreeTotalNext
  <2> QED BY <1>1, <2>2 DEF Charged
<1>2. ASSUME NEW t \in Threads, Asks(t) \/ Chng(t) \/ Truncate(t)
      PROVE  Charged'
  <2>1. Sweeps
    BY <1>2, AskStep, ChngStep, TruncateStep
  <2>2. CASE UNCHANGED <<arrays, used, lss, lost>>
    BY <1>1, <2>2 DEF arrays, fields
  <2>3. CASE Shrunk(Unused)
    <3>1. Unused \in SUBSET Tree
      BY DEF Unused, Expired
    <3>2. Tree' = Tree \ Unused
      BY <2>3 DEF Shrunk, Erased, Tree
    <3>3. \A b \in Tree' : size'[b] = size[b]
      BY <2>3, <3>2 DEF Shrunk, Erased, Tree
    <3>4. SizeOf(Tree)' = SizeOf(Tree) - SizeOf(Unused)
      BY <1>0, <3>1, <3>2, <3>3, TreeLeft
    <3>5. used' = used - SizeOf(Unused)
      BY <2>3 DEF Shrunk
    <3> QED BY <3>4, <3>5 DEF Charged
  <2> QED BY <2>1, <2>2, <2>3 DEF Sweeps
<1>3. ASSUME NEW t \in Threads, Insert(t)
      PROVE  Charged'
  <2>1. PICK a \in Arrays :
            /\ Fresh(a) /\ mem' = [mem EXCEPT ![a] = "live"]
            /\ size' = [size EXCEPT ![a] = tmp[t]]
    BY <1>3 DEF Insert
  <2>2. a \notin Tree /\ Tree' = Tree \cup {a}
    BY <1>0, <2>1 DEF Tree, Fresh, ArrayType
  <2>3. size'[a] = tmp[t] /\ \A b \in Tree : size'[b] = size[b]
    BY <1>0, <2>1, <2>2 DEF Tree, ArrayType
  <2>4. SizeOf(Tree)' = SizeOf(Tree) + size'[a]
    BY <1>0, <2>2, <2>3, TreeJoined
  <2>5. used' = used + tmp[t]
    BY <1>3 DEF Insert
  <2> QED BY <2>3, <2>4, <2>5 DEF Charged
<1>4. ASSUME NEW t \in Threads, Jettison(t)
      PROVE  Charged'
  <2> DEFINE a == arr[t]
  <2>1. a \in Arrays /\ mem[a] = "live" /\ size' = size
    BY <1>4, Holding DEF Jettison, At, Bare, Asking
  <2>2. CASE UNCHANGED <<mem, used>>
    BY <1>1, <2>1, <2>2
  <2>3. CASE mem' = [mem EXCEPT ![a] = "dying"] /\ used' = used - size[a]
    <3> HIDE DEF a
    <3>1. {a} \in SUBSET Tree /\ Tree' = Tree \ {a}
      BY <1>0, <2>1, <2>3 DEF Tree, ArrayType
    <3>2. SizeOf(Tree)' = SizeOf(Tree) - SizeOf({a})
      BY <1>0, <2>1, <3>1, TreeLeft
    <3> QED BY <1>0, <2>1, <2>3, <3>2, SizeOfOne DEF Charged
  <2> QED BY <1>4, <2>2, <2>3 DEF Jettison
<1>5. ASSUME NEW t \in Threads, Forget(t)
      PROVE  Charged'
  <2> DEFINE a == arr[t]
  <2>1. mem[a] = "dying" /\ Erased({a}) /\ used' = used
    BY <1>5 DEF Forget
  <2> HIDE DEF a
  <2>2. Tree' = Tree /\ \A b \in Tree : size'[b] = size[b]
    BY <2>1 DEF Erased, Tree
  <2>3. SizeOf(Tree)' = SizeOf(Tree)
    <3>1. Total(size', Tree) = Total(size, Tree)
      BY <2>2, Trees, TotalSame
    <3>2. SizeOf(Tree)' = Total(size', Tree')
      BY TreeTotalNext
    <3> QED BY <2>2, <3>1, <3>2, SizeOfTotal
  <2> QED BY <2>1, <2>3 DEF Charged
<1>6. ASSUME NEW t \in Threads, Apply(t)
      PROVE  Charged'
  <2> DEFINE a == arr[t]
             R == Tree \ {a}
  <2>1. /\ mem[a] = "live" /\ a \in Arrays /\ mem' = mem
        /\ size' = [size EXCEPT ![a] = tmp[t]] /\ used' = used + inc[t]
        /\ inc[t] = tmp[t] - size[a]
    BY <1>6, Holding DEF Apply, At, Resized, Bare, Asking
  <2>2. tmp[t] \in Int /\ size[a] \in Int
    BY <1>0, <2>1, SizesType DEF TypeInv, ThreadType
  <2> HIDE DEF a
  <2>3. a \in Tree /\ Tree' = Tree /\ size'[a] = tmp[t] /\ \A b \in R : size'[b] = size[b]
    BY <1>0, <2>1 DEF Tree, ArrayType
  <2>4. IsFiniteSet(Tree) /\ IsFiniteSet(R) /\ Tree \in SUBSET Arrays
    BY Trees, FS_Subset
  <2>5. Total(size, Tree) = size[a] + Total(size, R)
    <3>1. \A b \in Tree : size[b] \in Int
      BY <1>0, <2>4, SizesType
    <3> QED BY <2>3, <2>4, <3>1, TotalRemove
  <2>6. Total(size', Tree) = size'[a] + Total(size', R)
    <3>1. \A b \in Tree : size'[b] \in Int
      BY <1>0, <2>1, <2>2, <2>4, SizesType DEF ArrayType
    <3> QED BY <2>3, <2>4, <3>1, TotalRemove
  <2>7. Total(size', R) = Total(size, R)
    BY <2>3, <2>4, TotalSame
  <2>8. Total(size, R) \in Int
    <3>1. \A b \in R : size[b] \in Int
      BY <1>0, <2>4, SizesType
    <3> QED BY <2>4, <3>1, TotalType
  <2>9. SizeOf(Tree)' = Total(size', Tree) /\ SizeOf(Tree) = Total(size, Tree)
    <3>1. SizeOf(Tree)' = Total(size', Tree')
      BY TreeTotalNext
    <3> QED BY <2>3, <3>1, SizeOfTotal
  <2> HIDE DEF R
  <2>10. used = Total(size, Tree)
    BY <2>9 DEF Charged
  <2>11. used' = Total(size', Tree)
    BY <2>1, <2>2, <2>3, <2>5, <2>6, <2>7, <2>8, <2>10
  <2> QED BY <2>9, <2>11 DEF Charged
<1>7. ASSUME NEW t \in Threads,
             \/ Answer(t) \/ Number(t) \/ AddRecord(t) \/ Decode(t) \/ Reject(t)
             \/ RefuseRecovering(t) \/ BeginStore(t) \/ BeginRead(t) \/ BeginManage(t)
             \/ Store(t) \/ SaveStore(t) \/ EndRead(t) \/ Release(t) \/ Drop(t) \/ Check(t)
             \/ Unlock(t) \/ Resave(t) \/ Incr(t) \/ Decr(t) \/ Save(t) \/ Moves(t)
             \/ Undefined(t)
      PROVE  Charged'
  BY <1>1, <1>7, MoveStep
     DEF Answer, Number, AddRecord, Decode, Reject, RefuseRecovering, BeginStore, BeginRead,
         BeginManage, Store, SaveStore, EndRead, Release, Drop, Check, Unlock, Resave, Incr,
         Decr, Save, Undefined, arrays, fields
<1>8. CASE Crash
  <2>1. Tree' = {} /\ used' = 0
    BY <1>8 DEF Crash, Tree
  <2>2. SizeOf(Tree)' = Total(size', Tree')
    BY TreeTotalNext
  <2>3. Total(size', {}) = 0
    BY TotalEmpty
  <2> QED BY <2>1, <2>2, <2>3 DEF Charged
<1>9. CASE RestoreRecord
  <2> DEFINE a == Head(old).key
  <2>1. old \in Seq(Records) /\ old # << >>
    BY <1>9 DEF RestoreRecord, TypeInv, FileType
  <2>2. Head(old) \in Records /\ a \in Keys(old)
    BY <2>1, TailKeys
  <2>3. a \in Arrays /\ a \notin Tree
    BY <2>2 DEF Records, RecordedOnce
  <2>4. /\ mem' = [mem EXCEPT ![a] = "live"] /\ size' = [size EXCEPT ![a] = Head(old).size]
        /\ used' = used + Head(old).size
    BY <1>9 DEF RestoreRecord, Charge
  <2> HIDE DEF a
  <2>5. Tree' = Tree \cup {a} /\ size'[a] = Head(old).size /\ \A b \in Tree : size'[b] = size[b]
    BY <1>0, <2>3, <2>4 DEF Tree, ArrayType
  <2>6. SizeOf(Tree)' = SizeOf(Tree) + size'[a]
    BY <1>0, <2>3, <2>5, TreeJoined
  <2> QED BY <2>4, <2>5, <2>6 DEF Charged
<1>10. CASE BeginRecovery \/ SkipRecord \/ EndRecovery \/ RecoverFinish \/ Tick \/ Waits
  BY <1>1, <1>10 DEF BeginRecovery, SkipRecord, EndRecovery, RecoverFinish, Tick, Waits, vars,
                     arrays, fields
<1> QED BY <1>2, <1>3, <1>4, <1>5, <1>6, <1>7, <1>8, <1>9, <1>10 DEF Next, Serves, Moves

-----------------------------------------------------------------------------
(* How far the room can be exceeded                                        *)

\* The room that a thread has been granted and has not yet taken.
Pend(t) == IF pc[t] \in {"let", "grant"} THEN tmp[t]
           ELSE IF pc[t] = "apply" /\ inc[t] > 0 THEN inc[t] ELSE 0
Pends == [t \in Threads |-> Pend(t)]

\* Arrays in use have a size that was asked for; no thread holds a promise of more
\* than the largest growth; and the promises with what is taken exceed the limit by
\* no more than one promise for each thread but one, and what a signal let in.
Promised ==
    crashes = 0 =>
        /\ \A a \in Arrays : mem[a] \in {"live", "dying"} => size[a] \in Grown
        /\ \A t \in Threads : Pend(t) <= LargestGrowth
        /\ used + Total(Pends, Growers)
              <= StableStorage + (Cardinality(Growers) - 1) * LargestGrowth + untested

LEMMA GreatestElement ==
    ASSUME NEW S, IsFiniteSet(S), S # {}, \A n \in S : n \in Int
    PROVE  \E n \in S : \A k \in S : n >= k
<1> DEFINE B == {u \in SUBSET S : u # {} /\ ~\E n \in u : \A k \in u : n >= k}
<1> SUFFICES ASSUME B # {} PROVE FALSE
  OBVIOUS
<1>1. PICK u \in B : \A v \in B : v \subseteq u => v = u
  <2>1. B \in SUBSET SUBSET S
    OBVIOUS
  <2> HIDE DEF B
  <2> QED BY <2>1, LeastSet
<1>2. PICK x \in u : TRUE
  OBVIOUS
<1> DEFINE v == u \ {x}
<1>3. \A n \in u : n \in Int
  OBVIOUS
<1>4. CASE v = {}
  <2>1. \A k \in u : k = x
    BY <1>4
  <2>2. \A k \in u : x >= k
    BY <1>3, <2>1
  <2> QED BY <2>2
<1>5. CASE v # {}
  <2>1. \E n \in v : \A k \in v : n >= k
    <3>1. v \in SUBSET S /\ v \subseteq u /\ v # u
      BY <1>2
    <3>2. v \notin B
      BY <1>1, <3>1
    <3> HIDE DEF v
    <3> QED BY <1>5, <3>1, <3>2
  <2>2. PICK n \in v : \A k \in v : n >= k
    BY <2>1
  <2>3. CASE n >= x
    <3>1. \A k \in u : n >= k
      BY <2>2, <2>3
    <3> QED BY <3>1
  <2>4. CASE ~(n >= x)
    <3>1. \A k \in u : x >= k
      BY <1>3, <2>2, <2>4
    <3> QED BY <3>1
  <2> QED BY <2>3, <2>4
<1> QED BY <1>4, <1>5

LEMMA Growth ==
    /\ LargestGrowth \in Nat
    /\ \A n \in Sizes : n <= LargestGrowth
    /\ \A n \in NewSizes, m \in Grown : n - m <= LargestGrowth
<1> DEFINE D == {n - m : n \in NewSizes, m \in Grown}
           f == [p \in NewSizes \X Grown |-> p[1] - p[2]]
<1>1. \A n \in Grown : n \in Nat /\ n > 0
  BY Sizings
<1>2. IsFiniteSet(D)
  <2>1. IsFiniteSet(NewSizes \X Grown)
    <3>1. IsFiniteSet(NewSizes) /\ IsFiniteSet(Grown)
      BY StorageAssumption, FS_Union DEF Grown
    <3> QED BY <3>1, FS_Product
  <2>2. f \in Surjection(NewSizes \X Grown, D)
    <3>1. f \in [NewSizes \X Grown -> D]
      OBVIOUS
    <3>2. ASSUME NEW d \in D
          PROVE  \E p \in NewSizes \X Grown : f[p] = d
      <4>1. PICK n \in NewSizes, m \in Grown : d = n - m
        OBVIOUS
      <4>2. <<n, m>> \in NewSizes \X Grown /\ f[<<n, m>>] = n - m
        OBVIOUS
      <4> QED BY <4>1, <4>2
    <3> HIDE DEF f, D
    <3> QED BY <3>1, <3>2 DEF Surjection
  <2> HIDE DEF f, D
  <2> QED BY <2>1, <2>2, FS_Surjection
<1>3. \A n \in Sizes \cup D : n \in Int
  BY <1>1 DEF Grown
<1>4. IsFiniteSet(Sizes \cup D) /\ Sizes \cup D # {}
  <2> HIDE DEF D
  <2> QED BY <1>2, StorageAssumption, FS_Union
<1>5. LargestGrowth \in Sizes \cup D /\ \A n \in Sizes \cup D : LargestGrowth >= n
  <2>1. LargestGrowth = CHOOSE x \in Sizes \cup D : \A y \in Sizes \cup D : x >= y
    BY DEF LargestGrowth, Max, Grown
  <2>2. \E x \in Sizes \cup D : \A y \in Sizes \cup D : x >= y
    <3> HIDE DEF D
    <3> QED BY <1>3, <1>4, GreatestElement
  <2> HIDE DEF D
  <2> QED BY <2>1, <2>2
<1>6. LargestGrowth \in Nat
  <2>1. PICK n \in Sizes : TRUE
    BY StorageAssumption
  <2>2. n \in Nat /\ n <= LargestGrowth
    BY <1>1, <1>5 DEF Grown
  <2>3. LargestGrowth \in Int
    BY <1>3, <1>5
  <2> QED BY <2>2, <2>3
<1>7. \A n \in NewSizes, m \in Grown : n - m \in D
  OBVIOUS
<1>8. \A n \in Sizes \cup D : n <= LargestGrowth
  BY <1>3, <1>5, <1>6
<1> QED BY <1>6, <1>7, <1>8

LEMMA Growing == Growers \in SUBSET Threads /\ IsFiniteSet(Growers) /\ Cardinality(Growers) \in Nat
<1>1. Growers \in SUBSET Threads /\ IsFiniteSet(Threads)
  BY Sizings DEF Growers
<1> QED BY <1>1, FS_Subset, FS_CardinalityType

\* What a thread has been promised; the others have nothing to do with it.
LEMMA PendType ==
    ASSUME TypeInv, NEW t \in Threads
    PROVE  Pends[t] = Pend(t) /\ Pend(t) \in Nat /\ (Pend(t) # 0 => t \in Growers)
<1>1. pc[t] \in {"let", "grant"} => tmp[t] \in Nat
  BY Sizings DEF TypeInv, ThreadShape, Bare, Asking
<1>2. inc[t] \in Int
  BY DEF TypeInv, ThreadType
<1>3. pc[t] \in {"let", "grant", "apply"} => t \in Growers
  BY DEF TypeInv, ThreadShape, Growers, Bare, Asking
<1>4. Pend(t) \in Nat
  BY <1>1, <1>2 DEF Pend
<1>5. Pend(t) # 0 => pc[t] \in {"let", "grant", "apply"}
  BY DEF Pend
<1> QED BY <1>3, <1>4, <1>5 DEF Pends

LEMMA PendTypes ==
    TypeInv => \A u \in Threads : Pends[u] = Pend(u) /\ Pend(u) \in Nat
                                  /\ (Pend(u) # 0 => u \in Growers)
BY PendType

LEMMA PendSum ==
    ASSUME TypeInv
    PROVE  /\ Total(Pends, Growers) \in Nat
           /\ \A t \in Growers : /\ Total(Pends, Growers) = Pend(t) + Total(Pends, Growers \ {t})
                                 /\ Total(Pends, Growers \ {t}) \in Nat
<1>1. IsFiniteSet(Growers) /\ Growers \in SUBSET Threads
  BY Growing
<1>2. \A t \in Growers : Pends[t] \in Nat /\ Pends[t] \in Int /\ Pends[t] = Pend(t)
  BY <1>1, PendType
<1>3. ASSUME NEW t \in Growers
      PROVE  /\ Total(Pends, Growers) = Pend(t) + Total(Pends, Growers \ {t})
             /\ Total(Pends, Growers \ {t}) \in Nat
  <2>1. Total(Pends, Growers) = Pends[t] + Total(Pends, Growers \ {t})
    BY <1>1, <1>2, TotalRemove
  <2>2. IsFiniteSet(Growers \ {t}) /\ \A u \in Growers \ {t} : Pends[u] \in Nat /\ Pends[u] \in Int
    BY <1>1, <1>2, FS_Subset
  <2>3. Total(Pends, Growers \ {t}) \in Nat
    BY <2>2, TotalType
  <2> QED BY <1>2, <2>1, <2>3
<1>4. Total(Pends, Growers) \in Nat
  BY <1>1, <1>2, TotalType
<1> QED BY <1>3, <1>4

\* A step of one thread changes the sum by what it changes the promise of that thread.
LEMMA PendsChange ==
    ASSUME TypeInv, TypeInv', NEW t \in Threads,
           \A u \in Threads : u # t => Pend(u)' = Pend(u)
    PROVE  /\ Total(Pends, Growers)' = Total(Pends, Growers) - Pend(t) + Pend(t)'
           /\ Total(Pends, Growers)' \in Int
<1>1. IsFiniteSet(Growers) /\ Growers \in SUBSET Threads
  BY Growing
<1>2. \A u \in Threads : Pends[u] = Pend(u) /\ Pend(u) \in Nat /\ (Pend(u) # 0 => u \in Growers)
  BY PendType
<1>3. \A u \in Threads : Pends'[u] = Pend(u)' /\ Pend(u)' \in Nat /\ (Pend(u)' # 0 => u \in Growers)
  <2>1. (TypeInv => \A u \in Threads : Pends[u] = Pend(u) /\ Pend(u) \in Nat
                                       /\ (Pend(u) # 0 => u \in Growers))'
    BY PendTypes, PTL
  <2> QED BY <2>1
<1>4. Total(Pends, Growers)' = Total(Pends', Growers)
  OBVIOUS
<1>5. CASE t \in Growers
  <2> DEFINE R == Growers \ {t}
  <2>1. IsFiniteSet(R) /\ R \in SUBSET Threads
    BY <1>1, FS_Subset
  <2>2. Total(Pends', R) = Total(Pends, R)
    <3>1. \A u \in R : Pends'[u] = Pends[u]
      BY <1>2, <1>3, <2>1
    <3> QED BY <2>1, <3>1, TotalSame
  <2>3. Total(Pends, Growers) = Pend(t) + Total(Pends, R) /\ Total(Pends, R) \in Nat
    BY <1>5, PendSum
  <2>4. Total(Pends', Growers) = Pends'[t] + Total(Pends', R)
    <3>1. \A u \in Growers : Pends'[u] \in Int
      BY <1>1, <1>3
    <3> QED BY <1>1, <1>5, <3>1, TotalRemove
  <2>5. Pend(t) \in Nat /\ Pend(t)' \in Nat /\ Pends'[t] = Pend(t)'
    BY <1>2, <1>3
  <2> HIDE DEF R
  <2> QED BY <1>4, <2>2, <2>3, <2>4, <2>5
<1>6. CASE t \notin Growers
  <2>1. Pend(t) = 0 /\ Pend(t)' = 0
    BY <1>2, <1>3, <1>6
  <2>2. \A u \in Growers : Pends'[u] = Pends[u]
    BY <1>1, <1>2, <1>3, <1>6
  <2>3. Total(Pends', Growers) = Total(Pends, Growers)
    BY <1>1, <2>2, TotalSame
  <2>4. Total(Pends, Growers) \in Nat
    BY PendSum
  <2> QED BY <1>4, <2>1, <2>3, <2>4
<1> QED BY <1>5, <1>6

\* A step takes no more than it was promised, a signal promises room untested, or
\* room is promised that fits.
LEMMA ServesPromise ==
    ASSUME TypeInv, TypeInv', Promised, crashes = 0, NEW t \in Threads, Serves(t)
    PROVE  /\ Pend(t)' <= LargestGrowth
           /\ \/ used' + Pend(t)' - untested' <= used + Pend(t) - untested
              \/ t \in Growers /\ used' + Pend(t)' <= StableStorage
<1>0. /\ used \in Int /\ used' \in Int /\ untested \in Nat /\ Pend(t) \in Nat
      /\ inc[t] \in Int /\ tmp[t] \in Int /\ LargestGrowth \in Nat /\ Pend(t) <= LargestGrowth
  BY PendType, Growth DEF TypeInv, ArrayType, ThreadType, SyncType, Promised
<1>1. ASSUME used' <= used, untested' = untested, Pend(t)' = 0 \/ Pend(t)' = Pend(t)
      PROVE  /\ Pend(t)' <= LargestGrowth
             /\ used' + Pend(t)' - untested' <= used + Pend(t) - untested
  BY <1>0, <1>1
<1>2. ASSUME pc'[t] \notin {"let", "grant", "apply"}
      PROVE  Pend(t)' = 0
  BY <1>2 DEF Pend
<1>3. ASSUME Sweeps
      PROVE  used' <= used
  <2>1. Unused \in SUBSET Arrays
    BY DEF Unused, Expired, Tree
  <2>2. SizeOf(Unused) \in Nat
    BY <2>1, SizeOfType DEF TypeInv
  <2> QED BY <1>0, <1>3, <2>2 DEF Sweeps, Shrunk
<1>4. CASE Asks(t)
  <2>1. Sweeps /\ "allocate" \in Does[t]
    BY <1>4, AskStep, AskLocals DEF TypeInv
  <2>2. t \in Growers
    BY <2>1 DEF Growers
  <2>3. PICK n \in Sizes, p \in {"grant", "full", "need", "let", "deny"} : Asked(t, n, p)
    BY <1>4, AskLocals DEF TypeInv
  <2>4. pc'[t] = p /\ tmp'[t] = n
    BY <2>3 DEF Asked, TypeInv, ThreadType
  <2>5. CASE p \in {"full", "need", "deny"}
    <3>1. Pend(t)' = 0 /\ untested' = untested
      BY <1>2, <2>3, <2>4, <2>5 DEF Asked
    <3> QED BY <1>1, <1>3, <2>1, <3>1
  <2>6. CASE p \in {"grant", "let"}
    <3>1. Pend(t)' = n
      BY <2>4, <2>6 DEF Pend
    <3>2. n + used' <= StableStorage /\ n \in Nat /\ n <= LargestGrowth
      BY <2>3, <2>6, Sizings, Growth DEF Asked, Room
    <3> QED BY <1>0, <2>2, <3>1, <3>2
  <2> QED BY <2>5, <2>6
<1>5. CASE Chng(t)
  <2>1. pc[t] = "manage" /\ op[t] = "chng" /\ Usable(t) /\ Sweeps
    BY <1>5, ChngStep
  <2>2. t \in Growers
    BY <2>1 DEF Growers, TypeInv, ThreadShape
  <2>3. CASE Done(t) /\ untested' = untested
    <3>1. Pend(t)' = 0
      BY <1>2, <2>3 DEF Done, Goto, TypeInv, ThreadType
    <3> QED BY <1>1, <1>3, <2>1, <2>3, <3>1
  <2>4. ASSUME NEW n \in NewSizes, Changes(t, n)
        PROVE  /\ Pend(t)' <= LargestGrowth
               /\ \/ used' + Pend(t)' - untested' <= used + Pend(t) - untested
                  \/ used' + Pend(t)' <= StableStorage
    <3> DEFINE k == n - size[arr[t]]
    <3>1. pc'[t] = "apply" /\ inc'[t] = k /\ Room(k, used') /\ Tested(k)
      BY <2>4 DEF Changes, TypeInv, ThreadType
    <3>2. Pend(t)' = IF k > 0 THEN k ELSE 0
      BY <3>1 DEF Pend
    <3>3. arr[t] \in Arrays /\ size[arr[t]] \in Grown
      BY <2>1, Holding DEF Usable, Promised, Bare, Asking
    <3>4. k \in Int /\ k <= LargestGrowth
      BY <3>3, Growth, Sizings
    <3> HIDE DEF k
    <3>5. CASE k > 0
      BY <1>0, <3>1, <3>2, <3>4, <3>5 DEF Room
    <3>6. CASE ~(k > 0)
      BY <1>1, <1>3, <2>1, <3>1, <3>2, <3>6 DEF Tested
    <3> QED BY <3>5, <3>6
  <2> QED BY <1>5, <2>2, <2>3, <2>4, ChngStep
<1>6. CASE Truncate(t)
  <2>1. Pend(t)' = 0
    BY <1>2, <1>6, TruncateStep DEF Goto, TypeInv, ThreadType
  <2> QED BY <1>1, <1>3, <1>6, <2>1, TruncateStep
<1>7. CASE Insert(t)
  <2>1. /\ pc[t] = "grant" /\ pc'[t] = "answer" /\ used' = used + tmp[t]
        /\ untested' = untested
    BY <1>7 DEF Insert, At, Goto, TypeInv, ThreadType, sync
  <2>2. Pend(t) = tmp[t] /\ Pend(t)' = 0
    BY <2>1 DEF Pend
  <2> QED BY <1>0, <2>1, <2>2
<1>8. CASE Apply(t)
  <2>1. pc[t] = "apply" /\ pc'[t] = "save" /\ used' = used + inc[t] /\ untested' = untested
    BY <1>8 DEF Apply, At, Goto, TypeInv, ThreadType, sync
  <2>2. Pend(t) = (IF inc[t] > 0 THEN inc[t] ELSE 0) /\ Pend(t)' = 0
    BY <2>1 DEF Pend
  <2> QED BY <1>0, <2>1, <2>2
<1>9. CASE Jettison(t)
  <2>1. arr[t] \in Arrays
    BY <1>9, Holding DEF Jettison, At, Bare, Asking
  <2>2. size[arr[t]] \in Nat
    BY <2>1, SizesType DEF TypeInv
  <2>3. used' <= used /\ untested' = untested
    BY <1>0, <1>9, <2>2 DEF Jettison
  <2>4. pc'[t] \in {"idle", "forget"}
    BY <1>9 DEF Jettison, Done, Goto, TypeInv, ThreadType
  <2>5. Pend(t)' = 0
    BY <1>2, <2>4
  <2> QED BY <1>1, <2>3, <2>5
<1>10. CASE Undefined(t)
  <2>1. UNCHANGED <<pc, tmp, inc, used, untested>>
    BY <1>10 DEF Undefined, locals, sync
  <2>2. Pend(t)' = Pend(t)
    BY <2>1 DEF Pend
  <2> QED BY <1>0, <1>1, <2>1, <2>2
<1>11. CASE \/ Answer(t) \/ Number(t) \/ AddRecord(t) \/ Decode(t) \/ Reject(t)
            \/ RefuseRecovering(t) \/ BeginStore(t) \/ BeginRead(t) \/ BeginManage(t)
            \/ Store(t) \/ SaveStore(t) \/ EndRead(t) \/ Release(t) \/ Drop(t) \/ Check(t)
            \/ Unlock(t) \/ Resave(t) \/ Forget(t) \/ Incr(t) \/ Decr(t) \/ Save(t)
            \/ Full(t) \/ BeginWait(t) \/ TimeOut(t) \/ Leave(t)
  <2>1. used' = used /\ untested' = untested
    BY <1>11
       DEF Answer, Number, AddRecord, Decode, Reject, RefuseRecovering, BeginStore, BeginRead,
           BeginManage, Store, SaveStore, EndRead, Release, Drop, Check, Unlock, Resave, Forget,
           Incr, Decr, Save, Full, BeginWait, TimeOut, Leave, sync
  <2>2. pc'[t] \notin {"let", "grant", "apply"}
    BY <1>11
       DEF Answer, Number, AddRecord, Decode, Reject, RefuseRecovering, BeginStore, BeginRead,
           BeginManage, Store, SaveStore, EndRead, Release, Drop, Check, Unlock, Resave, Forget,
           Incr, Decr, Save, Full, BeginWait, TimeOut, Leave, Done, Goto, TypeInv, ThreadType
  <2>3. Pend(t)' = 0
    BY <1>2, <2>2
  <2> QED BY <1>0, <1>1, <2>1, <2>3
<1>12. CASE EndWait(t)
  <2> USE DEF TypeInv, ThreadType
  <2>1. used' = used
    BY <1>12 DEF EndWait
  <2>2. CASE untested' = untested /\ pc'[t] \in {"idle", "last", "again"}
    BY <1>1, <1>2, <1>0, <2>1, <2>2
  <2>3. CASE pc[t] = "cond" /\ pc'[t] = "let" /\ tmp' = tmp /\ untested' = untested + tmp[t]
    <3>1. Pend(t) = 0 /\ Pend(t)' = tmp[t]
      BY <2>3 DEF Pend
    <3>2. tmp[t] <= LargestGrowth
      BY <2>3, Growth DEF ThreadShape, Bare, Asking
    <3> QED BY <1>0, <2>1, <2>3, <3>1, <3>2
  <2> QED BY <1>12, <2>2, <2>3 DEF EndWait, At, Done, Goto
<1>13. CASE EndNeed(t)
  <2>1. used' = used /\ untested' = untested
    BY <1>13 DEF EndNeed
  <2>2. Pend(t)' = 0 \/ Pend(t)' = Pend(t)
    BY <1>2, <1>13 DEF EndNeed, At, Done, Goto, Pend, TypeInv, ThreadType
  <2> QED BY <1>0, <1>1, <2>1, <2>2
<1> QED BY <1>4, <1>5, <1>6, <1>7, <1>8, <1>9, <1>10, <1>11, <1>12, <1>13 DEF Serves, Syncs

LEMMA PromisedStep ==
    ASSUME TypeInv, Phased, Promised, Next
    PROVE  Promised'
<1> SUFFICES ASSUME crashes' = 0 PROVE Promised'
  BY DEF Promised
<1>0. TypeInv'
  BY TypeStep
<1>1. ASSUME NEW t \in Threads, Serves(t)
      PROVE  Promised'
  <2>1. crashes = 0
    BY <1>1, ServesClock
  <2>2. ASSUME NEW a \in Arrays, mem'[a] \in {"live", "dying"}
        PROVE  size'[a] \in Grown
    <3>1. mem[a] \in {"live", "dying"} \/ (Insert(t) /\ arr'[t] = a /\ mem[a] = "none")
      BY <1>1, <2>2, ServesMem DEF TypeInv, ArrayType
    <3>2. CASE mem[a] \in {"live", "dying"}
      <4>1. size[a] \in Grown
        BY <2>1, <3>2 DEF Promised
      <4>2. Apply(t) => tmp[t] \in Grown
        BY DEF Apply, At, TypeInv, ThreadShape, Grown
      <4> QED BY <1>1, <2>2, <3>2, <4>1, <4>2, ServesSize
    <3>3. CASE Insert(t) /\ arr'[t] = a
      <4>1. PICK b \in Arrays : arr' = [arr EXCEPT ![t] = b] /\ size' = [size EXCEPT ![b] = tmp[t]]
        BY <3>3 DEF Insert
      <4>2. b = a /\ size'[a] = tmp[t] /\ tmp[t] \in Sizes
        BY <3>3, <4>1 DEF Insert, At, TypeInv, ThreadType, ThreadShape, ArrayType, Bare, Asking
      <4> QED BY <4>2 DEF Grown
    <3> QED BY <3>1, <3>2, <3>3
  <2>3. \A u \in Threads : u # t => Pend(u)' = Pend(u)
    BY <1>1, ServesOthers DEF Pend
  <2>4. /\ Total(Pends, Growers)' = Total(Pends, Growers) - Pend(t) + Pend(t)'
        /\ Total(Pends, Growers)' \in Int
    BY <1>0, <2>3, PendsChange
  <2> DEFINE L == LargestGrowth
             limit == StableStorage + (Cardinality(Growers) - 1) * L
             sum == Total(Pends, Growers)
             rest == Total(Pends, Growers \ {t})
  <2>5. \A u \in Threads : Pend(u) <= L
    BY <2>1 DEF Promised
  <2>6. used + sum <= limit + untested
    BY <2>1 DEF Promised
  <2>7. /\ used \in Int /\ used' \in Int /\ sum \in Nat /\ Pend(t) \in Nat /\ Pend(t)' \in Int
        /\ L \in Nat /\ StableStorage \in Int /\ limit \in Int
        /\ untested \in Nat /\ untested' \in Nat
    <3>1. used \in Int /\ used' \in Int /\ untested \in Nat /\ untested' \in Nat
      BY <1>0 DEF TypeInv, ArrayType, SyncType
    <3>2. sum \in Nat /\ Pend(t) \in Nat
      BY PendSum, PendType
    <3>3. Pend(t)' \in Int
      <4>1. (TypeInv => \A u \in Threads : Pends[u] = Pend(u) /\ Pend(u) \in Nat
                                           /\ (Pend(u) # 0 => u \in Growers))'
        BY PendTypes, PTL
      <4> QED BY <1>0, <4>1
    <3>4. L \in Nat /\ Cardinality(Growers) \in Nat /\ StableStorage \in Int
      BY Growth, Growing, Sizings
    <3> HIDE DEF L, sum
    <3>5. limit \in Int
      BY <3>4
    <3> QED BY <3>1, <3>2, <3>3, <3>4, <3>5
  <2>8. CASE used' + Pend(t)' - untested' <= used + Pend(t) - untested /\ Pend(t)' <= L
    <3>1. used' + sum' <= limit + untested'
      <4> HIDE DEF L, limit, sum
      <4>1. sum' = sum - Pend(t) + Pend(t)'
        BY <2>4 DEF sum
      <4> QED BY <2>6, <2>7, <2>8, <4>1
    <3>2. \A u \in Threads : Pend(u)' <= L
      BY <2>3, <2>5, <2>8
    <3> QED BY <2>2, <3>1, <3>2 DEF Promised
  <2>9. CASE t \in Growers /\ Pend(t)' <= L /\ used' + Pend(t)' <= StableStorage
    <3>1. sum = Pend(t) + rest /\ rest \in Nat
      BY <2>9, PendSum
    <3>2. rest <= (Cardinality(Growers) - 1) * L
      <4> DEFINE R == Growers \ {t}
      <4>1. IsFiniteSet(R) /\ R \in SUBSET Threads /\ Cardinality(R) = Cardinality(Growers) - 1
        BY <2>9, Growing, FS_RemoveElement
      <4>2. \A u \in R : Pends[u] \in Int /\ Pends[u] <= L
        BY <2>5, <4>1, PendType
      <4>3. Total(Pends, R) <= Cardinality(R) * L
        <5> HIDE DEF R, L
        <5> QED BY <2>7, <4>1, <4>2, TotalBound
      <4> QED BY <4>1, <4>3
    <3>3. used' + sum' <= limit + untested'
      <4> DEFINE x == (Cardinality(Growers) - 1) * L
      <4>1. x \in Int /\ limit = StableStorage + x /\ rest <= x
        BY <2>7, <3>2, Growing
      <4>2. sum' = sum - Pend(t) + Pend(t)'
        BY <2>4
      <4> HIDE DEF L, limit, sum, rest, x
      <4> QED BY <2>7, <2>9, <3>1, <4>1, <4>2
    <3>4. \A u \in Threads : Pend(u)' <= L
      BY <2>3, <2>5, <2>9
    <3> QED BY <2>2, <3>3, <3>4 DEF Promised
  <2> QED BY <1>0, <1>1, <2>1, <2>8, <2>9, ServesPromise
<1>2. ASSUME UNCHANGED <<crashes, mem, size, used, pc, tmp, inc, untested>>
      PROVE  Promised'
  <2>1. Pends' = Pends /\ \A t \in Threads : Pend(t)' = Pend(t)
    BY <1>2 DEF Pends, Pend
  <2> QED BY <1>2, <2>1 DEF Promised
<1>3. CASE Crash
  BY <1>3 DEF Crash, TypeInv, ClockType
<1>4. CASE BeginRecovery \/ SkipRecord \/ RestoreRecord \/ EndRecovery \/ RecoverFinish
  BY <1>4 DEF BeginRecovery, SkipRecord, RestoreRecord, EndRecovery, RecoverFinish, clock, Phased,
              TypeInv, ClockType
<1>5. CASE Tick \/ Waits
  BY <1>2, <1>5 DEF Tick, Waits, vars, arrays, fields, locals, clock, sync
<1> QED BY <1>1, <1>3, <1>4, <1>5 DEF Next

-----------------------------------------------------------------------------
(* Where the records are                                                   *)

\* At most one thread may allocate: two could take their numbers in one order and
\* append their records in the other.
SingleAllocator == \A t, u \in Threads : "allocate" \in Does[t] \cap Does[u] => t = u

Works == phase \in {"up", "loading", "recovering"}
InTable(a) == mem[a] \in {"live", "dying"}
Recorder(t) == pc[t] = "record"
Saving(a) == \E t \in Threads : pc[t] = "save" /\ arr[t] = a

\* The first record of an array is part of its allocation.
Allocates == \A t \in Threads : Recording(t) => op[t] = "allocate"

\* The next number is that of the next record, but for the one that is under way.
Numbered ==
    Works => next = Len(lss) + IF \E t \in Threads : Recorder(t) THEN 2 ELSE 1

\* The index of an array is that of a record, or of the one that is under way.
Indexed ==
    Works =>
        /\ \A a \in Arrays : ~InTable(a) => index[a] = 0
        /\ \A a \in Arrays : \/ index[a] \in DOMAIN lss \/ index[a] = 0
                             \/ \E t \in Threads : Recorder(t) /\ arr[t] = a
        /\ \A t \in Threads : Recorder(t) /\ InTable(arr[t]) => index[arr[t]] = next - 1

\* The record at the index of an array is its own, and up to date.
Truthful ==
    Works =>
        \A a \in Arrays : InTable(a) /\ index[a] \in DOMAIN lss =>
            /\ lss[index[a]].key = a /\ lss[index[a]].valid
            /\ ~Saving(a) => lss[index[a]].ends = ends[a]

Placed == Allocates /\ Numbered /\ Indexed /\ Truthful

LEMMA AllocatesStep == ASSUME TypeInv, Phased, Allocates, Next PROVE Allocates'
<1>1. ASSUME NEW t \in Threads, Serves(t)
      PROVE  Allocates'
  <2> SUFFICES ASSUME NEW u \in Threads, Recording(u)'
               PROVE  op'[u] = "allocate"
    BY DEF Allocates
  <2>1. CASE u # t
    <3>1. pc'[u] = pc[u] /\ op'[u] = op[u]
      BY <1>1, <2>1, ServesOthers
    <3> QED BY <3>1 DEF Allocates, Recording
  <2>2. CASE u = t
    <3>1. Recording(t) \/ Insert(t)
      BY <1>1, <2>2, ServesRecording
    <3>2. CASE Recording(t)
      <4>1. op'[t] = op[t]
        BY <1>1, <2>2, <3>2, ServesHand DEF Recording, Bare, Asking
      <4> QED BY <2>2, <3>2, <4>1 DEF Allocates
    <3>3. CASE Insert(t)
      BY <2>2, <3>3 DEF Insert, At, TypeInv, ThreadShape, Bare, Asking
    <3> QED BY <3>1, <3>2, <3>3
  <2> QED BY <2>1, <2>2
<1>2. CASE Crash
  BY <1>2 DEF Crash, Allocates, Recording
<1>3. CASE \/ BeginRecovery \/ SkipRecord \/ RestoreRecord \/ EndRecovery \/ RecoverFinish
           \/ Tick \/ Waits
  BY <1>3 DEF BeginRecovery, SkipRecord, RestoreRecord, EndRecovery, RecoverFinish, Tick, Waits,
              vars, locals, Allocates, Recording
<1> QED BY <1>1, <1>2, <1>3 DEF Next

\* One thread at a time writes a first record.
LEMMA OneRecorder ==
    ASSUME SingleAllocator, TypeInv, Allocates, NEW t \in Threads, NEW u \in Threads,
           Recording(t), Recording(u)
    PROVE  t = u
BY DEF Allocates, Recording, SingleAllocator, TypeInv, ThreadShape

\* Steps that leave the records and their places alone.
LEMMA QuietStep ==
    ASSUME Works, Numbered, Indexed, Truthful, UNCHANGED <<lss, index, next, ends>>,
           \A a \in Arrays : InTable(a)' <=> InTable(a),
           \A t \in Threads : Recorder(t)' <=> Recorder(t),
           \A t \in Threads : Recorder(t) => arr'[t] = arr[t] /\ arr[t] \in Arrays,
           \A a \in Arrays : Saving(a) => Saving(a)'
    PROVE  Numbered' /\ Indexed' /\ Truthful'
<1>1. Numbered'
  BY DEF Numbered
<1>2. Indexed'
  BY DEF Indexed
<1>3. Truthful'
  BY DEF Truthful
<1> QED BY <1>1, <1>2, <1>3

\* Arrays go: their records become invalid, and nobody else's.
LEMMA SweptStep ==
    ASSUME TypeInv, Works, Numbered, Indexed, Truthful, NEW S \in SUBSET Arrays,
           \A a \in S : InTable(a), \A a \in S : ~NoRecord(a),
           lss' = Invalidated(S), Erased(S), next' = next,
           \A t \in Threads : Recorder(t)' <=> Recorder(t),
           \A t \in Threads : Recorder(t) => arr'[t] = arr[t] /\ arr[t] \in Arrays,
           \A a \in Arrays : Saving(a) => Saving(a)'
    PROVE  Numbered' /\ Indexed' /\ Truthful'
<1>1. DOMAIN lss' = DOMAIN lss /\ Len(lss') = Len(lss) /\ DOMAIN lss = 1 .. Len(lss)
  <2>1. lss \in Seq(Records) /\ lss' \in Seq(Records) /\ DOMAIN lss' = DOMAIN lss
    BY InvalidatedType DEF TypeInv, FileType
  <2>2. DOMAIN lss = 1 .. Len(lss) /\ DOMAIN lss' = 1 .. Len(lss') /\ Len(lss) \in Nat /\ Len(lss') \in Nat
    BY <2>1
  <2>3. Len(lss') = Len(lss)
    <3> DEFINE m == Len(lss)
               n == Len(lss')
    <3>1. 1 .. m = 1 .. n /\ m \in Nat /\ n \in Nat
      BY <2>1, <2>2
    <3> HIDE DEF m, n
    <3>2. m = n
      BY <3>1
    <3> QED BY <3>2 DEF m, n
  <2> QED BY <2>1, <2>2, <2>3
<1>2. \A a \in Arrays : a \in S => index'[a] = 0 /\ ~InTable(a)'
  BY DEF Erased, InTable
<1>3. \A a \in Arrays : a \notin S => /\ index'[a] = index[a] /\ ends'[a] = ends[a]
                                      /\ InTable(a)' <=> InTable(a)
  BY DEF Erased, InTable
<1>4. Numbered'
  BY <1>1 DEF Numbered
<1>5. Indexed'
  BY <1>1, <1>2, <1>3 DEF Indexed
<1>6. ASSUME NEW a \in Arrays, InTable(a)', index'[a] \in DOMAIN lss'
      PROVE  lss'[index'[a]] = lss[index[a]] /\ InTable(a) /\ index[a] \in DOMAIN lss
                /\ ends'[a] = ends[a]
  <2>1. a \notin S /\ index'[a] = index[a] /\ InTable(a) /\ index[a] \in DOMAIN lss /\ ends'[a] = ends[a]
    BY <1>1, <1>2, <1>3, <1>6
  <2>2. \A b \in S : index[b] # index[a]
    <3> TAKE b \in S
    <3>1. InTable(b) /\ index[b] \in DOMAIN lss /\ b # a /\ b \in Arrays
      BY <2>1 DEF NoRecord
    <3>2. lss[index[b]].key = b /\ lss[index[a]].key = a
      BY <2>1, <3>1 DEF Truthful
    <3> QED BY <3>1, <3>2
  <2>3. Invalidated(S)[index[a]] = lss[index[a]]
    BY <2>1, <2>2 DEF Invalidated
  <2> QED BY <2>1, <2>3
<1>7. Truthful'
  <2> SUFFICES ASSUME NEW a \in Arrays, InTable(a)', index'[a] \in DOMAIN lss'
               PROVE  /\ lss'[index'[a]].key = a /\ lss'[index'[a]].valid
                      /\ ~Saving(a)' => lss'[index'[a]].ends = ends'[a]
    BY DEF Truthful
  <2> QED BY <1>6 DEF Truthful
<1> QED BY <1>4, <1>5, <1>7

\* The record of an array is written again.
LEMMA RewriteStep ==
    ASSUME TypeInv, Works, Numbered, Indexed, Truthful, NEW a \in Arrays,
           InTable(a), ~NoRecord(a), lss' = Rewritten(a), UNCHANGED <<index, next, ends, mem>>,
           \A t \in Threads : Recorder(t)' <=> Recorder(t),
           \A t \in Threads : Recorder(t) => arr'[t] = arr[t] /\ arr[t] \in Arrays,
           \A b \in Arrays : b # a /\ Saving(b) => Saving(b)'
    PROVE  Numbered' /\ Indexed' /\ Truthful'
<1>0. /\ lss' \in Seq(Records) /\ DOMAIN lss' = DOMAIN lss
      /\ \A i \in DOMAIN lss : lss'[i].key = lss[i].key
      /\ \A i \in DOMAIN lss : i # index[a] => lss'[i] = lss[i]
      /\ lss'[index[a]].valid /\ lss'[index[a]].ends = ends[a]
  BY RewrittenType DEF TypeInv
<1>1. Len(lss') = Len(lss)
  <2> DEFINE m == Len(lss)
             n == Len(lss')
  <2>1. lss \in Seq(Records)
    BY DEF TypeInv, FileType
  <2>2. 1 .. m = 1 .. n /\ m \in Nat /\ n \in Nat
    BY <1>0, <2>1
  <2> HIDE DEF m, n
  <2>3. m = n
    BY <2>2
  <2> QED BY <2>3 DEF m, n
<1>2. \A b \in Arrays : InTable(b)' <=> InTable(b)
  BY DEF InTable
<1>3. Numbered'
  BY <1>1 DEF Numbered
<1>4. Indexed'
  BY <1>0, <1>2 DEF Indexed
<1>5. Truthful'
  <2> SUFFICES ASSUME NEW b \in Arrays, InTable(b)', index'[b] \in DOMAIN lss'
               PROVE  /\ lss'[index'[b]].key = b /\ lss'[index'[b]].valid
                      /\ ~Saving(b)' => lss'[index'[b]].ends = ends'[b]
    BY DEF Truthful
  <2>1. InTable(b) /\ index[b] \in DOMAIN lss /\ index'[b] = index[b] /\ ends'[b] = ends[b]
    BY <1>0, <1>2
  <2>2. lss[index[b]].key = b /\ lss[index[b]].valid /\ (~Saving(b) => lss[index[b]].ends = ends[b])
    BY <2>1 DEF Truthful
  <2>3. CASE b = a
    BY <1>0, <2>1, <2>2, <2>3
  <2>4. CASE b # a
    <3>1. lss[index[a]].key = a
      BY DEF Truthful, NoRecord
    <3>2. index[b] # index[a]
      BY <2>2, <2>4, <3>1
    <3>3. lss'[index[b]] = lss[index[b]]
      BY <1>0, <2>1, <3>2
    <3> QED BY <2>1, <2>2, <2>4, <3>3
  <2> QED BY <2>3, <2>4
<1> QED BY <1>3, <1>4, <1>5

\* Only Number and AddRecord begin and end the writing of a first record.
LEMMA ServesPlaces ==
    ASSUME TypeInv, NEW t \in Threads, Serves(t), ~Number(t), ~AddRecord(t), ~Undefined(t)
    PROVE  /\ \A u \in Threads : Recorder(u)' <=> Recorder(u)
           /\ \A u \in Threads : Recorder(u) => arr'[u] = arr[u] /\ arr[u] \in Arrays
           /\ \A a \in Arrays : Saving(a) => Saving(a)' \/ (Save(t) /\ arr[t] = a)
<1>1. pc[t] # "record" /\ pc'[t] # "record"
  <2> USE DEF TypeInv, ThreadType
  <2>1. CASE Asks(t) \/ Chng(t) \/ Truncate(t)
    BY <2>1, AskStep, AskLocals, ChngStep, TruncateStep DEF Asked, Changes, Done, Goto
  <2>2. CASE Moves(t)
    BY <2>2, MoveStep DEF Asking, Done, Goto
  <2>3. CASE ~(Asks(t) \/ Chng(t) \/ Truncate(t) \/ Moves(t))
    BY <2>3 DEF Serves, Moves, Insert, Answer, Decode, Reject, RefuseRecovering, Accepted,
                BeginStore, BeginRead, BeginManage, Store, SaveStore, EndRead, Release, Drop,
                Check, Unlock, Resave, Jettison, Forget, Incr, Decr, Apply, Save, Done, Goto, At
  <2> QED BY <2>1, <2>2, <2>3
<1>2. pc[t] = "save" => Save(t)
  <2>1. CASE Asks(t) \/ Chng(t) \/ Truncate(t)
    BY <2>1, AskStep, ChngStep, TruncateStep
  <2>2. CASE Moves(t)
    BY <2>2, MoveStep DEF Asking
  <2>3. CASE ~(Asks(t) \/ Chng(t) \/ Truncate(t) \/ Moves(t))
    BY <2>3 DEF Serves, Moves, Insert, Answer, Decode, Reject, RefuseRecovering, Accepted,
                BeginStore, BeginRead, BeginManage, Store, SaveStore, EndRead, Release, Drop,
                Check, Unlock, Resave, Jettison, Forget, Incr, Decr, Apply, Save, At
  <2> QED BY <2>1, <2>2, <2>3
<1>3. \A u \in Threads : u # t => pc'[u] = pc[u] /\ arr'[u] = arr[u]
  BY ServesOthers
<1>4. \A u \in Threads : Recorder(u)' <=> Recorder(u)
  BY <1>1, <1>3 DEF Recorder
<1>5. \A u \in Threads : Recorder(u) => arr'[u] = arr[u] /\ arr[u] \in Arrays
  BY <1>1, <1>3, Holding DEF Recorder, Bare, Asking
<1>6. ASSUME NEW a \in Arrays, Saving(a)
      PROVE  Saving(a)' \/ (Save(t) /\ arr[t] = a)
  <2>1. PICK u \in Threads : pc[u] = "save" /\ arr[u] = a
    BY <1>6 DEF Saving
  <2>2. CASE u = t
    BY <1>2, <2>1, <2>2
  <2>3. CASE u # t
    BY <1>3, <2>1, <2>3 DEF Saving
  <2> QED BY <2>2, <2>3
<1> QED BY <1>4, <1>5, <1>6

LEMMA ServesPlaced ==
    ASSUME SingleAllocator, TypeInv, Held, Placed, Works, NEW t \in Threads, Serves(t), ~Undefined(t)
    PROVE  Numbered' /\ Indexed' /\ Truthful'
<1> USE DEF Placed
<1>1. CASE Number(t)
  <2> DEFINE a == arr[t]
  <2>1. /\ pc[t] = "number" /\ InTable(a) /\ index' = [index EXCEPT ![a] = next]
        /\ next' = next + 1 /\ pc' = [pc EXCEPT ![t] = "record"]
        /\ UNCHANGED <<lss, ends, mem, arr>>
    BY <1>1 DEF Number, At, Usable, InTable, Position, Goto, files
  <2>2. a \in Arrays
    BY <2>1, Holding DEF Bare, Asking
  <2>3. \A u \in Threads : ~Recorder(u)
    <3>1. ASSUME NEW u \in Threads, Recorder(u)
          PROVE  FALSE
      <4>1. u = t
        BY <2>1, <3>1, OneRecorder DEF Recording, Recorder
      <4> QED BY <2>1, <3>1, <4>1 DEF Recorder
    <3> QED BY <3>1
  <2>4. \A u \in Threads : Recorder(u)' <=> u = t
    BY <2>1, <2>3 DEF Recorder, TypeInv, ThreadType
  <2>5. lss \in Seq(Records) /\ next = Len(lss) + 1 /\ next \in Nat /\ next \notin DOMAIN lss
    <3>1. lss \in Seq(Records)
      BY DEF TypeInv, FileType
    <3>2. next = Len(lss) + 1
      BY <2>3 DEF Numbered
    <3>3. next \notin DOMAIN lss
      BY <3>1, <3>2
    <3> QED BY <3>1, <3>2, <3>3
  <2>6. \A b \in Arrays : /\ index'[b] = (IF b = a THEN next ELSE index[b])
                          /\ InTable(b)' <=> InTable(b)
                          /\ ends'[b] = ends[b]
    BY <2>1, <2>2 DEF TypeInv, ArrayType, InTable
  <2>7. Numbered'
    <3>1. next' = Len(lss) + 2
      BY <2>1, <2>5
    <3>2. \E u \in Threads : Recorder(u)'
      BY <2>4
    <3> QED BY <2>1, <3>1, <3>2 DEF Numbered
  <2>8. Indexed'
    <3>1. \A b \in Arrays : ~InTable(b)' => index'[b] = 0
      BY <2>1, <2>6 DEF Indexed
    <3>2. \A b \in Arrays : \/ index'[b] \in DOMAIN lss' \/ index'[b] = 0
                            \/ \E u \in Threads : Recorder(u)' /\ arr'[u] = b
      <4> TAKE b \in Arrays
      <4>1. CASE b = a
        BY <2>1, <2>4, <4>1
      <4>2. CASE b # a
        BY <2>1, <2>3, <2>6, <4>2 DEF Indexed
      <4> QED BY <4>1, <4>2
    <3>3. \A u \in Threads : Recorder(u)' /\ InTable(arr[u])' => index'[arr'[u]] = next' - 1
      <4>1. index'[a] = next' - 1
        BY <2>1, <2>2, <2>5, <2>6
      <4> QED BY <2>1, <2>4, <4>1
    <3> QED BY <3>1, <3>2, <3>3 DEF Indexed
  <2>9. Truthful'
    <3> SUFFICES ASSUME NEW b \in Arrays, InTable(b)', index'[b] \in DOMAIN lss'
                 PROVE  /\ lss'[index'[b]].key = b /\ lss'[index'[b]].valid
                        /\ ~Saving(b)' => lss'[index'[b]].ends = ends'[b]
      BY DEF Truthful
    <3>1. b # a
      BY <2>1, <2>5, <2>6
    <3>2. index'[b] = index[b] /\ InTable(b) /\ ends'[b] = ends[b]
      BY <2>6, <3>1
    <3>3. Saving(b) => Saving(b)'
      BY <2>1 DEF Saving, TypeInv, ThreadType
    <3> QED BY <2>1, <3>2, <3>3 DEF Truthful
  <2> QED BY <2>7, <2>8, <2>9
<1>2. CASE AddRecord(t)
  <2> DEFINE a == arr[t]
             n == Len(lss) + 1
  <2>1. /\ pc[t] = "record" /\ InTable(a) /\ lss' = Append(lss, Record(a))
        /\ pc' = [pc EXCEPT ![t] = "truncate"] /\ UNCHANGED <<index, next, ends, mem, arr>>
    BY <1>2 DEF AddRecord, At, Usable, InTable, Goto, arrays, fields
  <2>2. a \in Arrays
    BY <2>1, Holding DEF Bare, Asking
  <2>3. Recorder(t) /\ \A u \in Threads : Recorder(u) => u = t
    BY <2>1, OneRecorder DEF Recording, Recorder
  <2>4. \A u \in Threads : ~Recorder(u)'
    BY <2>1, <2>3 DEF Recorder, TypeInv, ThreadType
  <2>5. next = n + 1 /\ index[a] = n /\ n \in Nat /\ n # 0
    <3>1. lss \in Seq(Records)
      BY DEF TypeInv, FileType
    <3>2. next = Len(lss) + 2
      BY <2>3 DEF Numbered
    <3>3. index[a] = next - 1
      BY <2>1, <2>3 DEF Indexed
    <3>4. Len(lss) \in Nat
      BY <3>1
    <3> QED BY <3>2, <3>3, <3>4
  <2>6. /\ lss' \in Seq(Records) /\ Len(lss') = n /\ DOMAIN lss' = 1 .. n /\ DOMAIN lss = 1 .. n - 1
        /\ lss'[n] = Record(a) /\ \A i \in DOMAIN lss : lss'[i] = lss[i]
    <3>1. lss \in Seq(Records)
      BY DEF TypeInv, FileType
    <3>2. Record(a) \in Records
      BY <2>2 DEF Record, Records, TypeInv, ArrayType
    <3> QED BY <2>1, <3>1, <3>2
  <2> HIDE DEF n
  <2>7. Numbered'
    <3>1. ~\E u \in Threads : Recorder(u)'
      BY <2>4
    <3>2. next' = Len(lss') + 1
      BY <2>1, <2>5, <2>6
    <3> QED BY <3>1, <3>2 DEF Numbered
  <2>8. n \in DOMAIN lss' /\ DOMAIN lss \subseteq DOMAIN lss' /\ n \in Int /\ n # 0
    BY <2>5, <2>6
  <2>9. Indexed'
    <3>1. \A b \in Arrays : ~InTable(b)' => index'[b] = 0
      BY <2>1 DEF Indexed, InTable
    <3>2. \A b \in Arrays : index'[b] \in DOMAIN lss' \/ index'[b] = 0
      <4> TAKE b \in Arrays
      <4>1. index[b] \in DOMAIN lss \/ index[b] = 0 \/ b = a
        BY <2>3 DEF Indexed
      <4> QED BY <2>1, <2>5, <2>8, <4>1
    <3> QED BY <2>4, <3>1, <3>2 DEF Indexed
  <2>10. Truthful'
    <3> SUFFICES ASSUME NEW b \in Arrays, InTable(b)', index'[b] \in DOMAIN lss'
                 PROVE  /\ lss'[index'[b]].key = b /\ lss'[index'[b]].valid
                        /\ ~Saving(b)' => lss'[index'[b]].ends = ends'[b]
      BY DEF Truthful
    <3>1. CASE b = a
      <4>1. lss'[index'[b]] = Record(a)
        BY <2>1, <2>5, <2>6, <3>1
      <4>2. Record(a).key = a /\ Record(a).valid /\ Record(a).ends = ends[a]
        BY DEF Record
      <4> QED BY <2>1, <3>1, <4>1, <4>2
    <3>2. CASE b # a
      <4>1. index[b] \in DOMAIN lss
        <5>1. index[b] \in DOMAIN lss \/ index[b] = 0
          BY <2>3, <3>2 DEF Indexed
        <5>2. 0 \notin DOMAIN lss'
          BY <2>6
        <5> QED BY <2>1, <5>1, <5>2
      <4>2. InTable(b) /\ index'[b] = index[b] /\ ends'[b] = ends[b]
        BY <2>1 DEF InTable
      <4>3. Saving(b) => Saving(b)'
        BY <2>1 DEF Saving, TypeInv, ThreadType
      <4>4. lss'[index[b]] = lss[index[b]]
        BY <2>6, <4>1
      <4> QED BY <4>1, <4>2, <4>3, <4>4 DEF Truthful
    <3> QED BY <3>1, <3>2
  <2> QED BY <2>7, <2>9, <2>10
<1>3. CASE Insert(t)
  <2>1. PICK a \in Arrays :
            /\ Fresh(a) /\ mem' = [mem EXCEPT ![a] = "live"]
            /\ ends' = [ends EXCEPT ![a] = now + Lifetime]
    BY <1>3 DEF Insert
  <2>2. UNCHANGED <<lss, index, next>>
    BY <1>3 DEF Insert, files
  <2>3. \A b \in Arrays : b # a => /\ InTable(b)' <=> InTable(b)
                                   /\ ends'[b] = ends[b]
    BY <2>1 DEF TypeInv, ArrayType, InTable
  <2>4. ~InTable(a) /\ index[a] = 0
    BY <2>1 DEF Fresh, InTable, Indexed
  <2>5. /\ \A u \in Threads : Recorder(u)' <=> Recorder(u)
        /\ \A u \in Threads : Recorder(u) => arr'[u] = arr[u] /\ arr[u] \in Arrays
        /\ \A b \in Arrays : Saving(b) => Saving(b)'
    BY <1>3, ServesPlaces DEF Insert, Save, Number, AddRecord, At
  <2>6. \A u \in Threads : Recorder(u) => arr[u] # a
    BY <2>1 DEF Recorder, Held, Fresh, Bare, Asking
  <2>7. 0 \notin DOMAIN lss
    <3>1. lss \in Seq(Records)
      BY DEF TypeInv, FileType
    <3> QED BY <3>1
  <2>8. Numbered'
    BY <2>2, <2>5 DEF Numbered
  <2>9. Indexed'
    <3>1. \A b \in Arrays : ~InTable(b)' => index'[b] = 0
      BY <2>2, <2>3, <2>4 DEF Indexed
    <3>2. \A b \in Arrays : \/ index'[b] \in DOMAIN lss' \/ index'[b] = 0
                            \/ \E u \in Threads : Recorder(u)' /\ arr'[u] = b
      BY <2>2, <2>5 DEF Indexed
    <3>3. \A u \in Threads : Recorder(u)' /\ InTable(arr[u])' => index'[arr'[u]] = next' - 1
      BY <2>2, <2>3, <2>5, <2>6 DEF Indexed
    <3> QED BY <3>1, <3>2, <3>3 DEF Indexed
  <2>10. Truthful'
    <3> SUFFICES ASSUME NEW b \in Arrays, InTable(b)', index'[b] \in DOMAIN lss'
                 PROVE  /\ lss'[index'[b]].key = b /\ lss'[index'[b]].valid
                        /\ ~Saving(b)' => lss'[index'[b]].ends = ends'[b]
      BY DEF Truthful
    <3>1. b # a
      BY <2>2, <2>4, <2>7
    <3> QED BY <2>2, <2>3, <2>5, <3>1 DEF Truthful
  <2> QED BY <2>8, <2>9, <2>10
<1>4. CASE Apply(t)
  <2> DEFINE a == arr[t]
  <2>1. /\ ends' = [ends EXCEPT ![a] = now + Lifetime] /\ pc' = [pc EXCEPT ![t] = "save"]
        /\ UNCHANGED <<lss, index, next, mem, arr>> /\ pc[t] = "apply"
    BY <1>4 DEF Apply, At, Goto, files
  <2>2. a \in Arrays
    BY <2>1, Holding DEF Bare, Asking
  <2>3. /\ \A u \in Threads : Recorder(u)' <=> Recorder(u)
        /\ \A u \in Threads : Recorder(u) => arr'[u] = arr[u] /\ arr[u] \in Arrays
        /\ \A b \in Arrays : Saving(b) => Saving(b)'
    BY <2>1, ServesPlaces DEF Save, Number, AddRecord, At
  <2>4. Saving(a)'
    BY <2>1 DEF Saving, TypeInv, ThreadType
  <2>5. \A b \in Arrays : b # a => ends'[b] = ends[b]
    BY <2>1 DEF TypeInv, ArrayType
  <2>6. Numbered'
    BY <2>1, <2>3 DEF Numbered
  <2>7. Indexed'
    BY <2>1, <2>3 DEF Indexed, InTable
  <2>8. Truthful'
    BY <2>1, <2>3, <2>4, <2>5 DEF Truthful, InTable
  <2> QED BY <2>6, <2>7, <2>8
<1>5. CASE SaveStore(t) \/ Resave(t) \/ Save(t)
  <2> DEFINE a == arr[t]
  <2>1. a \in Arrays /\ InTable(a) /\ ~NoRecord(a) /\ lss' = Rewritten(a)
    BY <1>5, Holding DEF SaveStore, Resave, Save, At, Usable, InTable, Bare, Asking
  <2>2. UNCHANGED <<index, next, ends, mem>>
    BY <1>5 DEF SaveStore, Resave, Save, arrays, fields
  <2>3. ~Number(t) /\ ~AddRecord(t)
    BY <1>5 DEF SaveStore, Resave, Save, Number, AddRecord, At
  <2>4. /\ \A u \in Threads : Recorder(u)' <=> Recorder(u)
        /\ \A u \in Threads : Recorder(u) => arr'[u] = arr[u] /\ arr[u] \in Arrays
        /\ \A b \in Arrays : b # a /\ Saving(b) => Saving(b)'
    BY <2>3, ServesPlaces
  <2> HIDE DEF a
  <2> QED BY <2>1, <2>2, <2>4, RewriteStep
<1>6. CASE Asks(t) \/ Chng(t) \/ Truncate(t)
  <2>1. Sweeps /\ next' = next
    BY <1>6, AskStep, ChngStep, TruncateStep
  <2>2. ~Number(t) /\ ~AddRecord(t) /\ ~Save(t)
    BY <1>6, AskStep, ChngStep, TruncateStep DEF Number, AddRecord, Save, At
  <2>3. /\ \A u \in Threads : Recorder(u)' <=> Recorder(u)
        /\ \A u \in Threads : Recorder(u) => arr'[u] = arr[u] /\ arr[u] \in Arrays
        /\ \A b \in Arrays : Saving(b) => Saving(b)'
    BY <2>2, ServesPlaces
  <2>4. CASE UNCHANGED <<arrays, used, lss, lost>>
    <3>1. UNCHANGED <<lss, index, ends, mem>>
      BY <2>4 DEF arrays, fields
    <3>2. \A b \in Arrays : InTable(b)' <=> InTable(b)
      BY <3>1 DEF InTable
    <3> QED BY <2>1, <2>3, <3>1, <3>2, QuietStep
  <2>5. CASE Shrunk(Unused) /\ \A a \in Unused : ~NoRecord(a)
    <3>1. Unused \in SUBSET Arrays /\ \A b \in Unused : InTable(b)
      BY DEF Unused, Expired, Tree, InTable
    <3>2. lss' = Invalidated(Unused) /\ Erased(Unused)
      BY <2>5 DEF Shrunk
    <3> QED BY <2>1, <2>3, <2>5, <3>1, <3>2, SweptStep
  <2> QED BY <2>1, <2>4, <2>5 DEF Sweeps
<1>7. CASE Forget(t)
  <2> DEFINE a == arr[t]
  <2>1. /\ a \in Arrays /\ InTable(a) /\ ~NoRecord(a) /\ lss' = Invalidated({a})
        /\ Erased({a}) /\ next' = next
    BY <1>7, Holding DEF Forget, At, InTable, Bare, Asking
  <2>2. ~Number(t) /\ ~AddRecord(t) /\ ~Save(t)
    BY <1>7 DEF Forget, Number, AddRecord, Save, At
  <2>3. /\ \A u \in Threads : Recorder(u)' <=> Recorder(u)
        /\ \A u \in Threads : Recorder(u) => arr'[u] = arr[u] /\ arr[u] \in Arrays
        /\ \A b \in Arrays : Saving(b) => Saving(b)'
    BY <2>2, ServesPlaces
  <2> HIDE DEF a
  <2>4. {a} \in SUBSET Arrays /\ (\A b \in {a} : InTable(b)) /\ \A b \in {a} : ~NoRecord(b)
    BY <2>1
  <2> QED BY <2>1, <2>3, <2>4, SweptStep
<1>8. CASE \/ Answer(t) \/ Decode(t) \/ Reject(t) \/ RefuseRecovering(t) \/ BeginStore(t)
           \/ BeginRead(t) \/ BeginManage(t) \/ Store(t) \/ EndRead(t) \/ Release(t) \/ Drop(t)
           \/ Check(t) \/ Unlock(t) \/ Jettison(t) \/ Incr(t) \/ Decr(t) \/ Moves(t)
  <2>1. UNCHANGED <<lss, index, next, ends>>
    BY <1>8, MoveStep
       DEF Answer, Decode, Reject, RefuseRecovering, BeginStore, BeginRead, BeginManage,
                Store, EndRead, Release, Drop, Check, Unlock, Jettison, Incr, Decr, arrays,
                fields, files
  <2>2. ~Number(t) /\ ~AddRecord(t) /\ ~Save(t)
    BY <1>8, MoveStep
       DEF Answer, Decode, Reject, RefuseRecovering, BeginStore, BeginRead, BeginManage,
           Accepted, Store, EndRead, Release, Drop, Check, Unlock, Jettison, Incr, Decr,
           Number, AddRecord, Save, At, Asking
  <2>3. /\ \A u \in Threads : Recorder(u)' <=> Recorder(u)
        /\ \A u \in Threads : Recorder(u) => arr'[u] = arr[u] /\ arr[u] \in Arrays
        /\ \A b \in Arrays : Saving(b) => Saving(b)'
    BY <2>2, ServesPlaces
  <2>4. \A b \in Arrays : InTable(b)' <=> InTable(b)
    <3> TAKE b \in Arrays
    <3>1. mem'[b] = mem[b] \/ (mem[b] = "live" /\ mem'[b] = "dying")
      <4>1. CASE Jettison(t)
        BY <4>1 DEF Jettison, TypeInv, ArrayType
      <4>2. CASE ~Jettison(t)
        BY <1>8, <4>2, MoveStep
           DEF Answer, Decode, Reject, RefuseRecovering, BeginStore, BeginRead, BeginManage,
               Store, EndRead, Release, Drop, Check, Unlock, Incr, Decr, arrays
      <4> QED BY <4>1, <4>2
    <3> QED BY <3>1 DEF InTable
  <2> QED BY <2>1, <2>3, <2>4, QuietStep
<1> QED BY <1>1, <1>2, <1>3, <1>4, <1>5, <1>6, <1>7, <1>8 DEF Serves, Moves

LEMMA PlacedStep ==
    ASSUME SingleAllocator, TypeInv, Phased, Held, Placed, Next
    PROVE  Placed'
<1>0. Allocates'
  BY AllocatesStep DEF Placed
<1> SUFFICES ASSUME Works' PROVE Numbered' /\ Indexed' /\ Truthful'
  BY <1>0 DEF Placed, Numbered, Indexed, Truthful
<1>1. ASSUME NEW t \in Threads, Serves(t)
      PROVE  Numbered' /\ Indexed' /\ Truthful'
  <2>1. Works /\ ~Undefined(t)
    BY <1>1, ServesClock DEF Works, Running, Undefined
  <2> QED BY <1>1, <2>1, ServesPlaced
<1>2. CASE Crash
  BY <1>2 DEF Crash, Works
<1>3. CASE BeginRecovery
  <2>1. /\ lss' = << >> /\ next' = 1
        /\ \A t \in Threads : pc'[t] = "idle"
        /\ \A a \in Arrays : index'[a] = 0
    BY <1>3 DEF BeginRecovery, Phased, arrays, fields, locals
  <2>2. Len(lss') = 0 /\ \A i \in DOMAIN lss' : i # 0
    <3>1. Len(<< >>) = 0 /\ << >> \in Seq(Records)
      OBVIOUS
    <3>2. \A i \in DOMAIN << >> : i # 0
      BY <3>1
    <3> QED BY <2>1, <3>1, <3>2
  <2>3. \A t \in Threads : ~Recorder(t)'
    BY <2>1 DEF Recorder
  <2>4. Numbered'
    <3>1. ~\E t \in Threads : Recorder(t)'
      BY <2>3
    <3> QED BY <2>1, <2>2, <3>1 DEF Numbered
  <2>5. Indexed'
    BY <2>1, <2>3 DEF Indexed
  <2>6. Truthful'
    BY <2>1, <2>2 DEF Truthful
  <2> QED BY <2>4, <2>5, <2>6
<1>4. CASE RestoreRecord
  <2> DEFINE r == Head(old)
             a == r.key
             n == Len(lss) + 1
             s == [r EXCEPT !.refs = refs'[a], !.ends = ends'[a]]
  <2>1. /\ old \in Seq(Records) /\ old # << >> /\ lss \in Seq(Records) /\ Works
        /\ \A t \in Threads : pc'[t] = "idle" /\ pc[t] = "idle"
    BY <1>4 DEF RestoreRecord, Phased, TypeInv, FileType, locals, Works
  <2>2. r \in Records
    BY <2>1, TailKeys
  <2>3. a \in Arrays /\ r.valid
    BY <1>4, <2>2 DEF Records, RestoreRecord, Restorable
  <2>4. /\ mem' = [mem EXCEPT ![a] = "live"] /\ index' = [index EXCEPT ![a] = next]
        /\ ends' = [ends EXCEPT ![a] = IF a \in dirty THEN now + Lifetime ELSE r.ends]
        /\ next' = next + 1 /\ lss' = Append(lss, s)
    BY <1>4 DEF RestoreRecord
  <2>5. s \in Records /\ s.key = a /\ s.valid /\ s.ends = ends'[a]
    <3>1. refs'[a] \in Int /\ ends'[a] \in Nat
      <4>1. ArrayType'
        BY <1>4, ArrayTypeStep DEF Next
      <4> QED BY <2>3, <4>1 DEF ArrayType
    <3> HIDE DEF r, a
    <3> QED BY <2>2, <2>3, <3>1 DEF Records, a
  <2>6. \A t \in Threads : ~Recorder(t) /\ ~Recorder(t)'
    BY <2>1 DEF Recorder
  <2>7. next = n /\ n \in Nat /\ n # 0
    <3>1. ~\E t \in Threads : Recorder(t)
      BY <2>6
    <3>2. next = Len(lss) + 1
      BY <2>1, <3>1 DEF Placed, Numbered
    <3>3. Len(lss) \in Nat
      BY <2>1
    <3> QED BY <3>2, <3>3
  <2> HIDE DEF r, a, s
  <2>8. /\ Len(lss') = n /\ DOMAIN lss' = 1 .. n /\ DOMAIN lss = 1 .. n - 1
        /\ lss'[n] = s /\ \A i \in DOMAIN lss : lss'[i] = lss[i]
    BY <2>1, <2>4, <2>5
  <2> HIDE DEF n
  <2>9. n \in DOMAIN lss' /\ DOMAIN lss \subseteq DOMAIN lss' /\ n \notin DOMAIN lss /\ 0 \notin DOMAIN lss'
    BY <2>7, <2>8
  <2>10. /\ index'[a] = n
         /\ \A b \in Arrays : b # a => index'[b] = index[b] /\ ends'[b] = ends[b]
         /\ \A b \in Arrays : b # a => (InTable(b)' <=> InTable(b))
    <3>1. index'[a] = n
      BY <2>3, <2>4, <2>7 DEF TypeInv, ArrayType
    <3>2. \A b \in Arrays : b # a => index'[b] = index[b] /\ ends'[b] = ends[b]
      BY <2>3, <2>4 DEF TypeInv, ArrayType
    <3>3. \A b \in Arrays : b # a => (InTable(b)' <=> InTable(b))
      BY <2>3, <2>4 DEF TypeInv, ArrayType, InTable
    <3> QED BY <3>1, <3>2, <3>3
  <2>11. \A b \in Arrays : ~InTable(b)' => b # a
    <3>1. mem'[a] = "live"
      BY <2>3, <2>4 DEF TypeInv, ArrayType
    <3> QED BY <3>1 DEF InTable
  <2>12. Numbered'
    <3>1. ~\E t \in Threads : Recorder(t)'
      BY <2>6
    <3>2. next' = Len(lss') + 1
      BY <2>4, <2>7, <2>8
    <3> QED BY <3>1, <3>2 DEF Numbered
  <2>13. Indexed'
    <3>1. \A b \in Arrays : ~InTable(b)' => index'[b] = 0
      BY <2>1, <2>10, <2>11 DEF Placed, Indexed
    <3>2. \A b \in Arrays : index'[b] \in DOMAIN lss' \/ index'[b] = 0
      BY <2>1, <2>6, <2>9, <2>10 DEF Placed, Indexed
    <3> QED BY <2>6, <3>1, <3>2 DEF Indexed
  <2>14. Truthful'
    <3> SUFFICES ASSUME NEW b \in Arrays, InTable(b)', index'[b] \in DOMAIN lss'
                 PROVE  /\ lss'[index'[b]].key = b /\ lss'[index'[b]].valid
                        /\ lss'[index'[b]].ends = ends'[b]
      BY DEF Truthful
    <3>1. CASE b = a
      BY <2>5, <2>8, <2>10, <3>1
    <3>2. CASE b # a
      <4>1. InTable(b) /\ index'[b] = index[b] /\ ends'[b] = ends[b]
        BY <2>10, <3>2
      <4>2. index[b] \in DOMAIN lss
        BY <2>1, <2>6, <2>9, <4>1 DEF Placed, Indexed
      <4>3. ~Saving(b)
        BY <2>1 DEF Saving
      <4>4. lss[index[b]].key = b /\ lss[index[b]].valid /\ lss[index[b]].ends = ends[b]
        BY <2>1, <4>1, <4>2, <4>3 DEF Placed, Truthful
      <4>5. lss'[index[b]] = lss[index[b]]
        BY <2>8, <4>2
      <4> QED BY <4>1, <4>4, <4>5
    <3> QED BY <3>1, <3>2
  <2> QED BY <2>12, <2>13, <2>14
<1>5. CASE SkipRecord \/ EndRecovery \/ RecoverFinish \/ Tick \/ Waits
  <2>1. UNCHANGED <<lss, index, next, ends, mem, pc, arr>>
    BY <1>5 DEF SkipRecord, EndRecovery, RecoverFinish, Tick, Waits, vars, arrays, fields, locals,
                files
  <2>2. Works
    BY <1>5 DEF SkipRecord, EndRecovery, RecoverFinish, Tick, Waits, vars, clock, Works
  <2>3. /\ \A b \in Arrays : InTable(b)' <=> InTable(b)
        /\ \A u \in Threads : Recorder(u)' <=> Recorder(u)
        /\ \A b \in Arrays : Saving(b) => Saving(b)'
    BY <2>1 DEF InTable, Recorder, Saving
  <2>4. \A u \in Threads : Recorder(u) => arr'[u] = arr[u] /\ arr[u] \in Arrays
    BY <2>1, Holding DEF Recorder, Bare, Asking
  <2> QED BY <2>1, <2>2, <2>3, <2>4, QuietStep DEF Placed
<1> QED BY <1>1, <1>2, <1>3, <1>4, <1>5 DEF Next

-----------------------------------------------------------------------------
(* What a crash must spare                                                 *)

\* The record of a is still to be read, or among those that were written.
Restores(s, a) == \E i \in DOMAIN s : s[i].key = a /\ Restorable(s[i])

\* While requests are refused, only reading goes on.
Refusing ==
    /\ \A a \in Arrays : ~deleted[a]
    /\ \A t \in Threads : /\ pc[t] \in {"idle", "decoded", "read", "release", "drop", "check"}
                          /\ pc[t] \notin {"idle", "decoded"} => op[t] = "send"

Promise ==
    /\ phase = "down" => \A a \in kept : Restores(lss, a)
    /\ phase = "loading" => \A a \in kept \ Tree : Restores(old, a)
    /\ phase = "recovering" => kept \subseteq Tree /\ Refusing

LEMMA PromiseStep ==
    ASSUME CrashInRecovery = FALSE, TypeInv, Phased, Gone, Placed, Promise, Next
    PROVE  Promise'
<1>1. ASSUME NEW t \in Threads, Serves(t)
      PROVE  Promise'
  <2> SUFFICES ASSUME phase' = "recovering" PROVE kept' \subseteq Tree' /\ Refusing'
    BY <1>1, ServesClock DEF Promise, Running
  <2>1. phase = "recovering" /\ kept' = kept /\ kept \subseteq Tree /\ Refusing
    BY <1>1, ServesClock DEF Promise, Running
  <2>2. /\ pc[t] \in {"idle", "decoded", "read", "release", "drop", "check"}
        /\ pc[t] \notin {"idle", "decoded"} => op[t] = "send"
        /\ \A a \in Arrays : ~deleted[a]
    BY <2>1 DEF Refusing
  <2>3. \/ Decode(t) \/ Reject(t) \/ RefuseRecovering(t)
        \/ (BeginRead(t) /\ op[t] = "send") \/ EndRead(t) \/ Release(t)
        \/ (Drop(t) /\ op[t] = "send") \/ (Check(t) /\ op[t] = "send")
    <3>1. ~Asks(t) /\ ~Chng(t) /\ ~Truncate(t) /\ ~Moves(t)
      BY <2>1, <2>2, AskStep, ChngStep, TruncateStep, MoveStep DEF Asking
    <3>2. ~Undefined(t)
      BY <2>1 DEF Undefined
    <3>3. ~BeginStore(t) /\ ~BeginManage(t)
      BY <2>1 DEF BeginStore, BeginManage, Accepted, Manages
    <3>4. BeginRead(t) => op[t] = "send"
      BY <2>1 DEF BeginRead, Accepted
    <3>5. (Drop(t) \/ Check(t)) => op[t] = "send"
      BY <2>2 DEF Drop, Check, At
    <3>6. ~(\/ Insert(t) \/ Answer(t) \/ Number(t) \/ AddRecord(t) \/ Store(t) \/ SaveStore(t)
            \/ Unlock(t) \/ Resave(t) \/ Jettison(t) \/ Forget(t) \/ Incr(t) \/ Decr(t)
            \/ Apply(t) \/ Save(t))
      BY <2>2 DEF Insert, Answer, Number, AddRecord, Store, SaveStore, Unlock, Resave, Jettison,
                  Forget, Incr, Decr, Apply, Save, At
    <3> QED BY <1>1, <3>1, <3>2, <3>3, <3>4, <3>5, <3>6 DEF Serves, Moves
  <2>4. mem' = mem /\ deleted' = deleted
    BY <2>3 DEF Decode, Reject, RefuseRecovering, BeginRead, EndRead, Release, Drop, Check, arrays,
                fields
  <2>5. /\ pc'[t] \in {"idle", "decoded", "read", "release", "drop", "check"}
        /\ pc'[t] \notin {"idle", "decoded"} => op'[t] = "send"
    <3> USE DEF TypeInv, ThreadType
    <3>1. CASE Decode(t) \/ Reject(t) \/ RefuseRecovering(t)
      BY <3>1 DEF Decode, Reject, RefuseRecovering, Done, Goto
    <3>2. CASE (BeginRead(t) /\ op[t] = "send") \/ EndRead(t) \/ Release(t)
      BY <2>2, <3>2 DEF BeginRead, EndRead, Release, At, Goto
    <3>3. CASE Drop(t) /\ op[t] = "send"
      BY <3>3 DEF Drop, Manages, Goto
    <3>4. CASE Check(t) /\ op[t] = "send"
      <4>1. arr[t] \in Arrays
        BY <3>4, Holding DEF Check, At, Bare, Asking
      <4>2. ~deleted[arr[t]]
        BY <2>2, <4>1
      <4>3. Done(t)
        BY <3>4, <4>2 DEF Check, Clears
      <4> QED BY <4>3 DEF Done, Goto
    <3> QED BY <2>3, <3>1, <3>2, <3>3, <3>4
  <2>6. \A u \in Threads : u # t => pc'[u] = pc[u] /\ op'[u] = op[u]
    BY <1>1, ServesOthers
  <2>7. Refusing'
    BY <2>1, <2>4, <2>5, <2>6 DEF Refusing
  <2> QED BY <2>1, <2>4, <2>7 DEF Tree
<1>2. CASE Crash
  <2>1. Running /\ phase' = "down" /\ kept' = Owed /\ UNCHANGED <<now, file, lss>>
    BY <1>2 DEF Crash, Running
  <2>2. ASSUME NEW a \in Owed
        PROVE  Restores(lss, a)'
    <3>1. /\ a \in Arrays /\ mem[a] = "live" /\ index[a] \in DOMAIN lss /\ ends[a] >= now
          /\ ~Saving(a)
      BY <2>2 DEF Owed, Tree, NoRecord, BeingChanged, Saving
    <3>2. /\ lss[index[a]].key = a /\ lss[index[a]].valid /\ lss[index[a]].ends = ends[a]
      BY <2>1, <3>1 DEF Placed, Truthful, Works, Running, InTable
    <3>3. a \in file
      BY <3>1 DEF Gone, Tree
    <3> DEFINE i == index[a]
    <3>4. i \in DOMAIN lss' /\ lss'[i].key = a
      BY <2>1, <3>1, <3>2
    <3>5. lss'[i].valid /\ lss'[i].ends >= now' /\ lss'[i].key \in file'
      BY <2>1, <3>1, <3>2, <3>3
    <3> HIDE DEF i
    <3> QED BY <3>4, <3>5 DEF Restores, Restorable
  <2> QED BY <2>1, <2>2 DEF Promise
<1>3. CASE BeginRecovery
  <2>1. phase = "down" /\ phase' = "loading" /\ old' = lss /\ UNCHANGED <<now, file, kept>>
    BY <1>3 DEF BeginRecovery, arrays, seen
  <2>2. ASSUME NEW a \in kept
        PROVE  Restores(old, a)'
    <3>1. Restores(lss, a)
      BY <2>1, <2>2 DEF Promise
    <3> QED BY <2>1, <3>1 DEF Restores, Restorable
  <2> QED BY <2>1, <2>2 DEF Promise
<1>4. CASE SkipRecord
  <2>1. /\ phase = "loading" /\ phase' = "loading" /\ old' = Tail(old)
        /\ old \in Seq(Records) /\ old # << >> /\ ~Restorable(Head(old))
        /\ UNCHANGED <<now, file, kept, mem>>
    BY <1>4 DEF SkipRecord, arrays, seen, clock, TypeInv, FileType
  <2>2. ASSUME NEW a \in kept \ Tree
        PROVE  Restores(old, a)'
    <3>1. PICK i \in DOMAIN old : old[i].key = a /\ Restorable(old[i])
      BY <2>1, <2>2 DEF Promise, Restores
    <3>2. PICK j \in DOMAIN Tail(old) : old[i] = Tail(old)[j]
      BY <2>1, <3>1, TailKeys
    <3> QED BY <2>1, <3>1, <3>2 DEF Restores, Restorable
  <2> QED BY <2>1, <2>2 DEF Promise, Tree
<1>5. CASE RestoreRecord
  <2> DEFINE b == Head(old).key
  <2>1. /\ phase = "loading" /\ phase' = "loading" /\ old' = Tail(old)
        /\ old \in Seq(Records) /\ old # << >> /\ mem' = [mem EXCEPT ![b] = "live"]
        /\ UNCHANGED <<now, file, kept>>
    BY <1>5 DEF RestoreRecord, seen, clock, TypeInv, FileType
  <2>2. b \in Arrays
    BY <2>1, TailKeys DEF Records
  <2>3. Tree' = Tree \cup {b}
    <3> HIDE DEF b
    <3> QED BY <2>1, <2>2 DEF Tree, TypeInv, ArrayType
  <2>4. ASSUME NEW a \in kept, a \notin Tree'
        PROVE  Restores(old, a)'
    <3>1. PICK i \in DOMAIN old : old[i].key = a /\ Restorable(old[i])
      BY <2>1, <2>3, <2>4 DEF Promise, Restores
    <3>2. old[i] # Head(old)
      BY <2>3, <2>4, <3>1
    <3>3. PICK j \in DOMAIN Tail(old) : old[i] = Tail(old)[j]
      BY <2>1, <3>1, <3>2, TailKeys
    <3> QED BY <2>1, <3>1, <3>3 DEF Restores, Restorable
  <2> QED BY <2>1, <2>4 DEF Promise
<1>6. CASE EndRecovery
  <2>1. /\ phase = "loading" /\ phase' = "recovering" /\ old = << >>
        /\ UNCHANGED <<kept, mem, deleted, pc, op>>
    BY <1>6 DEF EndRecovery, arrays, fields, seen, locals
  <2>2. kept \subseteq Tree
    <3>1. \A a : ~Restores(old, a)
      <4>1. Keys(old) = {}
        BY <2>1, NoKeys
      <4> QED BY <4>1 DEF Restores, Keys
    <3> QED BY <2>1, <3>1 DEF Promise
  <2>3. Refusing'
    BY <2>1 DEF Refusing, Phased
  <2> QED BY <2>1, <2>2, <2>3 DEF Promise, Tree
<1>7. CASE RecoverFinish \/ Tick
  BY <1>7 DEF RecoverFinish, Tick, Promise
<1>8. CASE Waits
  BY <1>8 DEF Waits, vars, clock, arrays, fields, files, locals, seen, Promise, Restores, Restorable,
              Refusing, Tree
<1> QED BY <1>1, <1>2, <1>3, <1>4, <1>5, <1>6, <1>7, <1>8 DEF Next

-----------------------------------------------------------------------------
(* The theorems                                                            *)

FlagOwned ==
    \A a \in Tree : wl[a] => deleted[a] \/ \E t \in Threads : arr[t] = a /\ Owns(t)

\* What holds with any threads, requests and crashes.
StorageInv ==
    /\ TypeInv /\ Phased /\ Held /\ Gone
    /\ OneStore /\ FlagOwned
    /\ RecordedOnce

LEMMA StorageInit == Init => StorageInv
<1> SUFFICES ASSUME Init PROVE StorageInv
  OBVIOUS
<1>1. /\ phase = "up" /\ crashes = 0 /\ old = << >> /\ lss = << >> /\ lost = {} /\ file = {}
      /\ \A t \in Threads : pc[t] = "idle" /\ op[t] = "store"
      /\ \A a \in Arrays : mem[a] = "none" /\ index[a] = 0 /\ ~wl[a] /\ ~deleted[a]
  BY DEF Init
<1>2. Phased /\ Held
  BY <1>1 DEF Phased, Held, Bare, Asking
<1>3. Tree = {}
  BY <1>1 DEF Tree
<1>4. Gone
  BY <1>1, <1>3 DEF Gone
<1>5. OneStore
  BY <1>1 DEF OneStore, Owns
<1>6. FlagOwned
  BY <1>3 DEF FlagOwned
<1>7. RecordedOnce
  BY <1>1, <1>3, NoKeys DEF RecordedOnce, Recording
<1> QED BY <1>2, <1>4, <1>5, <1>6, <1>7, TypeInit DEF StorageInv

LEMMA StorageStep == StorageInv /\ [Next]_vars => StorageInv'
<1> SUFFICES ASSUME StorageInv, [Next]_vars PROVE StorageInv'
  OBVIOUS
<1>1. TypeInv'
  BY TypeStep DEF StorageInv
<1>2. CASE Next
  <2>1. Phased' /\ Held' /\ Gone' /\ OneStore' /\ RecordedOnce'
    BY <1>2, PhasedStep, HeldStep, GoneStep, OneStoreStep, RecordedOnceStep DEF StorageInv
  <2>2. FlagOwned'
    BY <1>2, FlagStep DEF StorageInv, FlagOwned
  <2> QED BY <1>1, <2>1, <2>2 DEF StorageInv
<1>3. CASE UNCHANGED vars
  <2>1. /\ UNCHANGED <<phase, crashes, mem, file, deleted, wl, index, used, next, lss, old>>
        /\ UNCHANGED <<pc, op, arr, lost>>
    BY <1>3 DEF vars, clock, arrays, fields, files, locals, seen
  <2>2. Phased' /\ Held' /\ Gone'
    BY <2>1 DEF StorageInv, Phased, Held, Gone, Tree
  <2>3. OneStore' /\ FlagOwned'
    BY <2>1 DEF StorageInv, OneStore, FlagOwned, Owns, Tree
  <2>4. RecordedOnce'
    BY <2>1 DEF StorageInv, RecordedOnce, Recording, Tree
  <2> QED BY <1>1, <2>2, <2>3, <2>4 DEF StorageInv
<1> QED BY <1>2, <1>3

\* The inductive invariant holds in every state of the depot (ibp_handle.c,
\* ibp_server_lib.c).
THEOREM StorageInvariant == Spec => []StorageInv
BY StorageInit, StorageStep, PTL DEF Spec

\* Every variable keeps its type, whatever requests, crashes and recoveries come.
THEOREM StorageTypeOK == Spec => []TypeOK
<1>1. StorageInv => TypeOK
  BY TypesOK DEF StorageInv
<1> QED BY <1>1, StorageInvariant, PTL

\* Two stores never write one array at a time, for any number of threads that poll
\* wl (handle_request, IBP_STORE).
THEOREM StoresExclude == Spec => []OneWriter
<1>1. StorageInv => OneWriter
  <2> SUFFICES ASSUME StorageInv, NEW a \in Arrays PROVE Cardinality(Writers(a)) <= 1
    BY DEF OneWriter
  <2>1. \A t, u \in Writers(a) : t = u
    <3>1. \A t \in Writers(a) : t \in Threads /\ Owns(t) /\ arr[t] = a
      BY DEF Writers, Owns, StorageInv, OneStore
    <3> QED BY <3>1 DEF StorageInv, OneStore
  <2>2. CASE Writers(a) = {}
    BY <2>2, FS_EmptySet
  <2>3. CASE Writers(a) # {}
    <3>1. PICK t \in Writers(a) : TRUE
      BY <2>3
    <3>2. Writers(a) = {t}
      BY <2>1, <3>1
    <3> QED BY <3>2, FS_Singleton
  <2> QED BY <2>2, <2>3
<1> QED BY <1>1, StorageInvariant, PTL

\* The flag is left behind on deleted arrays only: whoever polls it waits for a
\* thread that is at work (ibp_handle.c:231-254).
THEOREM FlagsHaveOwners == Spec => []FlagHasOwner
<1>1. StorageInv => FlagHasOwner
  BY DEF StorageInv, FlagOwned, FlagHasOwner, Owns
<1> QED BY <1>1, StorageInvariant, PTL

\* An array that was freed never comes back, whatever crash comes between the loss
\* of its file and that of its record (jettisonByteArray, recover).
THEOREM FreedStaysFreed == Spec => []NoResurrection
<1>1. StorageInv => NoResurrection
  BY DEF StorageInv, Gone, NoResurrection
<1> QED BY <1>1, StorageInvariant, PTL

\* If at most one thread resizes arrays, the space charged is that of the arrays in
\* the tree, through deferred deletions, truncation, crashes and recovery.
THEOREM SpaceIsAccounted == ASSUME SingleResizer PROVE Spec => []SpaceAccounted
<1> DEFINE Inv == Resized /\ Charged
<1>1. Init => Inv
  <2> SUFFICES ASSUME Init PROVE Inv
    OBVIOUS
  <2>1. Resized
    BY DEF Init, Resized
  <2>2. Tree = {} /\ used = 0
    BY DEF Init, Tree
  <2>3. Total(size, {}) = 0
    BY TotalEmpty
  <2> QED BY <2>1, <2>2, <2>3, TreeTotal DEF Charged
<1>2. StorageInv /\ Inv /\ [Next]_vars => Inv'
  <2> SUFFICES ASSUME StorageInv, Inv, [Next]_vars PROVE Inv'
    OBVIOUS
  <2>1. CASE Next
    BY <2>1, ResizedStep, ChargedStep DEF StorageInv
  <2>2. CASE UNCHANGED vars
    <3>1. UNCHANGED <<mem, size, used, pc, arr, tmp, inc>>
      BY <2>2 DEF vars, arrays, fields, locals
    <3>2. Resized'
      BY <3>1 DEF Resized
    <3>3. Tree' = Tree
      BY <3>1 DEF Tree
    <3> QED BY <3>1, <3>2, <3>3, TreeTotal, TreeTotalNext DEF Charged
  <2> QED BY <2>1, <2>2
<1>3. Inv => SpaceAccounted
  BY DEF Charged, SpaceAccounted
<1> QED BY <1>1, <1>2, <1>3, StorageInvariant, PTL DEF Spec

\* Every thread that may take room can exceed the limit once, and not all of them do:
\* check_size looks at the room without a lock.  What a signal let in untested comes
\* on top, until a test grants more room.  (Without such a thread no room is
\* taken at all.)
THEOREM OvershootIsBounded == ASSUME Growers # {} PROVE Spec => []OvershootBounded
<1>1. Init => Promised
  <2> SUFFICES ASSUME Init PROVE Promised
    OBVIOUS
  <2>1. TypeInv /\ used = 0
    BY TypeInit DEF Init
  <2>2. \A t \in Threads : Pend(t) = 0
    BY DEF Init, Pend
  <2>3. Total(Pends, Growers) <= Cardinality(Growers) * 0
    <3>1. \A t \in Growers : Pends[t] \in Int /\ Pends[t] <= 0
      BY <2>1, <2>2, Growing, PendType
    <3> QED BY <3>1, Growing, TotalBound
  <2>4. Cardinality(Growers) \in Nat /\ Cardinality(Growers) # 0
    BY Growing, FS_EmptySet
  <2>5. Total(Pends, Growers) = 0
    <3>1. Total(Pends, Growers) \in Nat
      BY <2>1, PendSum
    <3> QED BY <2>3, <2>4, <3>1
  <2>6. (Cardinality(Growers) - 1) * LargestGrowth \in Nat
    <3>1. Cardinality(Growers) - 1 \in Nat
      BY <2>4
    <3> QED BY <3>1, Growth
  <2>7. \A a \in Arrays : mem[a] = "none"
    BY DEF Init
  <2>8. \A t \in Threads : Pend(t) <= LargestGrowth
    BY <2>2, Growth
  <2>9. used + Total(Pends, Growers)
           <= StableStorage + (Cardinality(Growers) - 1) * LargestGrowth + untested
    BY <2>1, <2>5, <2>6, Sizings DEF Init
  <2> QED BY <2>7, <2>8, <2>9 DEF Promised
<1>2. StorageInv /\ Promised /\ [Next]_vars => Promised'
  <2> SUFFICES ASSUME StorageInv, Promised, [Next]_vars PROVE Promised'
    OBVIOUS
  <2>1. CASE Next
    BY <2>1, PromisedStep DEF StorageInv
  <2>2. CASE UNCHANGED vars
    <3>1. UNCHANGED <<crashes, mem, size, used, pc, tmp, inc, untested>>
      BY <2>2 DEF vars, clock, arrays, fields, locals, sync
    <3>2. Pends' = Pends /\ \A t \in Threads : Pend(t)' = Pend(t)
      BY <3>1 DEF Pends, Pend
    <3> QED BY <3>1, <3>2 DEF Promised
  <2> QED BY <2>1, <2>2
<1>3. StorageInv /\ Promised => OvershootBounded
  <2> DEFINE limit == StableStorage + (Cardinality(Growers) - 1) * LargestGrowth
  <2> SUFFICES ASSUME StorageInv, Promised, crashes = 0 PROVE used <= limit + untested
    BY DEF OvershootBounded
  <2>1. used + Total(Pends, Growers) <= limit + untested
    BY DEF Promised
  <2>2. Total(Pends, Growers) \in Nat /\ used \in Int /\ untested \in Nat
    BY PendSum DEF StorageInv, TypeInv, ArrayType, SyncType
  <2>3. limit \in Int
    BY Growth, Growing, Sizings
  <2> HIDE DEF limit
  <2> QED BY <2>1, <2>2, <2>3
<1> QED BY <1>1, <1>2, <1>3, StorageInvariant, PTL DEF Spec

\* If at most one thread allocates and no crash interrupts the recovery, recover()
\* brings back every array that the depot owes its clients, whatever else the
\* threads were doing when the crash came.
THEOREM RecoveryIsDurable ==
    ASSUME SingleAllocator, CrashInRecovery = FALSE
    PROVE  Spec => []Durable
<1> DEFINE Inv == Placed /\ Promise
<1>1. Init => Inv
  <2> SUFFICES ASSUME Init PROVE Inv
    OBVIOUS
  <2>1. /\ phase = "up" /\ next = 1 /\ lss = << >> /\ \A t \in Threads : pc[t] = "idle"
        /\ \A a \in Arrays : mem[a] = "none" /\ index[a] = 0
    BY DEF Init
  <2>2. Len(lss) = 0
    BY <2>1
  <2>3. \A t \in Threads : ~Recorder(t) /\ ~Recording(t)
    BY <2>1 DEF Recorder, Recording
  <2>4. Numbered
    <3>1. ~\E t \in Threads : Recorder(t)
      BY <2>3
    <3> QED BY <2>1, <2>2, <3>1 DEF Numbered
  <2>5. Allocates /\ Indexed
    BY <2>1, <2>3 DEF Allocates, Indexed
  <2>6. Truthful
    BY <2>1 DEF Truthful, InTable
  <2>7. Promise
    BY <2>1 DEF Promise
  <2> QED BY <2>4, <2>5, <2>6, <2>7 DEF Placed
<1>2. StorageInv /\ Inv /\ [Next]_vars => Inv'
  <2> SUFFICES ASSUME StorageInv, Inv, [Next]_vars PROVE Inv'
    OBVIOUS
  <2>1. CASE Next
    BY <2>1, PlacedStep, PromiseStep DEF StorageInv
  <2>2. CASE UNCHANGED vars
    <3>1. /\ UNCHANGED <<phase, now, file, kept, mem, deleted, ends, index, next, lss, old>>
          /\ UNCHANGED <<pc, op, arr>>
      BY <2>2 DEF vars, clock, arrays, fields, files, locals, seen
    <3>2. Allocates' /\ Numbered'
      BY <3>1 DEF Placed, Allocates, Numbered, Works, Recorder, Recording
    <3>3. Indexed'
      BY <3>1 DEF Placed, Indexed, Works, Recorder, InTable
    <3>4. Truthful'
      BY <3>1 DEF Placed, Truthful, Works, InTable, Saving
    <3>5. Promise'
      BY <3>1 DEF Promise, Restores, Restorable, Refusing, Tree
    <3> QED BY <3>2, <3>3, <3>4, <3>5 DEF Placed
  <2> QED BY <2>1, <2>2
<1>3. Inv => Durable
  BY DEF Promise, Durable
<1> QED BY <1>1, <1>2, <1>3, StorageInvariant, PTL DEF Spec
=============================================================================
