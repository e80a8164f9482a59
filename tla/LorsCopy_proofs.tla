--------------------------- MODULE LorsCopy_proofs ---------------------------
(***************************************************************************)
(* Proofs about lorsSetCopy, for every length, block size and number of    *)
(* copies, workers, depots and sources, wherever the source is cut.        *)
(***************************************************************************)
EXTENDS LorsCopy, SequenceTheorems, WellFoundedInduction, TLAPS

(* The inductive invariant. *)

\* The points of _lorsDoCreate, of _lorsDoCopyNE, and of either.
CreatePcs == {"lock", "depot", "alloc", "refill"}
CopyPcs   == {"find", "copy"}
JobPcs    == CreatePcs \cup CopyPcs

\* A worker has a job exactly in its handler, and the handler is the one of the
\* phase; outside of the two phases no worker is left.
Shape ==
    /\ \A w \in Workers : (job[w] # NoJob) = (pc[w] \in JobPcs)
    /\ main = "allocate" => \A w \in Workers : pc[w] \notin CopyPcs
    /\ main = "copy" => \A w \in Workers : pc[w] \notin CreatePcs
    /\ main = "begin" => \A w \in Workers : pc[w] = "ended"
    /\ main \in {"allocate", "copy"} => sources > 0

\* A job in hand is checked out, and nobody else has it.
OneWorkerPerJob ==
    \A w \in Workers : job[w] # NoJob =>
        /\ status[job[w]] = "JOB_CHECKOUT"
        /\ \A v \in Workers : job[v] = job[w] => v = w

\* The bytes of a block in front of a position.
Upto(j, p) == [i \in 1..(p - Begins(j)) |-> Begins(j) + i - 1]

\* The array never has less than the copy has reached, since what a failed
\* IBP_copy appended stays; if it has no more, it has the bytes of the source.
Reached(s, j, p) ==
    /\ p - Begins(j) <= Len(s)
    /\ Len(s) = p - Begins(j) => s = Upto(j, p)

Position(w) == from[w] + done[w]

\* A worker is in a part of its block, and in front of the end of both.
Copying(w) ==
    /\ job[w] \in created
    /\ Begins(job[w]) <= from[w] /\ from[w] < Ends(job[w])
    /\ done[w] < PartLen(w)
    /\ Reached(data[job[w]], job[w], Position(w))

Written ==
    /\ main \in {"begin", "allocate"} => \A j \in Jobs : data[j] = << >>
    /\ main = "copy" =>
          /\ \A j \in Jobs : status[j] = "JOB_INIT" => data[j] = << >>
          /\ \A j \in Jobs : status[j] = "JOB_COMMIT" => j \in created /\ data[j] = BlockData(j)
          /\ \A w \in Workers : pc[w] = "find" => data[job[w]] = << >>
          /\ \A w \in Workers : pc[w] = "copy" => Copying(w)

\* The call has a result when it has returned, not before.
Ended == main # "returned" => ret = "none"

IInv ==
    /\ TypeOK /\ Shape /\ OneWorkerPerJob /\ Written /\ Ended
    /\ CopyTrue /\ NothingOnError
-----------------------------------------------------------------------------
(* Blocks, parts and greatest elements. *)

LEMMA LeastNumber ==
    ASSUME NEW N \in SUBSET Nat, N # {}
    PROVE  Min(N) \in N /\ \A k \in N : Min(N) <= k
<1>. DEFINE R == {ss \in Nat \X Nat : ss[1] < ss[2]}
<1>1. IsWellFoundedOn(R, Nat)
  BY NatLessThanWellFounded DEF OpToRel
<1>2. PICK n \in N : \A k \in N : <<k, n>> \notin R
  <2>. HIDE DEF R
  <2>. QED  BY <1>1, WFMin
<1>3. ASSUME NEW k \in N PROVE n <= k
  <2>1. <<k, n>> \in Nat \X Nat /\ <<k, n>>[1] = k /\ <<k, n>>[2] = n
    OBVIOUS
  <2>. QED  BY <2>1, <1>2
<1>. QED  BY <1>3 DEF Min

LEMMA GreatestNumber ==
    ASSUME NEW N \in SUBSET Nat, N # {}, NEW b \in Nat, \A k \in N : k <= b
    PROVE  Max(N) \in N
<1>. DEFINE D == {b - k : k \in N}
<1>1. D \in SUBSET Nat /\ D # {}
  <2>1. \A k \in N : b - k \in Nat
    OBVIOUS
  <2>. QED  BY <2>1
<1>2. PICK d \in D : \A e \in D : d <= e
  <2>. HIDE DEF D
  <2>. QED  BY <1>1, LeastNumber
<1>3. PICK n \in N : d = b - n
  OBVIOUS
<1>4. ASSUME NEW k \in N PROVE n >= k
  <2>1. d <= b - k
    BY <1>2
  <2>. QED  BY <2>1, <1>3
<1>. QED  BY <1>4 DEF Max

LEMMA Products ==
    ASSUME NEW a \in Nat, NEW b \in Nat, a <= b, NEW c \in Nat
    PROVE  a * c <= b * c
  OBVIOUS

LEMMA BlockCount ==
    /\ NBlocks \in Nat \ {0}
    /\ (NBlocks - 1) * BlockSize < Length
    /\ \A b \in 1..NBlocks : BlockStart(b) \in Nat /\ BlockStart(b) < Length
<1>. DEFINE n == (Length + BlockSize - 1) \div BlockSize
<1>. Length \in Nat \ {0} /\ BlockSize \in Nat \ {0}
  BY CopyAssumption
<1>1. n \in Nat /\ n * BlockSize <= Length + BlockSize - 1
      /\ Length + BlockSize - 1 < (n + 1) * BlockSize
  OBVIOUS
<1>. HIDE DEF n
<1>2. n # 0
  BY <1>1
<1>3. (n - 1) * BlockSize = n * BlockSize - BlockSize
  BY <1>1
<1>4. (n - 1) * BlockSize < Length
  BY <1>1, <1>3
<1>5. ASSUME NEW b \in 1..n PROVE (b - 1) * BlockSize \in Nat /\ (b - 1) * BlockSize < Length
  <2>1. (b - 1) * BlockSize <= (n - 1) * BlockSize
    <3>1. b - 1 \in Nat /\ n - 1 \in Nat /\ b - 1 <= n - 1
      BY <1>1, <1>2
    <3>. QED  BY <3>1, Products
  <2>2. (b - 1) * BlockSize \in Nat
    OBVIOUS
  <2>. QED  BY <2>1, <2>2, <1>4, <1>1
<1>. QED  BY <1>1, <1>2, <1>4, <1>5 DEF n, NBlocks, BlockStart

LEMMA Blocks ==
    ASSUME NEW j \in Jobs
    PROVE  /\ Begins(j) \in Nat /\ Ends(j) \in Nat
           /\ Begins(j) < Ends(j) /\ Ends(j) <= Length
<1>. Length \in Nat \ {0} /\ BlockSize \in Nat \ {0} /\ Copies \in Nat \ {0}
  BY CopyAssumption
<1>. DEFINE b == Block(j)
<1>1. b \in 1..NBlocks
  <2>. DEFINE n == NBlocks
  <2>1. n \in Nat \ {0} /\ j \in Nat \ {0}
    <3>1. Copies * NBlocks \in Nat
      BY BlockCount
    <3>. QED  BY <3>1, BlockCount DEF Jobs
  <2>. HIDE DEF n
  <2>2. (j - 1) % n \in 0..(n - 1)
    BY <2>1
  <2>. QED  BY <2>1, <2>2 DEF Block, n
<1>2. BlockStart(b) \in Nat /\ BlockStart(b) < Length
  BY <1>1, BlockCount
<1>3. b * BlockSize = BlockStart(b) + BlockSize /\ b * BlockSize \in Nat
  <2>1. b \in Nat
    BY <1>1, BlockCount
  <2>. HIDE DEF b
  <2>. QED  BY <2>1 DEF BlockStart
<1>. HIDE DEF b
<1>4. Min({b * BlockSize, Length}) \in {b * BlockSize, Length}
      /\ \A k \in {b * BlockSize, Length} : Min({b * BlockSize, Length}) <= k
  <2>. DEFINE N == {b * BlockSize, Length}
  <2>1. N \in SUBSET Nat /\ N # {}
    BY <1>3
  <2>. HIDE DEF N
  <2>2. Min(N) \in N /\ \A k \in N : Min(N) <= k
    BY <2>1, LeastNumber
  <2>. QED  BY <2>2 DEF N
<1>. DEFINE e == Min({b * BlockSize, Length})
<1>5. e \in Nat /\ BlockStart(b) < e /\ e <= Length
  <2>1. e \in {b * BlockSize, Length} /\ e <= Length
    BY <1>4
  <2>. HIDE DEF e
  <2>. QED  BY <2>1, <1>2, <1>3
<1>. QED  BY <1>2, <1>5 DEF b, e, Begins, Ends, BlockEnd

\* A part ends behind its beginning and not behind its block.
LEMMA Parts ==
    ASSUME NEW j \in Jobs, NEW x \in Nat, x < Ends(j)
    PROVE  PartEnd(j, x) \in Nat /\ x < PartEnd(j, x) /\ PartEnd(j, x) <= Ends(j)
<1>. DEFINE N == {c \in Cuts : c > x} \cup {Ends(j)}
<1>1. N \in SUBSET Nat /\ Ends(j) \in N /\ \A k \in N : x < k
  <2>1. Cuts \subseteq Nat
    BY CopyAssumption
  <2>. QED  BY <2>1, Blocks
<1>. HIDE DEF N
<1>2. Min(N) \in N /\ \A k \in N : Min(N) <= k
  BY <1>1, LeastNumber
<1>3. Min(N) \in Nat /\ x < Min(N) /\ Min(N) <= Ends(j)
  BY <1>1, <1>2
<1>. QED  BY <1>3 DEF N, PartEnd

LEMMA JobNumbers == Jobs \in SUBSET Nat /\ NoJob \notin Jobs /\ Copies * NBlocks \in Nat
                    /\ \A j \in Jobs : j <= Copies * NBlocks
<1>1. Copies * NBlocks \in Nat
  BY CopyAssumption, BlockCount
<1>. QED  BY <1>1 DEF Jobs, NoJob

\* The sources of a part are tried from the last to the first.
LEMMA SourceRange ==
    ASSUME NEW n \in Nat
    PROVE  /\ Max({n, 1}) \in Nat \ {0}
           /\ n > 0 => Max({n, 1}) = n
<1>. DEFINE N == {n, 1}
<1>1. PICK m \in N : \A k \in N : m >= k
  <2>1. CASE n >= 1
    BY <2>1
  <2>2. CASE n < 1
    BY <2>2
  <2>. QED  BY <2>1, <2>2
<1>2. Max(N) \in N /\ \A k \in N : Max(N) >= k
  BY <1>1 DEF Max
<1>. HIDE DEF N
<1>. DEFINE x == Max(N)
<1>3. (x = n \/ x = 1) /\ x >= n /\ x >= 1
  BY <1>2 DEF N
<1>. HIDE DEF x
<1>4. x \in Nat \ {0} /\ (n > 0 => x = n)
  BY <1>3
<1>. QED  BY <1>4 DEF x, N
-----------------------------------------------------------------------------
(* What happens to a job and its worker. *)

\* The types of what a job and its worker have.
JobTypes ==
    /\ status \in [Jobs -> {"JOB_INIT", "JOB_CHECKOUT", "JOB_COMMIT", "JOB_FAILED"}]
    /\ code \in [Jobs -> Codes] /\ result \in [Workers -> Codes]
    /\ pc \in [Workers -> JobPcs \cup {"get", "ended"}]
    /\ job \in [Workers -> Jobs \cup {NoJob}]

LEMMA JobTyping == TypeOK => JobTypes
BY DEF TypeOK, JobTypes, JobPcs, CreatePcs, CopyPcs

\* The handlers that may go on in the phase.
PhasePcs ==
    {p \in JobPcs : (main = "allocate" => p \notin CopyPcs) /\ (main = "copy" => p \notin CreatePcs)}

LEMMA GoesOn ==
    ASSUME JobTypes, Shape, OneWorkerPerJob, main \in {"allocate", "copy"},
           NEW w \in Workers, pc[w] \in JobPcs,
           NEW p \in PhasePcs, Goto(w, p), UNCHANGED <<status, code, job, result, sources, main>>
    PROVE  JobTypes' /\ Shape' /\ OneWorkerPerJob'
<1>1. JobTypes'
  BY DEF JobTypes, Goto, PhasePcs
<1>2. Shape'
  <2>1. \A v \in Workers : pc'[v] = IF v = w THEN p ELSE pc[v]
    BY DEF JobTypes, Goto
  <2>. QED  BY <2>1 DEF Shape, PhasePcs
<1>3. OneWorkerPerJob'
  BY DEF OneWorkerPerJob
<1>. QED  BY <1>1, <1>2, <1>3

LEMMA JobEnds ==
    ASSUME JobTypes, Shape, OneWorkerPerJob, main \in {"allocate", "copy"},
           NEW w \in Workers, pc[w] \in JobPcs,
           NEW st \in {"JOB_COMMIT", "JOB_FAILED"}, NEW c \in Codes, EndJob(w, st, c),
           UNCHANGED <<sources, main>>
    PROVE  /\ JobTypes' /\ Shape' /\ OneWorkerPerJob'
           /\ job[w] \in Jobs
           /\ \A j \in Jobs : status'[j] = IF j = job[w] THEN st ELSE status[j]
           /\ \A v \in Workers : v # w => pc'[v] = pc[v] /\ job'[v] = job[v]
           /\ pc'[w] \in {"get", "ended"}
<1>. DEFINE q == IF c = "LORS_SUCCESS" THEN "get" ELSE "ended"
<1>1. job[w] \in Jobs
  BY DEF JobTypes, Shape
<1>2. \A j \in Jobs : status'[j] = IF j = job[w] THEN st ELSE status[j]
  BY <1>1 DEF JobTypes, EndJob
<1>3. \A v \in Workers : /\ pc'[v] = IF v = w THEN q ELSE pc[v]
                         /\ job'[v] = IF v = w THEN NoJob ELSE job[v]
  BY DEF JobTypes, EndJob, Goto
<1>4. q \in {"get", "ended"}
  OBVIOUS
<1>5. JobTypes'
  <2>1. pc' = [pc EXCEPT ![w] = q] /\ job' = [job EXCEPT ![w] = NoJob]
    BY DEF EndJob, Goto
  <2>2. pc' \in [Workers -> JobPcs \cup {"get", "ended"}]
    <3>. HIDE DEF q
    <3>. QED  BY <2>1, <1>4 DEF JobTypes
  <2>3. /\ status' \in [Jobs -> {"JOB_INIT", "JOB_CHECKOUT", "JOB_COMMIT", "JOB_FAILED"}]
        /\ code' \in [Jobs -> Codes] /\ result' \in [Workers -> Codes]
    BY <1>1 DEF JobTypes, EndJob
  <2>. QED  BY <2>1, <2>2, <2>3 DEF JobTypes
<1>. HIDE DEF q
<1>6. Shape'
  <2>1. q \notin JobPcs
    BY <1>4 DEF JobPcs, CreatePcs, CopyPcs
  <2>2. \A v \in Workers : (job'[v] # NoJob) = (pc'[v] \in JobPcs)
    BY <1>3, <2>1 DEF Shape
  <2>. QED  BY <2>1, <2>2, <1>3 DEF Shape, JobPcs
<1>7. OneWorkerPerJob'
  BY <1>1, <1>2, <1>3 DEF OneWorkerPerJob, JobTypes
<1>. QED  BY <1>1, <1>2, <1>3, <1>4, <1>5, <1>6, <1>7

\* What does not change while the workers are at work.
Busy == /\ main \in {"allocate", "copy"}
        /\ UNCHANGED <<callVars, mappings, ret>>

LEMMA BusyEnded == ASSUME TypeOK, Ended, Busy, main' # "returned"
                   PROVE  Ended' /\ CopyTrue' /\ NothingOnError'
<1>1. ret' = "none"
  BY DEF Ended, Busy
<1>. QED  BY <1>1 DEF Ended, CopyTrue, NothingOnError
-----------------------------------------------------------------------------
(* Taking a job. *)

LEMMA TypeFromParts ==
    ASSUME TypeOK, JobTypes', UNCHANGED <<callVars, arrayVars, createVars, copyVars, depotVars>>,
           main' \in {"begin", "allocate", "copy", "returned", "aborted"},
           time' \in {"left", "ending", "over"}, mappings' \subseteq Jobs,
           ret' \in Codes \cup {"none", "LORS_HAS_HOLE", "LORS_PARTIAL"}
    PROVE  TypeOK'
<1>1. pc' \in [Workers -> {"get", "lock", "depot", "alloc", "refill", "find", "copy", "ended"}]
  BY DEF JobTypes, JobPcs, CreatePcs, CopyPcs
<1>. QED  BY <1>1 DEF TypeOK, JobTypes, callVars, arrayVars, createVars, copyVars, depotVars

LEMMA GetJobInv ==
    ASSUME IInv, NEW w \in Workers, main \in {"allocate", "copy"},
           GetJob(w) \/ GetJobTooLate(w) \/ NoMoreJobs(w)
    PROVE  IInv'
<1>. TypeOK /\ JobTypes /\ Shape /\ OneWorkerPerJob /\ Written /\ Ended
  BY JobTyping DEF IInv
<1>0. main' = main /\ mappings' = mappings /\ ret' = ret /\ time' = time
      /\ UNCHANGED <<callVars, arrayVars, createVars, copyVars, depotVars>>
  BY DEF GetJob, GetJobTooLate, NoMoreJobs, setVars
<1>1. Ended' /\ CopyTrue' /\ NothingOnError'
  BY <1>0, BusyEnded DEF Busy
<1>2. CASE GetJob(w)
  <2>. DEFINE p == IF main = "allocate" THEN "lock" ELSE "find"
  <2>1. PICK j \in Jobs : /\ FirstInit(j)
                          /\ status' = [status EXCEPT ![j] = "JOB_CHECKOUT"]
                          /\ job' = [job EXCEPT ![w] = j]
    BY <1>2 DEF GetJob
  <2>2. /\ pc' = [pc EXCEPT ![w] = p] /\ pc[w] = "get" /\ status[j] = "JOB_INIT"
        /\ code' = code /\ result' = result
    BY <1>2, <2>1 DEF GetJob, Goto, FirstInit, IsInit
  <2>3. p \in JobPcs /\ (main = "allocate" => p \notin CopyPcs) /\ (main = "copy" => p = "find")
        /\ p # "copy" /\ (main = "copy" => p \notin CreatePcs)
    BY DEF JobPcs, CreatePcs, CopyPcs
  <2>. HIDE DEF p
  <2>4. job[w] = NoJob
    BY <2>2 DEF Shape, JobPcs, CreatePcs, CopyPcs
  <2>5. /\ \A v \in Workers : /\ pc'[v] = IF v = w THEN p ELSE pc[v]
                              /\ job'[v] = IF v = w THEN j ELSE job[v]
        /\ \A k \in Jobs : status'[k] = IF k = j THEN "JOB_CHECKOUT" ELSE status[k]
    BY <2>1, <2>2 DEF JobTypes
  <2>6. JobTypes'
    BY <2>1, <2>2, <2>3 DEF JobTypes
  <2>7. TypeOK'
    BY <1>0, <2>6, TypeFromParts DEF TypeOK
  <2>8. Shape'
    <3>1. \A v \in Workers : (job'[v] # NoJob) = (pc'[v] \in JobPcs)
      BY <2>3, <2>5, JobNumbers DEF Shape
    <3>. QED  BY <3>1, <2>3, <2>5, <1>0 DEF Shape, callVars
  <2>9. OneWorkerPerJob'
    <3>1. \A v \in Workers : job[v] # j
      BY <2>2, JobNumbers DEF OneWorkerPerJob
    <3>. QED  BY <3>1, <2>5, <2>4 DEF OneWorkerPerJob, JobTypes
  <2>10. Written'
    <3>1. CASE main = "allocate"
      BY <3>1, <1>0 DEF Written, arrayVars
    <3>2. CASE main = "copy"
      <4>1. \A k \in Jobs : status'[k] # "JOB_CHECKOUT" => status'[k] = status[k]
        BY <2>5
      <4>2. \A v \in Workers : pc'[v] = "copy" => v # w /\ pc[v] = "copy" /\ job'[v] = job[v]
        BY <2>3, <2>5
      <4>3. \A v \in Workers : pc'[v] = "find" =>
               data[job'[v]] = << >>
        BY <2>2, <2>5, <3>2 DEF Written
      <4>4. data' = data /\ created' = created /\ from' = from /\ done' = done
        BY <1>0 DEF arrayVars, copyVars
      <4>5. \A k \in Jobs : (status'[k] = "JOB_INIT" => data'[k] = << >>)
               /\ (status'[k] = "JOB_COMMIT" => k \in created' /\ data'[k] = BlockData(k))
        BY <4>1, <4>4, <3>2 DEF Written
      <4>6. \A v \in Workers : pc'[v] = "copy" => Copying(v)'
        BY <4>2, <4>4, <3>2 DEF Written, Copying, PartLen, Reached, Position
      <4>. QED  BY <4>3, <4>4, <4>5, <4>6, <3>2, <1>0 DEF Written
    <3>. QED  BY <3>1, <3>2
  <2>. QED  BY <1>1, <2>7, <2>8, <2>9, <2>10 DEF IInv
<1>3. CASE GetJobTooLate(w) \/ NoMoreJobs(w)
  <2>1. /\ pc' = [pc EXCEPT ![w] = "ended"] /\ pc[w] = "get"
        /\ job' = job /\ code' = code
        /\ \E c \in Codes : result' = result \/ result' = [result EXCEPT ![w] = c]
    BY <1>3 DEF GetJobTooLate, NoMoreJobs, Goto, jobVars, Codes
  <2>2. \/ status' = status
        \/ \E j \in Jobs : status[j] = "JOB_INIT" /\ status' = [status EXCEPT ![j] = "JOB_CHECKOUT"]
    BY <1>3 DEF GetJobTooLate, NoMoreJobs, FirstInit, IsInit, jobVars
  <2>3. \A v \in Workers : pc'[v] = IF v = w THEN "ended" ELSE pc[v]
    BY <2>1 DEF JobTypes
  <2>4. \A k \in Jobs : status'[k] = status[k]
           \/ (status[k] = "JOB_INIT" /\ status'[k] = "JOB_CHECKOUT")
    <3>1. CASE status' = status
      BY <3>1
    <3>2. ASSUME NEW j \in Jobs, status[j] = "JOB_INIT",
                 status' = [status EXCEPT ![j] = "JOB_CHECKOUT"]
          PROVE  \A k \in Jobs : k # j => status'[k] = status[k]
      BY <3>2 DEF JobTypes
    <3>3. ASSUME NEW j \in Jobs, status[j] = "JOB_INIT",
                 status' = [status EXCEPT ![j] = "JOB_CHECKOUT"]
          PROVE  status'[j] = "JOB_CHECKOUT"
      BY <3>3 DEF JobTypes
    <3>. QED  BY <2>2, <3>1, <3>2, <3>3
  <2>5. JobTypes'
    <3>1. status' \in [Jobs -> {"JOB_INIT", "JOB_CHECKOUT", "JOB_COMMIT", "JOB_FAILED"}]
      BY <2>2 DEF JobTypes
    <3>. QED  BY <2>1, <3>1 DEF JobTypes
  <2>6. TypeOK'
    BY <1>0, <2>5, TypeFromParts DEF TypeOK
  <2>7. Shape'
    <3>1. "get" \notin JobPcs /\ "ended" \notin JobPcs
      BY DEF JobPcs, CreatePcs, CopyPcs
    <3>2. \A v \in Workers : (job'[v] # NoJob) = (pc'[v] \in JobPcs)
      BY <3>1, <2>1, <2>3 DEF Shape
    <3>. QED  BY <3>1, <3>2, <2>3, <1>0 DEF Shape, callVars, JobPcs
  <2>8. OneWorkerPerJob'
    <3>1. \A v \in Workers : job[v] # NoJob => status'[job[v]] = status[job[v]]
      BY <2>4 DEF OneWorkerPerJob, JobTypes
    <3>. QED  BY <3>1, <2>1 DEF OneWorkerPerJob
  <2>9. Written'
    <3>1. CASE main = "allocate"
      BY <3>1, <1>0 DEF Written, arrayVars
    <3>2. CASE main = "copy"
      <4>1. data' = data /\ created' = created /\ from' = from /\ done' = done
        BY <1>0 DEF arrayVars, copyVars
      <4>2. \A k \in Jobs : (status'[k] = "JOB_INIT" => data'[k] = << >>)
               /\ (status'[k] = "JOB_COMMIT" => k \in created' /\ data'[k] = BlockData(k))
        BY <4>1, <2>4, <3>2 DEF Written
      <4>3. \A v \in Workers : pc'[v] \in {"find", "copy"} => pc'[v] = pc[v]
        BY <2>3
      <4>. QED  BY <4>1, <4>2, <4>3, <2>1, <3>2, <1>0
                DEF Written, Copying, PartLen, Reached, Position
    <3>. QED  BY <3>1, <3>2
  <2>. QED  BY <1>1, <2>6, <2>7, <2>8, <2>9 DEF IInv
<1>. QED  BY <1>2, <1>3
-----------------------------------------------------------------------------
(* _lorsDoCreate. *)

Creates(w) ==
    \/ LockNode(w) \/ CreateTooLate(w) \/ NextDepot(w) \/ NoNextDepot(w)
    \/ Allocated(w) \/ AllocateFails(w) \/ TryAgain(w)

\* The types of what only _lorsDoCreate changes.
DepotTypes ==
    /\ listed \subseteq Depots /\ bad \subseteq Depots \ listed
    /\ created \subseteq Jobs
    /\ hand \in [Workers -> SUBSET Depots] /\ tried \in [Workers -> 0..MaxTried]

\* The handler goes on, or ends its job.
CreateGoesOn(w) == /\ \E p \in CreatePcs : Goto(w, p)
                   /\ UNCHANGED <<status, code, job, result>>
CreateEnds(w) == \E c \in Codes : EndJob(w, "JOB_COMMIT", c)

\* Neither the data nor the call changes.
NoCopy == UNCHANGED <<callVars, data, copyVars, time, setVars>>

LEMMA CreateCases ==
    ASSUME TypeOK, JobTypes, Shape, NEW w \in Workers, Creates(w)
    PROVE  /\ pc[w] \in CreatePcs /\ NoCopy /\ DepotTypes'
           /\ CreateGoesOn(w) \/ CreateEnds(w)
<1>. DepotTypes /\ MaxTried \in Nat
  BY CopyAssumption DEF TypeOK, DepotTypes
<1>0. /\ hand' = [hand EXCEPT ![w] = {}] /\ tried' = [tried EXCEPT ![w] = 0] =>
            hand' \in [Workers -> SUBSET Depots] /\ tried' \in [Workers -> 0..MaxTried]
      /\ "LORS_SUCCESS" \in Codes /\ "LORS_TIMEOUT_EXPIRED" \in Codes
      /\ "LORS_IBP_FAILED" \in Codes
      /\ "lock" \in CreatePcs /\ "depot" \in CreatePcs /\ "alloc" \in CreatePcs
      /\ "refill" \in CreatePcs
  BY DEF DepotTypes, Codes, CreatePcs
<1>1. CASE LockNode(w)
  <2>1. CreateGoesOn(w) /\ NoCopy /\ pc[w] \in CreatePcs
    BY <1>0, <1>1 DEF LockNode, CreateGoesOn, NoCopy, jobVars, arrayVars
  <2>2. DepotTypes'
    BY <1>1 DEF LockNode, DepotTypes, depotVars, arrayVars, createVars
  <2>. QED  BY <2>1, <2>2
<1>2. CASE CreateTooLate(w)
  <2>1. CreateEnds(w) /\ NoCopy /\ pc[w] \in CreatePcs
    BY <1>0, <1>2 DEF CreateTooLate, EndCreate, CreateEnds, NoCopy, arrayVars
  <2>2. DepotTypes'
    BY <1>0, <1>2 DEF CreateTooLate, EndCreate, DepotTypes, depotVars, arrayVars
  <2>. QED  BY <2>1, <2>2
<1>3. CASE NextDepot(w)
  <2>1. CreateGoesOn(w) /\ NoCopy /\ pc[w] \in CreatePcs
    BY <1>0, <1>3 DEF NextDepot, CreateGoesOn, NoCopy, jobVars, arrayVars
  <2>2. DepotTypes'
    BY <1>3 DEF NextDepot, DepotTypes, depotVars, arrayVars
  <2>. QED  BY <2>1, <2>2
<1>4. CASE NoNextDepot(w)
  <2>1. CreateEnds(w)
    <3>1. \E c \in Codes : EndCreate(w, c)
      <4>1. CASE tried[w] = 0
        BY <4>1, <1>0, <1>4 DEF NoNextDepot
      <4>2. CASE tried[w] # 0
        BY <4>2, <1>0, <1>4 DEF NoNextDepot
      <4>. QED  BY <4>1, <4>2
    <3>. QED  BY <3>1 DEF EndCreate, CreateEnds
  <2>2. NoCopy /\ pc[w] \in CreatePcs
    BY <1>0, <1>4 DEF NoNextDepot, NoCopy, arrayVars
  <2>3. DepotTypes'
    BY <1>0, <1>4 DEF NoNextDepot, EndCreate, DepotTypes, depotVars, arrayVars
  <2>. QED  BY <2>1, <2>2, <2>3
<1>5. CASE Allocated(w)
  <2>1. CreateEnds(w) /\ NoCopy /\ pc[w] \in CreatePcs
    BY <1>0, <1>5 DEF Allocated, EndCreate, CreateEnds, NoCopy
  <2>2. job[w] \in Jobs
    BY <2>1 DEF Shape, JobTypes, JobPcs
  <2>3. DepotTypes'
    BY <1>0, <1>5, <2>2 DEF Allocated, EndCreate, DepotTypes, depotVars
  <2>. QED  BY <2>1, <2>3
<1>6. CASE AllocateFails(w)
  <2>1. CreateGoesOn(w) /\ NoCopy /\ pc[w] \in CreatePcs
    BY <1>0, <1>6 DEF AllocateFails, CreateGoesOn, NoCopy, jobVars, arrayVars
  <2>2. DepotTypes'
    BY <1>6 DEF AllocateFails, DepotTypes, createVars, arrayVars
  <2>. QED  BY <2>1, <2>2
<1>7. CASE TryAgain(w)
  <2>1. listed' \subseteq Depots /\ bad' \subseteq Depots \ listed'
    BY <1>7 DEF TryAgain, RefillList, Spare, DepotTypes
  <2>2. created' = created /\ NoCopy /\ pc[w] \in CreatePcs
    BY <1>0, <1>7 DEF TryAgain, arrayVars, NoCopy
  <2>3. \/ /\ tried[w] < MaxTried /\ tried' = [tried EXCEPT ![w] = @ + 1] /\ hand' = hand
           /\ CreateGoesOn(w)
        \/ hand' = [hand EXCEPT ![w] = {}] /\ tried' = [tried EXCEPT ![w] = 0] /\ CreateEnds(w)
    BY <1>0, <1>7 DEF TryAgain, EndCreate, CreateGoesOn, CreateEnds, MayTryAgain, jobVars
  <2>4. hand' \in [Workers -> SUBSET Depots] /\ tried' \in [Workers -> 0..MaxTried]
    BY <1>0, <2>3 DEF DepotTypes
  <2>. QED  BY <2>1, <2>2, <2>3, <2>4 DEF DepotTypes
<1>. QED  BY <1>1, <1>2, <1>3, <1>4, <1>5, <1>6, <1>7 DEF Creates

LEMMA CreateInv ==
    ASSUME IInv, NEW w \in Workers, main \in {"allocate", "copy"}, Creates(w)
    PROVE  IInv'
<1>. TypeOK /\ JobTypes /\ Shape /\ OneWorkerPerJob /\ Written /\ Ended
  BY JobTyping DEF IInv
<1>1. /\ pc[w] \in CreatePcs /\ NoCopy /\ DepotTypes'
      /\ CreateGoesOn(w) \/ CreateEnds(w)
  BY CreateCases
<1>2. main = "allocate" /\ pc[w] \in JobPcs
  BY <1>1 DEF Shape, JobPcs
<1>3. JobTypes' /\ Shape' /\ OneWorkerPerJob'
  <2>1. CASE CreateGoesOn(w)
    <3>1. PICK p \in CreatePcs : Goto(w, p)
      BY <2>1 DEF CreateGoesOn
    <3>2. p \in PhasePcs
      BY <1>2 DEF PhasePcs, JobPcs, CreatePcs, CopyPcs
    <3>. QED  BY <1>1, <1>2, <2>1, <3>1, <3>2, GoesOn DEF CreateGoesOn, NoCopy, callVars, setVars
  <2>2. CASE CreateEnds(w)
    BY <1>1, <1>2, <2>2, JobEnds DEF CreateEnds, NoCopy, callVars, setVars
  <2>. QED  BY <1>1, <2>1, <2>2
<1>4. TypeOK'
  <2>1. pc' \in [Workers -> {"get", "lock", "depot", "alloc", "refill", "find", "copy", "ended"}]
    BY <1>3 DEF JobTypes, JobPcs, CreatePcs, CopyPcs
  <2>. QED  BY <2>1, <1>1, <1>3
            DEF TypeOK, DepotTypes, JobTypes, NoCopy, callVars, copyVars, setVars
<1>5. Written'
  BY <1>1, <1>2 DEF Written, NoCopy, setVars
<1>6. Ended' /\ CopyTrue' /\ NothingOnError'
  BY <1>1, <1>2, BusyEnded DEF Busy, NoCopy, setVars
<1>. QED  BY <1>3, <1>4, <1>5, <1>6 DEF IInv
-----------------------------------------------------------------------------
(* _lorsDoCopyNE. *)

\* Whatever is appended from the position on, the array has what the copy has
\* reached, and what it had reached before.
LEMMA AppendReached ==
    ASSUME NEW j \in Jobs, NEW p \in Nat, Begins(j) <= p, NEW n \in Nat, p + n <= Length,
           NEW s \in Seq(0..(Length - 1)), Reached(s, j, p),
           NEW t, t = s \o [i \in 1..n |-> p + i - 1]
    PROVE  /\ t \in Seq(0..(Length - 1)) /\ Len(t) = Len(s) + n
           /\ \A q \in Nat : Begins(j) <= q /\ q <= p + n => Reached(t, j, q)
<1>. DEFINE r == [i \in 1..n |-> p + i - 1]
<1>. Begins(j) \in Nat /\ Length \in Nat
  BY Blocks, CopyAssumption
<1>1. r \in Seq(0..(Length - 1)) /\ Len(r) = n
  <2>1. \A i \in 1..n : p + i - 1 \in 0..(Length - 1)
    OBVIOUS
  <2>. QED  BY <2>1
<1>2. t \in Seq(0..(Length - 1)) /\ Len(t) = Len(s) + n
  <2>. HIDE DEF r
  <2>1. t = s \o r
    BY DEF r
  <2>. QED  BY <1>1, <2>1
<1>3. ASSUME NEW q \in Nat, Begins(j) <= q, q <= p + n
      PROVE  Reached(t, j, q)
  <2>1. q - Begins(j) <= Len(t)
    BY <1>2, <1>3 DEF Reached
  <2>2. ASSUME Len(t) = q - Begins(j) PROVE t = Upto(j, q)
    <3>1. q = p + n /\ Len(s) = p - Begins(j)
      BY <1>2, <1>3, <2>2 DEF Reached
    <3>2. s = Upto(j, p)
      BY <3>1 DEF Reached
    <3>. DEFINE b == Begins(j)
    <3>3. s = [i \in 1..(p - b) |-> b + i - 1] /\ Upto(j, q) = [i \in 1..(q - b) |-> b + i - 1]
      BY <3>2 DEF Upto
    <3>. HIDE DEF b
    <3>4. b \in Nat /\ p - b \in Nat /\ q - b = (p - b) + n
      BY <1>3, <3>1 DEF b
    <3>. DEFINE u == [i \in 1..(q - b) |-> b + i - 1]
    <3>5. u \in Seq(Int) /\ Len(u) = q - b
      <4>1. \A i \in 1..(q - b) : b + i - 1 \in Int
        BY <3>4
      <4>. QED  BY <3>4, <4>1
    <3>6. ASSUME NEW i \in 1..Len(t) PROVE t[i] = u[i]
      <4>1. i \in 1..(q - b) /\ u[i] = b + i - 1
        BY <3>6, <2>2 DEF b
      <4>2. CASE i <= p - b
        <5>1. t[i] = s[i]
          BY <4>2, <3>1, <3>4, <1>1, <3>6 DEF b
        <5>. QED  BY <5>1, <4>1, <4>2, <3>3, <3>4
      <4>3. CASE i > p - b
        <5>1. i - (p - b) \in 1..n
          BY <4>1, <4>3, <3>4
        <5>2. t[i] = r[i - (p - b)]
          <6>. HIDE DEF r
          <6>1. t = s \o r /\ Len(s) = p - b
            BY <3>1 DEF r, b
          <6>2. i \in 1..(Len(s) + Len(r)) /\ i > Len(s)
            BY <6>1, <4>1, <4>3, <3>1, <3>4, <1>1 DEF b
          <6>3. (s \o r)[i] = r[i - Len(s)]
            BY <6>2, <1>1, ConcatProperties
          <6>. QED  BY <6>1, <6>3
        <5>. QED  BY <5>1, <5>2, <4>1, <3>4
      <4>. QED  BY <4>2, <4>3, <4>1, <3>4
    <3>7. Len(t) = Len(u)
      BY <2>2, <3>5 DEF b
    <3>8. t = u
      <4>. HIDE DEF u
      <4>1. t \in Seq(Int)
        <5>1. 0..(Length - 1) \subseteq Int
          OBVIOUS
        <5>. QED  BY <1>2, <5>1
      <4>. QED  BY <4>1, <3>5, <3>6, <3>7, SeqEqual
    <3>. QED  BY <3>8, <3>3
  <2>. QED  BY <2>1, <2>2 DEF Reached
<1>. QED  BY <1>2, <1>3

\* What a copying worker does to its own array and job.
OwnCopy(w) ==
    /\ main = "copy" /\ pc[w] \in CopyPcs /\ created' = created
    /\ UNCHANGED <<main, mappings, ret, callVars, depotVars, createVars, time>>
    /\ data' \in [Jobs -> Seq(0..(Length - 1))]
    /\ \A k \in Jobs : k # job[w] => data'[k] = data[k]

LEMMA OthersCopy ==
    ASSUME TypeOK, JobTypes, Shape, OneWorkerPerJob, Written, NEW w \in Workers, OwnCopy(w),
           \A v \in Workers : v # w => /\ pc'[v] = pc[v] /\ job'[v] = job[v]
                                       /\ from'[v] = from[v] /\ done'[v] = done[v],
           \A k \in Jobs : k # job[w] => status'[k] = status[k],
           status'[job[w]] # "JOB_INIT",
           status'[job[w]] = "JOB_COMMIT" =>
               job[w] \in created /\ data'[job[w]] = BlockData(job[w]),
           pc'[w] # "find", pc'[w] = "copy" => Copying(w)'
    PROVE  Written'
<1>1. job[w] \in Jobs
  BY DEF OwnCopy, Shape, JobTypes, JobPcs
<1>2. main' = "copy" /\ main = "copy" /\ created' = created
  BY DEF OwnCopy
<1>3. \A j \in Jobs : /\ status'[j] = "JOB_INIT" => data'[j] = << >>
                      /\ status'[j] = "JOB_COMMIT" => j \in created' /\ data'[j] = BlockData(j)
  BY <1>2 DEF Written, OwnCopy
<1>4. ASSUME NEW v \in Workers, v # w, pc'[v] \in CopyPcs
      PROVE  /\ pc'[v] = "find" => data'[job'[v]] = << >>
             /\ pc'[v] = "copy" => Copying(v)'
  <2>1. job[v] \in Jobs /\ job[v] # job[w]
    BY <1>1, <1>4, JobNumbers DEF Shape, OneWorkerPerJob, JobTypes, JobPcs, CopyPcs
  <2>2. data'[job'[v]] = data[job[v]] /\ job'[v] = job[v] /\ from'[v] = from[v]
        /\ done'[v] = done[v] /\ pc'[v] = pc[v]
    BY <1>4, <2>1 DEF OwnCopy
  <2>. QED  BY <2>2, <1>2 DEF Written, Copying, PartLen, Position
<1>. QED  BY <1>2, <1>3, <1>4 DEF Written, CopyPcs

\* A worker that copies has a rest of its part to get.
LEMMA CopyFacts ==
    ASSUME TypeOK, JobTypes, Shape, Written, NEW w \in Workers, main = "copy", pc[w] = "copy"
    PROVE  /\ job[w] \in Jobs /\ Copying(w)
           /\ from[w] \in Nat /\ done[w] \in Nat /\ Position(w) \in Nat
           /\ data[job[w]] \in Seq(0..(Length - 1))
           /\ Left(w) \in Nat \ {0}
           /\ Position(w) + Left(w) = PartEnd(job[w], from[w])
           /\ PartEnd(job[w], from[w]) \in Nat /\ from[w] < PartEnd(job[w], from[w])
           /\ PartEnd(job[w], from[w]) <= Ends(job[w]) /\ Ends(job[w]) <= Length
           /\ Begins(job[w]) \in Nat /\ Ends(job[w]) \in Nat
           /\ Begins(job[w]) <= Position(w)
<1>1. job[w] \in Jobs
  BY DEF Shape, JobTypes, JobPcs, CopyPcs
<1>2. Copying(w)
  BY DEF Written
<1>3. from[w] \in Nat /\ done[w] \in Nat /\ data[job[w]] \in Seq(0..(Length - 1))
  BY <1>1 DEF TypeOK
<1>4. Begins(job[w]) \in Nat /\ Ends(job[w]) \in Nat /\ Ends(job[w]) <= Length
  BY <1>1, Blocks
<1>. DEFINE e == PartEnd(job[w], from[w])
<1>5. e \in Nat /\ from[w] < e /\ e <= Ends(job[w])
  BY <1>1, <1>2, <1>3, Parts DEF Copying
<1>. HIDE DEF e
<1>6. PartLen(w) = e - from[w] /\ Left(w) = e - from[w] - done[w] /\ Position(w) = from[w] + done[w]
  BY DEF PartLen, Left, Position, e
<1>7. done[w] < e - from[w] /\ Begins(job[w]) <= from[w]
  BY <1>2, <1>6 DEF Copying
<1>8. /\ Left(w) \in Nat \ {0} /\ Position(w) + Left(w) = e /\ Position(w) \in Nat
      /\ Begins(job[w]) <= Position(w)
  BY SMTT(30), <1>3, <1>4, <1>5, <1>6, <1>7
<1>. QED  BY <1>1, <1>2, <1>3, <1>4, <1>5, <1>8 DEF e

LEMMA AppendsData ==
    ASSUME TypeOK, JobTypes, Shape, Written, NEW w \in Workers, main = "copy", pc[w] = "copy",
           NEW n \in 0..Left(w), Appends(w, n)
    PROVE  /\ data' \in [Jobs -> Seq(0..(Length - 1))] /\ created' = created
           /\ \A k \in Jobs : k # job[w] => data'[k] = data[k]
           /\ \A q \in Nat : Begins(job[w]) <= q /\ q <= Position(w) + n =>
                 Reached(data'[job[w]], job[w], q)
           /\ n > 0 => Len(data'[job[w]]) <= ArraySize(job[w]) - Left(w) + n
<1>. DEFINE j == job[w]
           p == Position(w)
           r == [i \in 1..n |-> p + i - 1]
           t == data[j] \o r
<1>1. /\ j \in Jobs /\ Copying(w) /\ p \in Nat /\ data[j] \in Seq(0..(Length - 1))
      /\ Left(w) \in Nat \ {0} /\ p + Left(w) <= Length /\ Begins(j) <= p
      /\ from[w] \in Nat /\ done[w] \in Nat /\ Length \in Nat
      /\ Begins(j) \in Nat /\ Ends(j) \in Nat
  BY CopyFacts, CopyAssumption
<1>2. Reached(data[j], j, p)
  BY <1>1 DEF Copying
<1>3. n \in Nat /\ p + n <= Length
  BY <1>1
<1>4. Rest(w, n) = r
  BY DEF Rest, Position
<1>5. data' = [data EXCEPT ![j] = t] /\ created' = created
      /\ (n > 0 => Len(data[j]) + Left(w) <= ArraySize(j))
  BY <1>4 DEF Appends
<1>6. data'[j] = t /\ \A k \in Jobs : k # j => data'[k] = data[k]
  BY <1>1, <1>5 DEF TypeOK
<1>7. /\ t \in Seq(0..(Length - 1)) /\ Len(t) = Len(data[j]) + n
      /\ \A q \in Nat : Begins(j) <= q /\ q <= p + n => Reached(t, j, q)
  <2>. HIDE DEF j, p
  <2>. QED  BY <1>1, <1>2, <1>3, AppendReached
<1>. HIDE DEF t
<1>8. data' \in [Jobs -> Seq(0..(Length - 1))]
  BY <1>5, <1>7 DEF TypeOK
<1>9. n > 0 => Len(t) <= ArraySize(j) - Left(w) + n
  <2>1. ArraySize(j) \in Int
    BY <1>1 DEF ArraySize
  <2>2. Len(data[j]) \in Nat
    BY <1>1
  <2>. HIDE DEF j
  <2>. QED  BY SMTT(30), <2>1, <2>2, <1>1, <1>3, <1>5, <1>7
<1>. QED  BY <1>5, <1>6, <1>7, <1>8, <1>9

\* The types, once the parts a copying worker changes are known.
LEMMA CopyTypes ==
    ASSUME TypeOK, JobTypes', NEW w \in Workers, OwnCopy(w), sources > 0,
           from' \in [Workers -> 0..(Length - 1)], done' \in [Workers -> 0..(Length - 1)],
           source' \in [Workers -> 1..Max({sources, 1})]
    PROVE  TypeOK'
<1>1. pc' \in [Workers -> {"get", "lock", "depot", "alloc", "refill", "find", "copy", "ended"}]
  BY DEF JobTypes, JobPcs, CreatePcs, CopyPcs
<1>2. source' \in [Workers -> 1..Max({sources', 1})]
  BY DEF OwnCopy, callVars
<1>. QED  BY <1>1, <1>2 DEF TypeOK, JobTypes, OwnCopy, callVars, depotVars, createVars

\* No part, and the first source: what a worker starts with.
LEMMA NoPartTypes ==
    ASSUME TypeOK, NEW w \in Workers, NoPart(w)
    PROVE  /\ from' \in [Workers -> 0..(Length - 1)] /\ done' \in [Workers -> 0..(Length - 1)]
           /\ source' \in [Workers -> 1..Max({sources, 1})]
           /\ \A v \in Workers : v # w => from'[v] = from[v] /\ done'[v] = done[v]
<1>1. Length \in Nat \ {0} /\ sources \in Nat
  BY CopyAssumption DEF TypeOK
<1>2. Max({sources, 1}) \in Nat \ {0}
  BY <1>1, SourceRange
<1>. DEFINE m == Max({sources, 1})
<1>3. 0 \in 0..(Length - 1) /\ 1 \in 1..m
  BY <1>1, <1>2
<1>. QED  BY <1>3 DEF TypeOK, NoPart

LEMMA BeginPartTypes ==
    ASSUME TypeOK, sources > 0, NEW w \in Workers, NEW x \in 0..(Length - 1), BeginPart(w, x)
    PROVE  /\ from' \in [Workers -> 0..(Length - 1)] /\ done' \in [Workers -> 0..(Length - 1)]
           /\ source' \in [Workers -> 1..Max({sources, 1})]
           /\ \A v \in Workers : v # w => from'[v] = from[v] /\ done'[v] = done[v]
           /\ from'[w] = x /\ done'[w] = 0
<1>1. Length \in Nat \ {0} /\ sources \in Nat
  BY CopyAssumption DEF TypeOK
<1>2. Max({sources, 1}) = sources
  BY <1>1, SourceRange
<1>. DEFINE m == Max({sources, 1})
<1>3. 0 \in 0..(Length - 1) /\ sources \in 1..m
  BY <1>1, <1>2
<1>. QED  BY <1>3 DEF TypeOK, BeginPart

\* A worker at the beginning of a part, with what has been reached.
LEMMA AtPart ==
    ASSUME NEW w \in Workers, job'[w] \in Jobs, job'[w] \in created', from'[w] \in Nat,
           Begins(job'[w]) <= from'[w], from'[w] < Ends(job'[w]), done'[w] = 0,
           Reached(data'[job'[w]], job'[w], from'[w])
    PROVE  Copying(w)'
<1>1. from'[w] < PartEnd(job'[w], from'[w]) /\ PartEnd(job'[w], from'[w]) \in Nat
  BY Parts
<1>2. done'[w] < PartLen(w)'
  <2>. DEFINE e == PartEnd(job'[w], from'[w])
  <2>1. PartLen(w)' = e - from'[w]
    BY DEF PartLen
  <2>. HIDE DEF e
  <2>2. e \in Nat /\ from'[w] < e
    BY <1>1 DEF e
  <2>. QED  BY <2>1, <2>2
<1>3. Position(w)' = from'[w]
  BY DEF Position
<1>. QED  BY <1>2, <1>3 DEF Copying

\* A worker whose part is over, or that has failed, is done with its job.
LEMMA JobDone ==
    ASSUME IInv, NEW w \in Workers, pc[w] \in CopyPcs, OwnCopy(w), NoPart(w),
           NEW st \in {"JOB_COMMIT", "JOB_FAILED"}, NEW c \in Codes, EndJob(w, st, c),
           st = "JOB_COMMIT" => job[w] \in created /\ data'[job[w]] = BlockData(job[w])
    PROVE  IInv'
<1>. TypeOK /\ JobTypes /\ Shape /\ OneWorkerPerJob /\ Written /\ Ended
  BY JobTyping DEF IInv
<1>1. main = "copy" /\ sources > 0 /\ main' = main /\ sources' = sources /\ pc[w] \in JobPcs
  BY DEF OwnCopy, Shape, callVars, JobPcs
<1>2. /\ JobTypes' /\ Shape' /\ OneWorkerPerJob'
      /\ job[w] \in Jobs
      /\ \A j \in Jobs : status'[j] = IF j = job[w] THEN st ELSE status[j]
      /\ \A v \in Workers : v # w => pc'[v] = pc[v] /\ job'[v] = job[v]
      /\ pc'[w] \in {"get", "ended"}
  BY <1>1, JobEnds
<1>3. TypeOK'
  BY <1>1, <1>2, NoPartTypes, CopyTypes
<1>4. Written'
  <2>1. \A v \in Workers : v # w => from'[v] = from[v] /\ done'[v] = done[v]
    BY NoPartTypes
  <2>2. status'[job[w]] = st /\ pc'[w] # "find" /\ pc'[w] # "copy"
    BY <1>2
  <2>3. \A k \in Jobs : k # job[w] => status'[k] = status[k]
    BY <1>2
  <2>. QED  BY <1>2, <2>1, <2>2, <2>3, OthersCopy
<1>5. Ended' /\ CopyTrue' /\ NothingOnError'
  BY <1>1, BusyEnded DEF Busy, OwnCopy
<1>. QED  BY <1>2, <1>3, <1>4, <1>5 DEF IInv

\* A worker that goes on with its job, at a place where it may be.
LEMMA JobGoesOn ==
    ASSUME IInv, NEW w \in Workers, pc[w] \in CopyPcs, OwnCopy(w),
           Goto(w, "copy"), UNCHANGED <<status, code, job, result>>,
           from' \in [Workers -> 0..(Length - 1)], done' \in [Workers -> 0..(Length - 1)],
           source' \in [Workers -> 1..Max({sources, 1})],
           \A v \in Workers : v # w => from'[v] = from[v] /\ done'[v] = done[v],
           Copying(w)'
    PROVE  IInv'
<1>. TypeOK /\ JobTypes /\ Shape /\ OneWorkerPerJob /\ Written /\ Ended
  BY JobTyping DEF IInv
<1>1. main = "copy" /\ sources > 0 /\ main' = main /\ sources' = sources /\ pc[w] \in JobPcs
  BY DEF OwnCopy, Shape, callVars, JobPcs
<1>2. "copy" \in PhasePcs
  BY <1>1 DEF PhasePcs, JobPcs, CreatePcs, CopyPcs
<1>3. JobTypes' /\ Shape' /\ OneWorkerPerJob'
  BY <1>1, <1>2, GoesOn
<1>4. TypeOK'
  BY <1>1, <1>3, CopyTypes
<1>5. Written'
  <2>1. \A v \in Workers : pc'[v] = IF v = w THEN "copy" ELSE pc[v]
    BY DEF Goto, JobTypes
  <2>2. status[job[w]] = "JOB_CHECKOUT"
    BY <1>1 DEF OneWorkerPerJob, Shape
  <2>. QED  BY <2>1, <2>2, OthersCopy
<1>6. Ended' /\ CopyTrue' /\ NothingOnError'
  BY <1>1, BusyEnded DEF Busy, OwnCopy
<1>. QED  BY <1>3, <1>4, <1>5, <1>6 DEF IInv

LEMMA FindDepotInv ==
    ASSUME IInv, NEW w \in Workers, main \in {"allocate", "copy"}, FindDepot(w)
    PROVE  IInv'
<1>. TypeOK /\ JobTypes /\ Shape /\ OneWorkerPerJob /\ Written /\ Ended
  BY JobTyping DEF IInv
<1>0. main = "copy" /\ pc[w] = "find" /\ pc[w] \in CopyPcs /\ sources > 0 /\ data' = data
      /\ created' = created
  BY DEF FindDepot, Shape, CopyPcs, arrayVars
<1>1. CASE job[w] \in created
  <2>. DEFINE j == job[w]
  <2>1. BeginPart(w, Begins(j)) /\ Goto(w, "copy") /\ UNCHANGED <<status, code, job, result>>
    BY <1>1 DEF FindDepot, jobVars
  <2>2. OwnCopy(w)
    BY <1>0, <1>1 DEF OwnCopy, FindDepot, TypeOK
  <2>3. j \in Jobs /\ data[j] = << >>
    BY <1>0 DEF Shape, JobTypes, JobPcs, Written
  <2>4. /\ Begins(j) \in Nat /\ Begins(j) < Ends(j) /\ Ends(j) <= Length /\ Ends(j) \in Nat
        /\ Length \in Nat
    BY <2>3, Blocks, CopyAssumption
  <2>5. Begins(j) \in 0..(Length - 1)
    BY <2>4
  <2>6. /\ from' \in [Workers -> 0..(Length - 1)] /\ done' \in [Workers -> 0..(Length - 1)]
        /\ source' \in [Workers -> 1..Max({sources, 1})]
        /\ \A v \in Workers : v # w => from'[v] = from[v] /\ done'[v] = done[v]
        /\ from'[w] = Begins(j) /\ done'[w] = 0
    BY <1>0, <2>1, <2>5, BeginPartTypes
  <2>7. Reached(data'[j], j, Begins(j))
    <3>. DEFINE b == Begins(j)
    <3>. HIDE DEF j
    <3>1. data'[j] = << >>
      BY <1>0, <2>3
    <3>2. Upto(j, b) = [i \in 1..(b - b) |-> b + i - 1] /\ b \in Nat
      BY <2>4 DEF Upto
    <3>. HIDE DEF b
    <3>3. b - b = 0
      BY <3>2
    <3>4. [i \in 1..(b - b) |-> b + i - 1] = << >>
      BY <3>3
    <3>5. Reached(<< >>, j, b)
      BY <3>2, <3>3, <3>4 DEF Reached, b
    <3>. QED  BY <3>1, <3>5 DEF b
  <2>8. Copying(w)'
    <3>1. job'[w] = j /\ from'[w] = Begins(j) /\ done'[w] = 0 /\ created' = created
      BY <1>0, <2>1, <2>6
    <3>. QED  BY <3>1, <1>1, <2>3, <2>4, <2>7, AtPart
  <2>. QED  BY <1>0, <2>1, <2>2, <2>6, <2>8, JobGoesOn
<1>2. CASE job[w] \notin created
  <2>1. main' = "aborted" /\ UNCHANGED <<pc, copyVars, jobVars, job, result, mappings, ret, time>>
        /\ UNCHANGED <<callVars, depotVars, arrayVars, createVars>>
    BY <1>2 DEF FindDepot
  <2>2. JobTypes'
    BY <2>1 DEF JobTypes, jobVars
  <2>3. TypeOK'
    BY <2>1, <2>2, TypeFromParts DEF TypeOK
  <2>4. Shape' /\ OneWorkerPerJob' /\ Written'
    BY <2>1 DEF Shape, OneWorkerPerJob, Written, jobVars
  <2>5. Ended' /\ CopyTrue' /\ NothingOnError'
    BY <1>0, <2>1, BusyEnded DEF Busy
  <2>. QED  BY <2>3, <2>4, <2>5 DEF IInv
<1>. QED  BY <1>1, <1>2

LEMMA CopyTooLateInv ==
    ASSUME IInv, NEW w \in Workers, main \in {"allocate", "copy"}, CopyTooLate(w)
    PROVE  IInv'
<1>1. main = "copy" /\ pc[w] \in CopyPcs
  BY DEF IInv, Shape, CopyTooLate, CopyPcs
<1>2. OwnCopy(w)
  BY <1>1 DEF IInv, TypeOK, OwnCopy, CopyTooLate, arrayVars, setVars
<1>3. "LORS_TIMEOUT_EXPIRED" \in Codes
  BY DEF Codes
<1>. QED  BY <1>1, <1>2, <1>3, JobDone DEF CopyTooLate

LEMMA CopiedInv ==
    ASSUME IInv, NEW w \in Workers, main \in {"allocate", "copy"}, Copied(w)
    PROVE  IInv'
<1>. TypeOK /\ JobTypes /\ Shape /\ OneWorkerPerJob /\ Written /\ Ended
  BY JobTyping DEF IInv
<1>. DEFINE j == job[w]
<1>1. main = "copy" /\ pc[w] = "copy" /\ pc[w] \in CopyPcs /\ sources > 0
  BY DEF Copied, Shape, CopyPcs
<1>2. PICK n \in 1..Left(w) :
          /\ Appends(w, n)
          /\ n < Left(w) => done' = [done EXCEPT ![w] = @ + n]
                            /\ UNCHANGED <<pc, from, source, jobVars, job, result>>
          /\ ~(n < Left(w)) /\ from[w] + PartLen(w) < Ends(j) =>
                /\ BeginPart(w, from[w] + PartLen(w))
                /\ UNCHANGED <<pc, jobVars, job, result>>
          /\ ~(n < Left(w)) /\ ~(from[w] + PartLen(w) < Ends(j)) =>
                EndJob(w, "JOB_COMMIT", "LORS_SUCCESS") /\ NoPart(w)
  BY DEF Copied
<1>. DEFINE e == PartEnd(j, from[w])
<1>3. /\ j \in Jobs /\ Copying(w)
      /\ from[w] \in Nat /\ done[w] \in Nat /\ Position(w) \in Nat
      /\ Left(w) \in Nat \ {0} /\ Position(w) + Left(w) = e
      /\ e \in Nat /\ from[w] < e /\ e <= Ends(j) /\ Ends(j) <= Length
      /\ Begins(j) \in Nat /\ Ends(j) \in Nat /\ Begins(j) <= Position(w)
      /\ Length \in Nat
  BY <1>1, CopyFacts, CopyAssumption
<1>4. /\ data' \in [Jobs -> Seq(0..(Length - 1))] /\ created' = created
      /\ \A k \in Jobs : k # j => data'[k] = data[k]
      /\ \A q \in Nat : Begins(j) <= q /\ q <= Position(w) + n => Reached(data'[j], j, q)
      /\ Len(data'[j]) <= ArraySize(j) - Left(w) + n
  <2>1. n \in 0..Left(w) /\ n > 0
    BY <1>2, <1>3
  <2>. QED  BY <1>1, <1>2, <2>1, AppendsData
<1>5. OwnCopy(w)
  BY <1>1, <1>4 DEF OwnCopy, Copied, setVars
<1>6. from[w] + PartLen(w) = e /\ Position(w) = from[w] + done[w]
      /\ job[w] \in created /\ Begins(j) <= from[w] /\ from[w] < Ends(j)
  <2>1. PartLen(w) = e - from[w]
    BY DEF PartLen
  <2>2. Copying(w)
    BY <1>3
  <2>3. from[w] + PartLen(w) = e
    <3>. HIDE DEF e
    <3>. QED  BY <2>1, <1>3
  <2>. QED  BY <2>2, <2>3 DEF Copying, Position
<1>. HIDE DEF e
<1>7. CASE n < Left(w)
  <2>1. done' = [done EXCEPT ![w] = @ + n]
        /\ UNCHANGED <<pc, from, source, status, code, job, result>>
    BY <1>2, <1>7 DEF jobVars
  <2>2. Goto(w, "copy")
    <3>1. pc' = [pc EXCEPT ![w] = pc[w]]
      BY <2>1 DEF JobTypes
    <3>. QED  BY <3>1, <1>1 DEF Goto
  <2>3. done[w] + n < e - from[w] /\ done[w] + n \in 0..(Length - 1)
    BY <1>2, <1>3, <1>6, <1>7
  <2>4. done' \in [Workers -> 0..(Length - 1)] /\ from' \in [Workers -> 0..(Length - 1)]
        /\ source' \in [Workers -> 1..Max({sources, 1})]
    BY <2>1, <2>3 DEF TypeOK
  <2>5. (\A v \in Workers : v # w => from'[v] = from[v] /\ done'[v] = done[v])
        /\ done'[w] = done[w] + n /\ from'[w] = from[w]
    BY <2>1 DEF TypeOK
  <2>6. Copying(w)'
    <3>1. PartLen(w)' = e - from[w]
      BY <2>1 DEF PartLen, e
    <3>2. Position(w)' = Position(w) + n
      <4>1. Position(w)' = from[w] + (done[w] + n)
        BY <2>5 DEF Position
      <4>. QED  BY <4>1, <1>2, <1>3, <1>6
    <3>3. Reached(data'[j], j, Position(w) + n)
      <4>1. Position(w) + n \in Nat /\ Begins(j) <= Position(w) + n
            /\ Position(w) + n <= Position(w) + n
        BY <1>2, <1>3
      <4>. QED  BY <4>1, <1>4
    <3>4. done'[w] < PartLen(w)'
      BY <2>3, <2>5, <3>1
    <3>. QED  BY <3>2, <3>3, <3>4, <2>1, <2>5, <1>4, <1>6 DEF Copying
  <2>. QED  BY <1>1, <1>5, <2>1, <2>2, <2>4, <2>5, <2>6, JobGoesOn
<1>8. CASE ~(n < Left(w)) /\ e < Ends(j)
  <2>0. n = Left(w) /\ Position(w) + n = e
    BY <1>2, <1>3, <1>8
  <2>1. BeginPart(w, e) /\ UNCHANGED <<pc, status, code, job, result>>
    BY <1>2, <1>6, <1>8 DEF jobVars
  <2>2. Goto(w, "copy")
    <3>1. pc' = [pc EXCEPT ![w] = pc[w]]
      BY <2>1 DEF JobTypes
    <3>. QED  BY <3>1, <1>1 DEF Goto
  <2>3. e \in 0..(Length - 1)
    BY <1>3, <1>8
  <2>4. /\ from' \in [Workers -> 0..(Length - 1)] /\ done' \in [Workers -> 0..(Length - 1)]
        /\ source' \in [Workers -> 1..Max({sources, 1})]
        /\ \A v \in Workers : v # w => from'[v] = from[v] /\ done'[v] = done[v]
        /\ from'[w] = e /\ done'[w] = 0
    BY <1>1, <2>1, <2>3, BeginPartTypes
  <2>5. Begins(j) <= e /\ Reached(data'[j], j, e)
    BY SMTT(30), <1>3, <1>4, <1>6, <2>0
  <2>6. Copying(w)'
    <3>1. job'[w] = j /\ created' = created
      BY <2>1, <1>4
    <3>. QED  BY <3>1, <1>3, <1>6, <1>8, <2>4, <2>5, AtPart
  <2>. QED  BY <1>1, <1>5, <2>1, <2>2, <2>4, <2>6, JobGoesOn
<1>9. CASE ~(n < Left(w)) /\ ~(e < Ends(j))
  <2>0. n = Left(w) /\ Position(w) + n = e /\ e = Ends(j)
    BY <1>2, <1>3, <1>9
  <2>1. EndJob(w, "JOB_COMMIT", "LORS_SUCCESS") /\ NoPart(w)
    BY <1>2, <1>6, <1>9
  <2>2. data'[j] = BlockData(j)
    <3>. DEFINE d == data'[j]
    <3>1. Reached(d, j, e) /\ Len(d) \in Nat
      BY <1>3, <1>4, <1>6, <2>0
    <3>2. Len(d) <= ArraySize(j) - Left(w) + n
      BY <1>4
    <3>. HIDE DEF d
    <3>3. Len(d) <= Ends(j) - Begins(j)
      BY <3>1, <3>2, <2>0, <1>3 DEF ArraySize
    <3>4. e - Begins(j) <= Len(d) /\ (Len(d) = e - Begins(j) => d = Upto(j, e))
      BY <3>1 DEF Reached
    <3>5. Len(d) = e - Begins(j)
      BY <3>1, <3>3, <3>4, <2>0, <1>3
    <3>6. Upto(j, Ends(j)) = BlockData(j)
      BY DEF Upto, BlockData
    <3>. QED  BY <3>4, <3>5, <3>6, <2>0 DEF d
  <2>3. "LORS_SUCCESS" \in Codes
    BY DEF Codes
  <2>. QED  BY <1>1, <1>5, <1>6, <2>1, <2>2, <2>3, JobDone
<1>. QED  BY <1>7, <1>8, <1>9

LEMMA CopyFailsInv ==
    ASSUME IInv, NEW w \in Workers, main \in {"allocate", "copy"}, CopyFails(w)
    PROVE  IInv'
<1>. TypeOK /\ JobTypes /\ Shape /\ OneWorkerPerJob /\ Written /\ Ended
  BY JobTyping DEF IInv
<1>. DEFINE j == job[w]
<1>1. main = "copy" /\ pc[w] = "copy" /\ pc[w] \in CopyPcs /\ sources > 0
  BY DEF CopyFails, Shape, CopyPcs
<1>2. PICK n \in 0..Left(w) : Appends(w, n)
  BY DEF CopyFails
<1>3. /\ j \in Jobs /\ Copying(w)
      /\ from[w] \in Nat /\ done[w] \in Nat /\ Position(w) \in Nat /\ Left(w) \in Nat \ {0}
      /\ Length \in Nat \ {0}
  BY <1>1, CopyFacts, CopyAssumption
<1>4. /\ data' \in [Jobs -> Seq(0..(Length - 1))] /\ created' = created
      /\ \A k \in Jobs : k # j => data'[k] = data[k]
      /\ \A q \in Nat : Begins(j) <= q /\ q <= Position(w) + n => Reached(data'[j], j, q)
  BY <1>1, <1>2, AppendsData
<1>5. OwnCopy(w)
  BY <1>1, <1>4 DEF OwnCopy, CopyFails, setVars
<1>6. Position(w) = from[w] + done[w] /\ job[w] \in created /\ Begins(j) <= from[w]
      /\ from[w] < Ends(j)
  BY <1>3 DEF Copying, Position
<1>7. CASE OtherSource(w) /\ source' = [source EXCEPT ![w] = @ - 1]
           /\ done' = [done EXCEPT ![w] = 0] /\ UNCHANGED <<pc, from, jobVars, job, result>>
  <2>1. UNCHANGED <<pc, status, code, job, result, from>>
    BY <1>7 DEF jobVars
  <2>2. Goto(w, "copy")
    <3>1. pc' = [pc EXCEPT ![w] = pc[w]]
      BY <2>1 DEF JobTypes
    <3>. QED  BY <3>1, <1>1 DEF Goto
  <2>3. from' \in [Workers -> 0..(Length - 1)] /\ done' \in [Workers -> 0..(Length - 1)]
    BY <1>3, <1>7, <2>1 DEF TypeOK
  <2>4. source' \in [Workers -> 1..Max({sources, 1})]
    <3>. DEFINE m == Max({sources, 1})
    <3>1. m \in Nat /\ source \in [Workers -> 1..m]
      BY SourceRange, CopyAssumption DEF TypeOK
    <3>. HIDE DEF m
    <3>2. source[w] - 1 \in 1..m
      BY <1>7, <3>1 DEF OtherSource
    <3>3. source' \in [Workers -> 1..m]
      BY <1>7, <3>1, <3>2
    <3>. QED  BY <3>3 DEF m
  <2>5. (\A v \in Workers : v # w => from'[v] = from[v] /\ done'[v] = done[v])
        /\ done'[w] = 0 /\ from'[w] = from[w]
    BY <1>7, <2>1 DEF TypeOK
  <2>6. Reached(data'[j], j, from[w])
    <3>1. from[w] <= Position(w) + n
      BY <1>2, <1>3, <1>6
    <3>. QED  BY <3>1, <1>3, <1>4, <1>6
  <2>7. Copying(w)'
    <3>1. job'[w] = j /\ created' = created
      BY <2>1, <1>4
    <3>. QED  BY <3>1, <1>3, <1>6, <2>5, <2>6, AtPart
  <2>. QED  BY <1>1, <1>5, <2>1, <2>2, <2>3, <2>4, <2>5, <2>7, JobGoesOn
<1>8. CASE EndJob(w, "JOB_FAILED", "LORS_IBP_FAILED") /\ NoPart(w)
  <2>1. "LORS_IBP_FAILED" \in Codes
    BY DEF Codes
  <2>. QED  BY <1>1, <1>5, <1>8, <2>1, JobDone
<1>. QED  BY <1>7, <1>8 DEF CopyFails
-----------------------------------------------------------------------------
(* lorsSetCopy. *)

\* When no worker is left, no job is in hand.
LEMMA NobodyWorks ==
    ASSUME Shape, AllEnded
    PROVE  \A w \in Workers : job[w] = NoJob
BY DEF Shape, AllEnded, JobPcs, CreatePcs, CopyPcs

LEMMA JoinCodes == ASSUME JobTypes PROVE JoinCode \in Codes
<1>. DEFINE F == {w \in Workers : result[w] # "LORS_SUCCESS"}
<1>1. CASE F = {}
  BY <1>1 DEF JoinCode, Codes
<1>2. CASE F # {}
  <2>1. NThreads \in Nat /\ F \in SUBSET Nat /\ \A w \in F : w <= NThreads
    BY CopyAssumption DEF Workers
  <2>2. Max(F) \in F
    <3>. HIDE DEF F
    <3>. QED  BY <1>2, <2>1, GreatestNumber
  <2>. QED  BY <1>2, <2>2 DEF JoinCode, JobTypes
<1>. QED  BY <1>1, <1>2

LEMMA LastCodes == ASSUME JobTypes PROVE LastCode \in Codes
<1>1. CASE Uncommitted = {}
  BY <1>1, JoinCodes DEF LastCode
<1>2. CASE Uncommitted # {}
  <2>1. Uncommitted \subseteq Jobs
    BY DEF Uncommitted
  <2>2. Max(Uncommitted) \in Uncommitted
    BY <1>2, <2>1, JobNumbers, GreatestNumber
  <2>. QED  BY <1>2, <2>1, <2>2 DEF LastCode, JobTypes
<1>. QED  BY <1>1, <1>2

\* A new pool of workers.
LEMMA StartInv ==
    ASSUME IInv, main \in {"begin", "allocate"}, AllEnded, sources > 0,
           NEW p \in {"allocate", "copy"}, StartWorkers(p), mappings' \subseteq Jobs, ret' = ret,
           UNCHANGED <<callVars, depotVars, arrayVars, job, createVars, copyVars, time>>
    PROVE  IInv'
<1>. TypeOK /\ JobTypes /\ Shape /\ OneWorkerPerJob /\ Written /\ Ended
  BY JobTyping DEF IInv
<1>1. /\ main' = p /\ main' \in {"allocate", "copy"}
      /\ status' = [j \in Jobs |-> "JOB_INIT"] /\ code' = [j \in Jobs |-> "LORS_SUCCESS"]
      /\ pc' = [w \in Workers |-> "get"] /\ result' = [w \in Workers |-> "LORS_SUCCESS"]
      /\ job' = job /\ ret' = "none" /\ data' = data /\ sources' = sources
  BY DEF StartWorkers, Ended, arrayVars, callVars
<1>2. \A w \in Workers : job[w] = NoJob
  BY NobodyWorks
<1>3. JobTypes'
  BY <1>1 DEF JobTypes, Codes
<1>4. TypeOK'
  BY <1>1, <1>3, TypeFromParts DEF TypeOK
<1>5. Shape'
  BY <1>1, <1>2 DEF Shape, JobPcs, CreatePcs, CopyPcs
<1>6. OneWorkerPerJob'
  BY <1>1, <1>2 DEF OneWorkerPerJob
<1>7. Written'
  BY <1>1 DEF Written
<1>8. Ended' /\ CopyTrue' /\ NothingOnError'
  BY <1>1 DEF Ended, CopyTrue, NothingOnError
<1>. QED  BY <1>4, <1>5, <1>6, <1>7, <1>8 DEF IInv

\* The call returns, with a result that is true of what it leaves.
LEMMA ReturnInv ==
    ASSUME IInv, AllEnded, NEW S \in SUBSET Jobs,
           NEW c \in Codes \cup {"LORS_HAS_HOLE", "LORS_PARTIAL"}, Return(c, S),
           UNCHANGED <<callVars, depotVars, arrayVars, job, createVars, copyVars, time>>,
           c \in {"LORS_SUCCESS", "LORS_PARTIAL"} =>
               \A j \in S : j \in created /\ data[j] = BlockData(j),
           c = "LORS_PARTIAL" => S # {},
           c \notin {"LORS_SUCCESS", "LORS_PARTIAL"} => \A j \in S : data[j] = << >>
    PROVE  IInv'
<1>. TypeOK /\ JobTypes /\ Shape /\ OneWorkerPerJob /\ Written /\ Ended
  BY JobTyping DEF IInv
<1>1. /\ main' = "returned" /\ ret' = c /\ mappings' = S
      /\ UNCHANGED <<status, code, pc, result, job, data, created>>
  BY DEF Return, jobVars, arrayVars
<1>2. \A w \in Workers : job[w] = NoJob
  BY NobodyWorks
<1>3. JobTypes'
  BY <1>1 DEF JobTypes
<1>4. TypeOK'
  BY <1>1, <1>3, TypeFromParts DEF TypeOK
<1>5. Shape' /\ OneWorkerPerJob' /\ Written' /\ Ended'
  BY <1>1, <1>2 DEF Shape, OneWorkerPerJob, Written, Ended
<1>6. CopyTrue'
  BY <1>1 DEF CopyTrue, BlockData
<1>7. NothingOnError'
  BY <1>1 DEF NothingOnError
<1>. QED  BY <1>4, <1>5, <1>6, <1>7 DEF IInv

LEMMA BeginInv == ASSUME IInv, Begin PROVE IInv'
<1>1. AllEnded /\ main = "begin"
  BY DEF IInv, Shape, Begin, AllEnded
<1>2. UNCHANGED <<callVars, depotVars, arrayVars, job, createVars, copyVars, time>>
  BY DEF Begin
<1>3. CASE \E c \in {"LORS_TIMEOUT_EXPIRED", "LORS_HAS_HOLE"} : Return(c, {})
  <2>1. PICK c \in {"LORS_TIMEOUT_EXPIRED", "LORS_HAS_HOLE"} : Return(c, {})
    BY <1>3
  <2>2. c \in Codes \cup {"LORS_HAS_HOLE", "LORS_PARTIAL"}
        /\ c \notin {"LORS_SUCCESS", "LORS_PARTIAL"}
    BY DEF Codes
  <2>3. {} \in SUBSET Jobs
    OBVIOUS
  <2>. QED  BY <1>1, <1>2, <2>1, <2>2, <2>3, ReturnInv
<1>4. CASE sources > 0 /\ StartWorkers("allocate") /\ UNCHANGED <<mappings, ret>>
  <2>1. mappings' \subseteq Jobs /\ ret' = ret
    BY <1>4 DEF IInv, TypeOK
  <2>. QED  BY <1>1, <1>2, <1>4, <2>1, StartInv
<1>. QED  BY <1>3, <1>4 DEF Begin

LEMMA EndAllocationInv == ASSUME IInv, EndAllocation PROVE IInv'
<1>1. AllEnded /\ main = "allocate" /\ sources > 0 /\ \A j \in Jobs : data[j] = << >>
  BY DEF IInv, Shape, Written, EndAllocation
<1>2. UNCHANGED <<callVars, depotVars, arrayVars, job, createVars, copyVars, time>>
  BY DEF EndAllocation
<1>3. JoinCode \in Codes
  BY JoinCodes, JobTyping DEF IInv
<1>4. CASE \E c \in Codes \ {"LORS_SUCCESS"}, S \in SUBSET Jobs : Return(c, S)
  <2>1. PICK c \in Codes \ {"LORS_SUCCESS"}, S \in SUBSET Jobs : Return(c, S)
    BY <1>4
  <2>2. c \in Codes \cup {"LORS_HAS_HOLE", "LORS_PARTIAL"}
        /\ c \notin {"LORS_SUCCESS", "LORS_PARTIAL"}
    BY DEF Codes
  <2>. QED  BY <1>1, <1>2, <2>1, <2>2, ReturnInv
<1>5. CASE StartWorkers("copy") /\ mappings' = Jobs /\ UNCHANGED ret
  BY <1>1, <1>2, <1>5, StartInv
<1>6. \/ \E c \in Codes \ {"LORS_SUCCESS"}, S \in SUBSET Jobs : Return(c, S)
      \/ StartWorkers("copy") /\ mappings' = Jobs /\ UNCHANGED ret
  <2>1. "LORS_TIMEOUT_EXPIRED" \in Codes \ {"LORS_SUCCESS"}
        /\ {} \in SUBSET Jobs /\ Jobs \in SUBSET Jobs
    BY DEF Codes
  <2>. QED  BY <1>3, <2>1 DEF EndAllocation
<1>. QED  BY <1>4, <1>5, <1>6

LEMMA EndCopyInv == ASSUME IInv, EndCopy PROVE IInv'
<1>1. AllEnded /\ main = "copy" /\ Return(ReturnCode, Kept)
  BY DEF EndCopy
<1>2. UNCHANGED <<callVars, depotVars, arrayVars, job, createVars, copyVars, time>>
  BY DEF EndCopy
<1>3. LastCode \in Codes
  BY LastCodes, JobTyping DEF IInv
<1>4. Kept \in SUBSET Jobs /\ \A j \in Kept : j \in created /\ data[j] = BlockData(j)
  BY <1>1 DEF IInv, Written, Kept, Uncommitted
<1>5. /\ ReturnCode \in Codes \cup {"LORS_HAS_HOLE", "LORS_PARTIAL"}
      /\ ReturnCode = "LORS_PARTIAL" => Kept # {}
      /\ ReturnCode \notin {"LORS_SUCCESS", "LORS_PARTIAL"} => Kept = {}
  BY <1>3 DEF ReturnCode, Codes
<1>. QED  BY <1>1, <1>2, <1>4, <1>5, ReturnInv

LEMMA OtherInv == ASSUME IInv, Expire \/ UNCHANGED vars PROVE IInv'
<1>. TypeOK /\ JobTypes /\ Shape /\ OneWorkerPerJob /\ Written /\ Ended /\ CopyTrue /\ NothingOnError
  BY JobTyping DEF IInv
<1>1. /\ UNCHANGED <<callVars, depotVars, arrayVars, createVars, copyVars>>
      /\ UNCHANGED <<status, code, pc, job, result, main, mappings, ret, sources, created, data,
                     from, source, done>>
      /\ time' \in {"left", "ending", "over"}
  BY DEF Expire, vars, callVars, depotVars, jobVars, arrayVars, createVars, copyVars, setVars, TypeOK
<1>2. JobTypes'
  BY <1>1 DEF JobTypes
<1>3. TypeOK'
  BY <1>1, <1>2, TypeFromParts DEF TypeOK
<1>4. Shape' /\ OneWorkerPerJob' /\ Ended' /\ CopyTrue' /\ NothingOnError'
  BY <1>1 DEF Shape, OneWorkerPerJob, Ended, CopyTrue, NothingOnError, BlockData
<1>5. Written'
  BY <1>1 DEF Written, Copying, PartLen, Reached, Position
<1>. QED  BY <1>3, <1>4, <1>5 DEF IInv

LEMMA InitInv == Init => IInv
<1>. SUFFICES ASSUME Init PROVE IInv
  OBVIOUS
<1>1. Length \in Nat \ {0} /\ sources \in Nat /\ MaxTried \in Nat
  BY CopyAssumption DEF Init
<1>. DEFINE m == Max({sources, 1})
<1>2. m \in Nat \ {0}
  BY <1>1, SourceRange
<1>3. source \in [Workers -> 1..m] /\ from \in [Workers -> 0..(Length - 1)]
      /\ done \in [Workers -> 0..(Length - 1)] /\ tried \in [Workers -> 0..MaxTried]
  <2>. HIDE DEF m
  <2>1. 1 \in 1..m /\ 0 \in 0..(Length - 1) /\ 0 \in 0..MaxTried
    BY <1>1, <1>2
  <2>. QED  BY <2>1 DEF Init
<1>4. data \in [Jobs -> Seq(0..(Length - 1))]
  <2>1. << >> \in Seq(0..(Length - 1))
    OBVIOUS
  <2>. QED  BY <2>1 DEF Init
<1>. HIDE DEF m
<1>5. TypeOK
  <2>1. deadline \in BOOLEAN
    BY CopyAssumption DEF Init
  <2>. QED  BY <1>3, <1>4, <2>1 DEF Init, TypeOK, Codes, m
<1>6. Shape /\ OneWorkerPerJob /\ Written /\ Ended /\ CopyTrue /\ NothingOnError
  BY DEF Init, Shape, OneWorkerPerJob, Written, Ended, CopyTrue, NothingOnError,
         JobPcs, CreatePcs, CopyPcs
<1>. QED  BY <1>5, <1>6 DEF IInv

LEMMA StepInv == IInv /\ [Next]_vars => IInv'
<1>. SUFFICES ASSUME IInv, [Next]_vars PROVE IInv'
  OBVIOUS
<1>1. ASSUME NEW w \in Workers, Works(w) PROVE IInv'
  <2>1. main \in {"allocate", "copy"}
    BY <1>1 DEF Works
  <2>2. CASE GetJob(w) \/ GetJobTooLate(w) \/ NoMoreJobs(w)
    BY <2>1, <2>2, GetJobInv
  <2>3. CASE Creates(w)
    BY <2>1, <2>3, CreateInv
  <2>4. CASE FindDepot(w)
    BY <2>1, <2>4, FindDepotInv
  <2>5. CASE CopyTooLate(w)
    BY <2>1, <2>5, CopyTooLateInv
  <2>6. CASE Copied(w)
    BY <2>1, <2>6, CopiedInv
  <2>7. CASE CopyFails(w)
    BY <2>1, <2>7, CopyFailsInv
  <2>. QED  BY <1>1, <2>2, <2>3, <2>4, <2>5, <2>6, <2>7 DEF Works, Creates
<1>2. CASE Begin \/ EndAllocation \/ EndCopy
  BY <1>2, BeginInv, EndAllocationInv, EndCopyInv
<1>3. CASE Expire \/ Terminated \/ UNCHANGED vars
  BY <1>3, OtherInv DEF Terminated
<1>. QED  BY <1>1, <1>2, <1>3 DEF Next
-----------------------------------------------------------------------------
\* The inductive invariant holds in every state of a copy.
THEOREM CopyInvariant == Spec => []IInv
BY InitInv, StepInv, PTL DEF Spec

\* Every reachable state of a copy is well typed: no counter leaves its range, no
\* source below the first is tried, and no part reaches beyond the file.
THEOREM CopyTypeOK == Spec => []TypeOK
<1>1. IInv => TypeOK
  BY DEF IInv
<1>. QED  BY CopyInvariant, <1>1, PTL

\* What lorsSetCopy reports as copied is the data of the source, byte for byte,
\* however many copies of a part failed half-way (_lorsDoCopyNE).
THEOREM CopiesAreTrue == Spec => []CopyTrue
<1>1. IInv => CopyTrue
  BY DEF IInv
<1>. QED  BY CopyInvariant, <1>1, PTL

\* lorsSetCopy leaves no mapping with data when it returns an error other than
\* LORS_PARTIAL, and returns that one only when it leaves some.
THEOREM ErrorsLeaveNothing == Spec => []NothingOnError
<1>1. IInv => NothingOnError
  BY DEF IInv
<1>. QED  BY CopyInvariant, <1>1, PTL
=============================================================================
