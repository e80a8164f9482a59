-------------------------- MODULE LorsStore_proofs --------------------------
(***************************************************************************)
(* Proofs about lorsSetStore, for every number of blocks, copies, workers  *)
(* and depots, whichever depots fail, with and without a deadline.         *)
(***************************************************************************)
EXTENDS LorsStore, WellFoundedInduction, TLAPS

(* The inductive invariant. *)

\* The points of _lorsDoCreateStore, and those where it has chosen a depot.
DepotPcs  == {"rotate", "alloc", "remove", "forget", "refill", "scan", "insert", "store"}
HandlerPcs == DepotPcs \cup {"next"}

\* A worker has a job exactly in the handler, and from the rotation on a depot;
\* its position in the pool is one of the pool's when it adds a depot.
Shape ==
    \A w \in Workers :
        /\ job[w] # NoJob <=> pc[w] \in HandlerPcs
        /\ pc[w] \in DepotPcs => hand[w] \in Depots
        /\ pc[w] \in {"scan", "insert"} => at[w] > 0
        /\ pc[w] = "insert" => at[w] <= Len(Pool)

\* A committed job has its block in its array; the set gets mappings only at the
\* end; a worker that ended well has left no job that nobody took.
Results ==
    /\ \A j \in Jobs : Committed(j) => array[j] = "full"
    /\ \A j \in mappings : Committed(j)
    /\ main \in {"condition", "create", "join"} => mappings = {}
    /\ \A w \in Workers : pc[w] = "ended" /\ result[w] = "LORS_SUCCESS" =>
          \A j \in Jobs : Attempted(j)

IInv ==
    /\ TypeOK
    /\ Shape
    /\ OneWorkerPerJob
    /\ Results
    /\ ReturnsTruth
-----------------------------------------------------------------------------
(* Extremes of sets of numbers. *)

LEMMA LeastExists ==
    ASSUME NEW N \in SUBSET Nat, N # {}
    PROVE  \E n \in N : \A k \in N : n <= k
<1>. DEFINE R == {ss \in Nat \X Nat : ss[1] < ss[2]}
<1>1. IsWellFoundedOn(R, Nat)
  BY NatLessThanWellFounded DEF OpToRel
<1>2. PICK n \in N : \A k \in N : <<k, n>> \notin R
  <2>. HIDE DEF R
  <2>. QED  BY <1>1, WFMin
<1>3. ASSUME NEW k \in N PROVE n <= k
  <2>1. <<k, n>> \in Nat \X Nat /\ <<k, n>>[1] = k /\ <<k, n>>[2] = n
    OBVIOUS
  <2>. QED  BY <2>1, <1>2
<1>. QED  BY <1>3

LEMMA GreatestWorker ==
    ASSUME NEW W \in SUBSET Workers, W # {}
    PROVE  \E w \in W : \A v \in W : v <= w
<1>. DEFINE N == {NThreads - w : w \in W}
<1>. NThreads \in Nat /\ W \subseteq 1..NThreads
  BY StoreAssumption DEF Workers
<1>1. N \in SUBSET Nat /\ N # {}
  <2>1. \A w \in W : NThreads - w \in Nat
    OBVIOUS
  <2>. QED  BY <2>1
<1>2. PICK n \in N : \A k \in N : n <= k
  <2>. HIDE DEF N
  <2>. QED  BY <1>1, LeastExists
<1>3. PICK w \in W : n = NThreads - w
  OBVIOUS
<1>4. ASSUME NEW v \in W PROVE v <= w
  <2>1. n <= NThreads - v
    BY <1>2
  <2>. QED  BY <2>1, <1>3
<1>. QED  BY <1>4

(* Taking a depot out of the list. *)

LEMMA SubSeqType ==
    ASSUME NEW S, NEW s \in Seq(S), NEW m \in 1..Len(s) + 1, NEW n \in 0..Len(s)
    PROVE  SubSeq(s, m, n) \in Seq(S)
  OBVIOUS

LEMMA RemoveFirstType ==
    ASSUME NEW S, NEW s \in Seq(S), NEW e
    PROVE  RemoveFirst(s, e) \in Seq(S)
<1>1. CASE ~\E i \in 1..Len(s) : s[i] = e
  BY <1>1 DEF RemoveFirst
<1>2. CASE \E i \in 1..Len(s) : s[i] = e
  <2>. DEFINE I == {i \in 1..Len(s) : s[i] = e}
             n == Min(I)
  <2>1. I \in SUBSET Nat /\ I # {}
    BY <1>2
  <2>2. n \in I
    <3>1. \E i \in I : \A k \in I : i <= k
      <4>. HIDE DEF I
      <4>. QED  BY <2>1, LeastExists
    <3>. QED  BY <3>1 DEF Min
  <2>3. RemoveFirst(s, e) = RemoveAt(s, n)
    BY <1>2, <2>1 DEF RemoveFirst, SelectInSeq
  <2>. HIDE DEF n
  <2>4. n \in 1..Len(s) /\ Len(s) \in Nat
    BY <2>2
  <2>5. SubSeq(s, 1, n - 1) \in Seq(S) /\ SubSeq(s, n + 1, Len(s)) \in Seq(S)
    <3>1. 1 \in 1..Len(s) + 1 /\ n - 1 \in 0..Len(s) /\ n + 1 \in 1..Len(s) + 1 /\ Len(s) \in 0..Len(s)
      BY <2>4
    <3>. QED  BY <3>1, SubSeqType
  <2>. QED  BY <2>3, <2>5 DEF RemoveAt
<1>. QED  BY <1>1, <1>2
-----------------------------------------------------------------------------
(* The steps of a worker, grouped by what they do to its job. *)

\* At most the array of the worker's job changes.
OwnArray(w) ==
    \/ array' = array
    \/ \E x \in {"empty", "full"} : array' = [array EXCEPT ![job[w]] = x]

\* The handler goes on.
Continues(w) ==
    /\ pc[w] \in HandlerPcs /\ (\E p \in HandlerPcs : Goto(w, p)) /\ OwnArray(w)
    /\ UNCHANGED <<status, job, result, setVars>>

\* The job ends with an error, and so does the worker.
Fails(w) ==
    /\ pc[w] \in HandlerPcs
    /\ \E st \in {"JOB_FAILED", "JOB_CANCELED"} : Ends(w, st, "ended")
    /\ \E code \in Codes \ {"LORS_SUCCESS"} : result' = [result EXCEPT ![w] = code]
    /\ OwnArray(w)
    /\ UNCHANGED setVars

LEMMA WorkCases ==
    ASSUME TypeOK, Shape, NEW w \in Workers, Works(w)
    PROVE  \/ GetJob(w) \/ GetJobTooLate(w) \/ NoMoreJobs(w) \/ Stored(w)
           \/ Continues(w) \/ Fails(w)
           \/ Crash(w)
<1>. pc \in [Workers -> WorkerPcs] /\ hand \in [Workers -> Depots \cup {NoDepot}]
  BY DEF TypeOK
<1>1. CASE TooLate(w)
  <2>1. pc[w] \in HandlerPcs /\ Ends(w, "JOB_FAILED", "ended")
        /\ result' = [result EXCEPT ![w] = "LORS_TIMEOUT_EXPIRED"]
        /\ array' = array /\ UNCHANGED setVars
    BY <1>1 DEF TooLate, Bail, HandlerPcs, DepotPcs
  <2>. QED  BY <2>1 DEF Fails, OwnArray, Codes
<1>2. CASE NoNextDepot(w)
  <2>1. pc[w] \in HandlerPcs /\ Ends(w, "JOB_FAILED", "ended")
        /\ result' = [result EXCEPT ![w] = "LORS_NOTFOUND"]
        /\ array' = array /\ UNCHANGED setVars
    BY <1>2 DEF NoNextDepot, Bail, HandlerPcs
  <2>. QED  BY <2>1 DEF Fails, OwnArray, Codes
<1>3. CASE NextDepot(w) \/ Rotate(w) \/ RemoveDepot(w) \/ ForgetDepot(w) \/ BeginToRefill(w)
           \/ AddDepot(w)
  <2>1. pc[w] \in HandlerPcs /\ (\E p \in HandlerPcs : Goto(w, p))
    BY <1>3 DEF NextDepot, Rotate, RemoveDepot, ForgetDepot, BeginToRefill, AddDepot,
                HandlerPcs, DepotPcs
  <2>2. UNCHANGED <<status, array, job, result, setVars>>
    BY <1>3 DEF NextDepot, Rotate, RemoveDepot, ForgetDepot, BeginToRefill, AddDepot, jobVars
  <2>. QED  BY <2>1, <2>2 DEF Continues, OwnArray
<1>4. CASE ScanDepot(w)
  <2>1. pc[w] = "scan" /\ (Goto(w, "scan") \/ Goto(w, "insert"))
    BY <1>4 DEF ScanDepot, Goto
  <2>2. UNCHANGED <<status, array, job, result, setVars>>
    BY <1>4 DEF ScanDepot, jobVars
  <2>. QED  BY <2>1, <2>2 DEF Continues, OwnArray, HandlerPcs, DepotPcs
<1>5. CASE Allocated(w)
  BY <1>5 DEF Allocated, Continues, OwnArray, HandlerPcs, DepotPcs
<1>6. CASE AllocateFails(w)
  <2>1. pc[w] \in HandlerPcs /\ array' = array /\ UNCHANGED setVars
    BY <1>6 DEF AllocateFails, HandlerPcs, DepotPcs
  <2>2. \/ Goto(w, "remove") /\ UNCHANGED <<status, job, result>>
        \/ Bail(w, "LORS_IBP_FAILED")
    BY <1>6 DEF AllocateFails, KillOthers
  <2>. QED  BY <2>1, <2>2 DEF Continues, Fails, Bail, OwnArray, HandlerPcs, DepotPcs, Codes
<1>7. CASE TryAgain(w)
  <2>1. pc[w] \in HandlerPcs /\ array' = array /\ UNCHANGED setVars
    BY <1>7 DEF TryAgain, Refilled, HandlerPcs, DepotPcs
  <2>2. \/ Goto(w, "next") /\ UNCHANGED <<status, job, result>>
        \/ Bail(w, "LORS_IBP_FAILED")
    BY <1>7 DEF TryAgain
  <2>. QED  BY <2>1, <2>2 DEF Continues, Fails, Bail, OwnArray, HandlerPcs, Codes
<1>8. CASE StoreFails(w)
  <2>1. pc[w] \in HandlerPcs /\ UNCHANGED setVars /\ OwnArray(w)
    BY <1>8 DEF StoreFails, HandlerPcs, DepotPcs, OwnArray
  <2>2. \/ Goto(w, "next") /\ UNCHANGED <<status, job, result>>
        \/ Bail(w, "LORS_IBP_FAILED")
    BY <1>8 DEF StoreFails, KillOthers
  <2>. QED  BY <2>1, <2>2 DEF Continues, Fails, Bail, HandlerPcs, Codes
<1>9. CASE Cancelled(w)
  <2>1. pc[w] \in HandlerPcs /\ OwnArray(w) /\ UNCHANGED setVars
    BY <1>9 DEF Cancelled, HandlerPcs, DepotPcs, OwnArray
  <2>2. Ends(w, "JOB_CANCELED", "ended") /\ result' = [result EXCEPT ![w] = "LORS_PTHREAD_CANCELED"]
    BY <1>9 DEF Cancelled
  <2>. QED  BY <2>1, <2>2 DEF Fails, Codes
<1>. QED  BY <1>1, <1>2, <1>3, <1>4, <1>5, <1>6, <1>7, <1>8, <1>9 DEF Works

\* The worker's job is a job, and it is checked out.
LEMMA OwnJob ==
    ASSUME TypeOK, Shape, OneWorkerPerJob, NEW w \in Workers, pc[w] \in HandlerPcs
    PROVE  job[w] \in Jobs /\ status[job[w]] = "JOB_CHECKOUT"
  BY DEF TypeOK, Shape, OneWorkerPerJob

LEMMA NoJobIsNone == NoJob \notin Jobs
  BY DEF NoJob, Jobs
-----------------------------------------------------------------------------
(* The types *)

LEMMA ListStep ==
    ASSUME TypeOK, Shape, NEW w \in Workers, Works(w)
    PROVE  /\ list' \in Seq(Depots) /\ badList' \subseteq Depots /\ count' \in Int
           /\ locked' \in BOOLEAN /\ poolLocked' \in BOOLEAN
<1>. list \in Seq(Depots) /\ badList \subseteq Depots /\ count \in Int
     /\ locked \in BOOLEAN /\ poolLocked \in BOOLEAN
  BY DEF TypeOK
<1>1. CASE NextDepot(w)
  <2>1. PICK d \in Depots : TakeFirst(d)
    BY <1>1 DEF NextDepot
  <2>2. list # << >> /\ list' = Tail(list) /\ locked' = TRUE /\ UNCHANGED <<badList, count, poolLocked>>
    BY <2>1 DEF TakeFirst
  <2>. QED  BY <2>2
<1>2. CASE Rotate(w)
  <2>1. hand[w] \in Depots /\ PutLast(hand[w])
    BY <1>2 DEF Rotate, Shape, DepotPcs
  <2>2. Append(list, hand[w]) \in Seq(Depots)
    BY <2>1
  <2>3. UNCHANGED <<badList, count, poolLocked>> /\ list' = Append(list, hand[w]) /\ locked' = FALSE
    BY <2>1 DEF PutLast
  <2>. QED  BY <2>2, <2>3
<1>3. CASE RemoveDepot(w)
  <2>1. Unlink(hand[w]) \/ NothingToRemove(hand[w])
    BY <1>3 DEF RemoveDepot
  <2>. QED  BY <2>1, RemoveFirstType DEF Unlink, NothingToRemove, listVars
<1>4. CASE ForgetDepot(w)
  <2>1. hand[w] \in Depots /\ MarkBad(hand[w])
    BY <1>4 DEF ForgetDepot, Shape, DepotPcs
  <2>2. /\ badList' = badList \cup {hand[w]} /\ count' = count - 1 /\ locked' = FALSE
        /\ UNCHANGED <<list, poolLocked>>
    BY <2>1 DEF MarkBad
  <2>3. count - 1 \in Int
    OBVIOUS
  <2>. QED  BY <2>1, <2>2, <2>3
<1>5. CASE AddDepot(w)
  <2>1. at[w] \in 1..Len(Pool) /\ InsertDepot(Pool[at[w]])
    BY <1>5 DEF AddDepot, Shape, TypeOK
  <2>2. Pool[at[w]] \in Depots
    BY <2>1, PoolAssumption
  <2>3. <<Pool[at[w]]>> \o list \in Seq(Depots)
    BY <2>2
  <2>4. /\ list' = <<Pool[at[w]]>> \o list /\ count' = count + 1 /\ locked' = FALSE
        /\ UNCHANGED <<badList, poolLocked>>
    BY <2>1 DEF InsertDepot
  <2>5. count + 1 \in Int
    OBVIOUS
  <2>. QED  BY <2>3, <2>4, <2>5
<1>6. CASE BeginToRefill(w)
  BY <1>6 DEF BeginToRefill, BeginRefill
<1>7. CASE ScanDepot(w)
  BY <1>7 DEF ScanDepot, SkipDepot, listVars
<1>8. CASE TryAgain(w)
  BY <1>8 DEF TryAgain, Refilled, NoRefill, EndRefill, listVars
<1>9. CASE NoNextDepot(w) \/ Crash(w)
  BY <1>9 DEF NoNextDepot, NoDepotLeft, Crash, TakesGarbage, listVars
<1>10. CASE \/ GetJob(w) \/ GetJobTooLate(w) \/ NoMoreJobs(w) \/ TooLate(w) \/ Allocated(w)
            \/ AllocateFails(w) \/ Stored(w) \/ StoreFails(w) \/ Cancelled(w)
  <2>1. UNCHANGED listVars
    BY <1>10 DEF GetJob, GetJobTooLate, NoMoreJobs, TooLate, Allocated, AllocateFails, Stored,
                 StoreFails, Cancelled
  <2>. QED  BY <2>1 DEF listVars
<1>. QED  BY <1>1, <1>2, <1>3, <1>4, <1>5, <1>6, <1>7, <1>8, <1>9, <1>10 DEF Works

LEMMA LocalsStep ==
    ASSUME TypeOK, Shape, NEW w \in Workers, Works(w)
    PROVE  /\ hand' \in [Workers -> Depots \cup {NoDepot}]
           /\ tried' \in [Workers -> 0..MaxTried]
           /\ wanted' \in [Workers -> Int] /\ at' \in [Workers -> Nat] /\ added' \in [Workers -> Nat]
           /\ cancelReq' \subseteq Workers
<1>. /\ hand \in [Workers -> Depots \cup {NoDepot}] /\ tried \in [Workers -> 0..MaxTried]
     /\ wanted \in [Workers -> Int] /\ at \in [Workers -> Nat] /\ added \in [Workers -> Nat]
     /\ cancelReq \subseteq Workers /\ count \in Int
     /\ MaxTried \in Nat
  BY StoreAssumption DEF TypeOK
<1>0. /\ [hand EXCEPT ![w] = NoDepot] \in [Workers -> Depots \cup {NoDepot}]
      /\ [tried EXCEPT ![w] = 0] \in [Workers -> 0..MaxTried]
  OBVIOUS
<1>1. hand' \in [Workers -> Depots \cup {NoDepot}]
  <2>1. \/ hand' = hand \/ hand' = [hand EXCEPT ![w] = NoDepot]
        \/ \E d \in Depots : hand' = [hand EXCEPT ![w] = d]
    BY DEF Works, GetJob, GetJobTooLate, NoMoreJobs, TooLate, NextDepot, NoNextDepot, Crash,
           Rotate, Allocated, AllocateFails, RemoveDepot, ForgetDepot, BeginToRefill, ScanDepot,
           AddDepot, TryAgain, Stored, StoreFails, Cancelled, KillOthers, Bail, Ends
  <2>. QED  BY <2>1, <1>0
<1>2. tried' \in [Workers -> 0..MaxTried]
  <2>1. \/ tried' = tried \/ tried' = [tried EXCEPT ![w] = 0]
        \/ tried' = [tried EXCEPT ![w] = @ + 1] /\ tried[w] < MaxTried
    BY DEF Works, GetJob, GetJobTooLate, NoMoreJobs, TooLate, NextDepot, NoNextDepot, Crash,
           Rotate, Allocated, AllocateFails, RemoveDepot, ForgetDepot, BeginToRefill, ScanDepot,
           AddDepot, TryAgain, MayTryAgain, Stored, StoreFails, Cancelled, KillOthers, Bail, Ends
  <2>2. tried[w] < MaxTried => tried[w] + 1 \in 0..MaxTried
    OBVIOUS
  <2>. QED  BY <2>1, <2>2, <1>0
<1>3. CASE UNCHANGED refillVars
  <2>1. wanted' = wanted /\ at' = at /\ added' = added
    BY <1>3 DEF refillVars
  <2>2. cancelReq' \subseteq Workers
    BY DEF Works, GetJob, GetJobTooLate, NoMoreJobs, TooLate, NextDepot, NoNextDepot, Crash,
           Rotate, Allocated, AllocateFails, RemoveDepot, ForgetDepot, BeginToRefill, ScanDepot,
           AddDepot, TryAgain, Stored, StoreFails, Cancelled, KillOthers, Killable
  <2>. QED  BY <1>1, <1>2, <2>1, <2>2
<1>4. CASE AllocateFails(w)
  <2>1. /\ at' = at /\ added' = added
        /\ wanted' = wanted \/ wanted' = [wanted EXCEPT ![w] = count]
        /\ cancelReq' \subseteq Workers
    BY <1>4 DEF AllocateFails, KillOthers, Killable
  <2>. QED  BY <1>1, <1>2, <2>1
<1>5. CASE BeginToRefill(w)
  <2>1. wanted' = wanted /\ added' = added /\ cancelReq' = cancelReq /\ at' = [at EXCEPT ![w] = 1]
    BY <1>5 DEF BeginToRefill
  <2>. QED  BY <1>1, <1>2, <2>1
<1>6. CASE ScanDepot(w)
  <2>1. wanted' = wanted /\ added' = added /\ cancelReq' = cancelReq
        /\ (at' = at \/ at' = [at EXCEPT ![w] = @ + 1])
    BY <1>6 DEF ScanDepot
  <2>2. at[w] + 1 \in Nat
    OBVIOUS
  <2>. QED  BY <1>1, <1>2, <2>1, <2>2
<1>7. CASE AddDepot(w)
  <2>1. /\ wanted' = wanted /\ cancelReq' = cancelReq
        /\ at' = [at EXCEPT ![w] = @ + 1] /\ added' = [added EXCEPT ![w] = @ + 1]
    BY <1>7 DEF AddDepot
  <2>2. at[w] + 1 \in Nat /\ added[w] + 1 \in Nat
    OBVIOUS
  <2>. QED  BY <1>1, <1>2, <2>1, <2>2
<1>8. CASE TryAgain(w)
  <2>1. /\ wanted' = [wanted EXCEPT ![w] = 0] /\ cancelReq' = cancelReq
        /\ at' = [at EXCEPT ![w] = 0] /\ added' = [added EXCEPT ![w] = 0]
    BY <1>8 DEF TryAgain
  <2>. QED  BY <1>1, <1>2, <2>1
<1>9. \/ UNCHANGED refillVars \/ AllocateFails(w) \/ BeginToRefill(w) \/ ScanDepot(w)
      \/ AddDepot(w) \/ TryAgain(w)
  BY DEF Works, GetJob, GetJobTooLate, NoMoreJobs, TooLate, NextDepot, NoNextDepot, Crash,
         Rotate, Allocated, RemoveDepot, ForgetDepot, Stored, StoreFails, Cancelled, refillVars
<1>. QED  BY <1>3, <1>4, <1>5, <1>6, <1>7, <1>8, <1>9

LEMMA JobTypes ==
    ASSUME TypeOK, Shape, OneWorkerPerJob, NEW w \in Workers, Works(w)
    PROVE  /\ status' \in [Jobs -> JobStatus]
           /\ array' \in [Jobs -> {"none", "empty", "full"}]
           /\ pc' \in [Workers -> WorkerPcs] /\ job' \in [Workers -> Jobs \cup {NoJob}]
           /\ result' \in [Workers -> Codes]
           /\ main' \in {main, "crashed"} /\ mappings' = mappings /\ ret' = ret
<1>. /\ status \in [Jobs -> JobStatus] /\ array \in [Jobs -> {"none", "empty", "full"}]
     /\ pc \in [Workers -> WorkerPcs] /\ job \in [Workers -> Jobs \cup {NoJob}]
     /\ result \in [Workers -> Codes]
  BY DEF TypeOK
<1>1. CASE GetJob(w)
  <2>1. PICK j \in Jobs : status' = [status EXCEPT ![j] = "JOB_CHECKOUT"] /\ job' = [job EXCEPT ![w] = j]
    BY <1>1 DEF GetJob
  <2>2. pc' = [pc EXCEPT ![w] = "next"] /\ UNCHANGED <<array, result, setVars>>
    BY <1>1 DEF GetJob, Goto
  <2>. QED  BY <2>1, <2>2 DEF JobStatus, WorkerPcs, setVars
<1>2. CASE GetJobTooLate(w)
  <2>1. PICK j \in Jobs : status' = [status EXCEPT ![j] = "JOB_CHECKOUT"]
    BY <1>2 DEF GetJobTooLate
  <2>2. /\ pc' = [pc EXCEPT ![w] = "ended"] /\ UNCHANGED <<array, job, setVars>>
        /\ result' = [result EXCEPT ![w] = "LORS_TIMEOUT_EXPIRED"]
    BY <1>2 DEF GetJobTooLate, Goto
  <2>. QED  BY <2>1, <2>2 DEF JobStatus, WorkerPcs, Codes, setVars
<1>3. CASE NoMoreJobs(w)
  BY <1>3 DEF NoMoreJobs, Goto, WorkerPcs, jobVars, setVars
<1>4. CASE Stored(w)
  <2>1. job[w] \in Jobs
    BY <1>4, OwnJob DEF Stored, HandlerPcs, DepotPcs
  <2>2. /\ array' = [array EXCEPT ![job[w]] = "full"]
        /\ status' = [status EXCEPT ![job[w]] = "JOB_COMMIT"]
        /\ pc' = [pc EXCEPT ![w] = "get"] /\ job' = [job EXCEPT ![w] = NoJob]
        /\ UNCHANGED <<result, setVars>>
    BY <1>4 DEF Stored, Ends, Goto
  <2>. QED  BY <2>1, <2>2 DEF JobStatus, WorkerPcs, setVars
<1>5. CASE Continues(w)
  <2>1. PICK p \in HandlerPcs : pc' = [pc EXCEPT ![w] = p]
    BY <1>5 DEF Continues, Goto
  <2>2. array' \in [Jobs -> {"none", "empty", "full"}]
    BY <1>5 DEF Continues, OwnArray
  <2>3. UNCHANGED <<status, job, result, setVars>>
    BY <1>5 DEF Continues
  <2>. QED  BY <2>1, <2>2, <2>3 DEF HandlerPcs, DepotPcs, WorkerPcs, setVars
<1>6. CASE Fails(w)
  <2>1. PICK st \in {"JOB_FAILED", "JOB_CANCELED"} : Ends(w, st, "ended")
    BY <1>6 DEF Fails
  <2>2. /\ status' = [status EXCEPT ![job[w]] = st]
        /\ pc' = [pc EXCEPT ![w] = "ended"] /\ job' = [job EXCEPT ![w] = NoJob]
    BY <2>1 DEF Ends, Goto
  <2>3. PICK code \in Codes : result' = [result EXCEPT ![w] = code]
    BY <1>6 DEF Fails
  <2>4. array' \in [Jobs -> {"none", "empty", "full"}] /\ UNCHANGED setVars
    BY <1>6 DEF Fails, OwnArray
  <2>. QED  BY <2>2, <2>3, <2>4 DEF JobStatus, WorkerPcs, setVars
<1>7. CASE Crash(w)
  BY <1>7 DEF Crash, jobVars
<1>. QED  BY <1>1, <1>2, <1>3, <1>4, <1>5, <1>6, <1>7, WorkCases

LEMMA JoinCodeFacts ==
    ASSUME TypeOK
    PROVE  /\ JoinCode \in Codes
           /\ JoinCode = "LORS_SUCCESS" => \A w \in Workers : result[w] = "LORS_SUCCESS"
<1>. DEFINE Bad == {w \in Workers : result[w] # "LORS_SUCCESS"}
<1>. result \in [Workers -> Codes]
  BY DEF TypeOK
<1>1. CASE Bad = {}
  BY <1>1 DEF JoinCode, Codes
<1>2. CASE Bad # {}
  <2>1. \E w \in Bad : \A v \in Bad : v <= w
    <3>. Bad \in SUBSET Workers
      OBVIOUS
    <3>. HIDE DEF Bad
    <3>. QED  BY <1>2, GreatestWorker
  <2>2. PICK w \in Bad : JoinCode = result[w]
    BY <1>2, <2>1 DEF JoinCode
  <2>. QED  BY <2>2
<1>. QED  BY <1>1, <1>2

LEMMA TypeStep ==
    ASSUME TypeOK, Shape, OneWorkerPerJob, [Next]_vars
    PROVE  TypeOK'
<1>1. ASSUME NEW w \in Workers, Works(w)
      PROVE  TypeOK'
  <2>1. retry' = retry /\ deadline' = deadline /\ time' = time
    BY <1>1 DEF Works, GetJob, GetJobTooLate, NoMoreJobs, TooLate, NextDepot, NoNextDepot, Crash,
             Rotate, Allocated, AllocateFails, RemoveDepot, ForgetDepot, BeginToRefill, ScanDepot,
             AddDepot, TryAgain, Stored, StoreFails, Cancelled, callVars
  <2>2. main' \in {"condition", "create", "join", "returned", "crashed"}
    BY <1>1, JobTypes DEF TypeOK
  <2>3. /\ list' \in Seq(Depots) /\ badList' \subseteq Depots /\ count' \in Int
        /\ locked' \in BOOLEAN /\ poolLocked' \in BOOLEAN
    BY <1>1, ListStep
  <2>4. /\ hand' \in [Workers -> Depots \cup {NoDepot}]
        /\ tried' \in [Workers -> 0..MaxTried]
        /\ wanted' \in [Workers -> Int] /\ at' \in [Workers -> Nat] /\ added' \in [Workers -> Nat]
        /\ cancelReq' \subseteq Workers
    BY <1>1, LocalsStep
  <2>5. /\ status' \in [Jobs -> JobStatus]
        /\ array' \in [Jobs -> {"none", "empty", "full"}]
        /\ pc' \in [Workers -> WorkerPcs] /\ job' \in [Workers -> Jobs \cup {NoJob}]
        /\ result' \in [Workers -> Codes]
        /\ mappings' = mappings /\ ret' = ret
    BY <1>1, JobTypes
  <2>. QED  BY <2>1, <2>2, <2>3, <2>4, <2>5 DEF TypeOK
<1>2. CASE Condition
  BY <1>2 DEF Condition, TypeOK, listVars, callVars, jobVars, refillVars
<1>3. CASE Return
  <2>1. mappings' \subseteq Jobs /\ ret' \in Codes \cup {"LORS_PARTIAL"} /\ main' = "returned"
    BY <1>3, JoinCodeFacts DEF Return
  <2>2. UNCHANGED <<listVars, callVars, jobVars, pc, job, result, hand, tried, refillVars, time, cancelReq>>
    BY <1>3 DEF Return
  <2>. QED  BY <2>1, <2>2 DEF TypeOK, listVars, callVars, jobVars, refillVars
<1>4. CASE Expire
  BY <1>4 DEF Expire, TypeOK, listVars, callVars, jobVars, refillVars, setVars
<1>5. ASSUME NEW w \in Workers, CreateWorker(w)
      PROVE  TypeOK'
  BY <1>5 DEF CreateWorker, TypeOK, WorkerPcs, listVars, callVars, jobVars, refillVars
<1>6. CASE Terminated \/ UNCHANGED vars
  BY <1>6 DEF Terminated, TypeOK, vars, listVars, callVars, jobVars, refillVars, setVars
<1>. QED  BY <1>1, <1>2, <1>3, <1>4, <1>5, <1>6 DEF Next
-----------------------------------------------------------------------------
(* The step of each other part of the invariant. *)

\* The workers other than w are left alone.
OthersKept(w) ==
    \A v \in Workers \ {w} : pc'[v] = pc[v] /\ job'[v] = job[v] /\ result'[v] = result[v]

\* What each kind of step does to the worker, its job and its array.
Takes(w) ==
    /\ pc[w] = "get" /\ OthersKept(w) /\ array' = array
    /\ \E j \in Jobs :
          /\ status[j] = "JOB_INIT" /\ status' = [status EXCEPT ![j] = "JOB_CHECKOUT"]
          /\ \/ pc'[w] = "next" /\ job'[w] = j /\ result'[w] = result[w]
             \/ pc'[w] = "ended" /\ job'[w] = NoJob /\ result'[w] # "LORS_SUCCESS"

GoesOn(w) ==
    /\ pc[w] \in HandlerPcs /\ OthersKept(w) /\ OwnArray(w)
    /\ pc'[w] \in HandlerPcs /\ job'[w] = job[w] /\ result'[w] = result[w]
    /\ status' = status

GivesUp(w) ==
    /\ pc[w] \in HandlerPcs /\ OthersKept(w) /\ OwnArray(w)
    /\ pc'[w] = "ended" /\ job'[w] = NoJob /\ result'[w] # "LORS_SUCCESS"
    /\ \E st \in {"JOB_FAILED", "JOB_CANCELED"} : status' = [status EXCEPT ![job[w]] = st]

Commits(w) ==
    /\ pc[w] \in HandlerPcs /\ OthersKept(w)
    /\ pc'[w] = "get" /\ job'[w] = NoJob /\ result'[w] = result[w]
    /\ status' = [status EXCEPT ![job[w]] = "JOB_COMMIT"]
    /\ array' = [array EXCEPT ![job[w]] = "full"]

Leaves(w) ==
    /\ pc[w] = "get" /\ pc'[w] = "ended" /\ OthersKept(w)
    /\ UNCHANGED <<status, array, job, result>>
    /\ \A j \in Jobs : Attempted(j)

LEMMA WorkEffects ==
    ASSUME TypeOK, Shape, OneWorkerPerJob, NEW w \in Workers, Works(w)
    PROVE  \/ Takes(w) \/ GoesOn(w) \/ GivesUp(w) \/ Commits(w) \/ Leaves(w)
           \/ UNCHANGED <<status, array, pc, job, result>>
<1>. /\ pc \in [Workers -> WorkerPcs] /\ job \in [Workers -> Jobs \cup {NoJob}]
     /\ result \in [Workers -> Codes]
     /\ \A v \in Workers : job[v] # NoJob <=> pc[v] \in HandlerPcs
  BY DEF TypeOK, Shape
<1>1. CASE GetJob(w)
  <2>1. PICK j \in Jobs : /\ status[j] = "JOB_INIT"
                          /\ status' = [status EXCEPT ![j] = "JOB_CHECKOUT"]
                          /\ job' = [job EXCEPT ![w] = j]
    BY <1>1 DEF GetJob, FirstInit, IsInit
  <2>2. pc[w] = "get" /\ pc' = [pc EXCEPT ![w] = "next"] /\ array' = array /\ result' = result
    BY <1>1 DEF GetJob, Goto
  <2>. QED  BY <2>1, <2>2 DEF OthersKept, Takes
<1>2. CASE GetJobTooLate(w)
  <2>1. PICK j \in Jobs : status[j] = "JOB_INIT" /\ status' = [status EXCEPT ![j] = "JOB_CHECKOUT"]
    BY <1>2 DEF GetJobTooLate, FirstInit, IsInit
  <2>2. /\ pc[w] = "get" /\ pc' = [pc EXCEPT ![w] = "ended"] /\ array' = array /\ job' = job
        /\ result' = [result EXCEPT ![w] = "LORS_TIMEOUT_EXPIRED"]
    BY <1>2 DEF GetJobTooLate, Goto
  <2>3. job[w] = NoJob
    BY <2>2 DEF HandlerPcs, DepotPcs
  <2>. QED  BY <2>1, <2>2, <2>3 DEF OthersKept, Takes
<1>3. CASE NoMoreJobs(w)
  BY <1>3 DEF NoMoreJobs, Goto, jobVars, OthersKept, Leaves, IsInit, Attempted
<1>4. CASE Stored(w)
  <2>1. /\ pc[w] = "store"
        /\ array' = [array EXCEPT ![job[w]] = "full"]
        /\ status' = [status EXCEPT ![job[w]] = "JOB_COMMIT"]
        /\ pc' = [pc EXCEPT ![w] = "get"] /\ job' = [job EXCEPT ![w] = NoJob]
        /\ result' = result
    BY <1>4 DEF Stored, Ends, Goto
  <2>. QED  BY <2>1 DEF OthersKept, HandlerPcs, DepotPcs, Commits
<1>5. CASE Continues(w)
  <2>1. PICK p \in HandlerPcs : pc' = [pc EXCEPT ![w] = p]
    BY <1>5 DEF Continues, Goto
  <2>2. UNCHANGED <<status, job, result>> /\ OwnArray(w) /\ pc[w] \in HandlerPcs
    BY <1>5 DEF Continues
  <2>. QED  BY <2>1, <2>2 DEF OthersKept, GoesOn
<1>6. CASE Fails(w)
  <2>1. PICK st \in {"JOB_FAILED", "JOB_CANCELED"} : Ends(w, st, "ended")
    BY <1>6 DEF Fails
  <2>2. /\ status' = [status EXCEPT ![job[w]] = st]
        /\ pc' = [pc EXCEPT ![w] = "ended"] /\ job' = [job EXCEPT ![w] = NoJob]
    BY <2>1 DEF Ends, Goto
  <2>3. PICK code \in Codes \ {"LORS_SUCCESS"} : result' = [result EXCEPT ![w] = code]
    BY <1>6 DEF Fails
  <2>4. OwnArray(w) /\ pc[w] \in HandlerPcs
    BY <1>6 DEF Fails
  <2>. QED  BY <2>2, <2>3, <2>4 DEF OthersKept, GivesUp
<1>7. CASE Crash(w)
  BY <1>7 DEF Crash, jobVars
<1>. QED  BY <1>1, <1>2, <1>3, <1>4, <1>5, <1>6, <1>7, WorkCases

\* Steps of lorsSetStore itself, and of the clock.
LEMMA MainEffects ==
    ASSUME TypeOK, [Next]_vars, ~\E w \in Workers : Works(w)
    PROVE  /\ UNCHANGED <<status, array, job, result, hand, at>>
           /\ \/ pc' = pc
              \/ main = "create" /\ \E w \in Workers : pc[w] = "none" /\ pc' = [pc EXCEPT ![w] = "get"]
  BY DEF Next, Condition, Return, Expire, Terminated, CreateWorker, vars, jobVars, refillVars

LEMMA JobStep ==
    ASSUME TypeOK, Shape, OneWorkerPerJob, [Next]_vars
    PROVE  OneWorkerPerJob'
<1>. /\ status \in [Jobs -> JobStatus] /\ pc \in [Workers -> WorkerPcs]
     /\ job \in [Workers -> Jobs \cup {NoJob}]
     /\ \A v \in Workers : job[v] # NoJob <=> pc[v] \in HandlerPcs
     /\ NoJob \notin Jobs
  BY NoJobIsNone DEF TypeOK, Shape
<1>. "get" \notin HandlerPcs /\ "ended" \notin HandlerPcs /\ "none" \notin HandlerPcs
  BY DEF HandlerPcs, DepotPcs
<1>. /\ \A v, w \in Workers : job[v] = job[w] /\ job[v] # NoJob => v = w
     /\ \A w \in Workers : job[w] # NoJob => status[job[w]] = "JOB_CHECKOUT"
     /\ \A j \in Jobs : status[j] \in {"JOB_CHECKOUT", "JOB_FAILED", "JOB_CANCELED"} =>
           \E w \in Workers : job[w] = j \/ (pc[w] = "ended" /\ result[w] # "LORS_SUCCESS")
  BY DEF OneWorkerPerJob
<1>1. ASSUME NEW w \in Workers, Works(w)
      PROVE  OneWorkerPerJob'
  <2>1. CASE Takes(w)
    <3>1. PICK j \in Jobs :
              /\ status[j] = "JOB_INIT" /\ status' = [status EXCEPT ![j] = "JOB_CHECKOUT"]
              /\ \/ pc'[w] = "next" /\ job'[w] = j /\ result'[w] = result[w]
                 \/ pc'[w] = "ended" /\ job'[w] = NoJob /\ result'[w] # "LORS_SUCCESS"
      BY <2>1 DEF Takes
    <3>2. pc[w] = "get" /\ OthersKept(w) /\ job[w] = NoJob
      BY <2>1 DEF Takes
    <3>3. \A v \in Workers : job[v] # j
      BY <3>1
    <3>4. \A u, v \in Workers : job'[u] = job'[v] /\ job'[u] # NoJob => u = v
      BY <3>1, <3>2, <3>3 DEF OthersKept
    <3>5. \A v \in Workers : job'[v] # NoJob => status'[job'[v]] = "JOB_CHECKOUT"
      BY <3>1, <3>2, <3>3 DEF OthersKept
    <3>6. ASSUME NEW k \in Jobs, status'[k] \in {"JOB_CHECKOUT", "JOB_FAILED", "JOB_CANCELED"}
          PROVE  \E v \in Workers : job'[v] = k \/ (pc'[v] = "ended" /\ result'[v] # "LORS_SUCCESS")
      <4>1. CASE k = j
        BY <3>1, <4>1
      <4>2. CASE k # j
        <5>1. PICK v \in Workers : job[v] = k \/ (pc[v] = "ended" /\ result[v] # "LORS_SUCCESS")
          BY <3>1, <3>6, <4>2
        <5>. QED  BY <5>1, <3>2 DEF OthersKept
      <4>. QED  BY <4>1, <4>2
    <3>. QED  BY <3>4, <3>5, <3>6 DEF OneWorkerPerJob
  <2>2. CASE GoesOn(w)
    <3>1. /\ job' = job /\ status' = status
          /\ \A v \in Workers : pc[v] = "ended" => pc'[v] = "ended" /\ result'[v] = result[v]
      <4>1. job' \in [Workers -> Jobs \cup {NoJob}]
        BY <1>1, JobTypes
      <4>. QED  BY <2>2, <4>1 DEF GoesOn, OthersKept
    <3>. QED  BY <3>1 DEF OneWorkerPerJob
  <2>3. CASE GivesUp(w)
    <3>1. PICK st \in {"JOB_FAILED", "JOB_CANCELED"} : status' = [status EXCEPT ![job[w]] = st]
      BY <2>3 DEF GivesUp
    <3>2. /\ pc[w] \in HandlerPcs /\ OthersKept(w) /\ job[w] \in Jobs
          /\ pc'[w] = "ended" /\ job'[w] = NoJob /\ result'[w] # "LORS_SUCCESS"
      BY <2>3 DEF GivesUp
    <3>3. \A u, v \in Workers : job'[u] = job'[v] /\ job'[u] # NoJob => u = v
      BY <3>2 DEF OthersKept
    <3>4. \A v \in Workers : job'[v] # NoJob => status'[job'[v]] = "JOB_CHECKOUT"
      BY <3>1, <3>2 DEF OthersKept
    <3>. QED  BY <3>2, <3>3, <3>4 DEF OneWorkerPerJob
  <2>4. CASE Commits(w)
    <3>1. /\ pc[w] \in HandlerPcs /\ OthersKept(w) /\ job[w] \in Jobs
          /\ pc'[w] = "get" /\ job'[w] = NoJob
          /\ status' = [status EXCEPT ![job[w]] = "JOB_COMMIT"]
      BY <2>4 DEF Commits
    <3>2. \A u, v \in Workers : job'[u] = job'[v] /\ job'[u] # NoJob => u = v
      BY <3>1 DEF OthersKept
    <3>3. \A v \in Workers : job'[v] # NoJob => status'[job'[v]] = "JOB_CHECKOUT"
      BY <3>1 DEF OthersKept
    <3>4. ASSUME NEW k \in Jobs, status'[k] \in {"JOB_CHECKOUT", "JOB_FAILED", "JOB_CANCELED"}
          PROVE  \E v \in Workers : job'[v] = k \/ (pc'[v] = "ended" /\ result'[v] # "LORS_SUCCESS")
      <4>1. k # job[w] /\ status[k] = status'[k]
        BY <3>1, <3>4
      <4>2. PICK v \in Workers : job[v] = k \/ (pc[v] = "ended" /\ result[v] # "LORS_SUCCESS")
        BY <4>1, <3>4
      <4>. QED  BY <4>1, <4>2, <3>1 DEF OthersKept
    <3>. QED  BY <3>2, <3>3, <3>4 DEF OneWorkerPerJob
  <2>5. CASE Leaves(w)
    <3>1. /\ UNCHANGED <<status, job, result>>
          /\ \A v \in Workers : pc[v] = "ended" => pc'[v] = "ended"
      BY <2>5 DEF Leaves, OthersKept
    <3>. QED  BY <3>1 DEF OneWorkerPerJob
  <2>6. CASE UNCHANGED <<status, array, pc, job, result>>
    BY <2>6 DEF OneWorkerPerJob
  <2>. QED  BY <1>1, <2>1, <2>2, <2>3, <2>4, <2>5, <2>6, WorkEffects
<1>2. CASE ~\E w \in Workers : Works(w)
  <2>1. /\ UNCHANGED <<status, job, result>>
        /\ \A v \in Workers : pc[v] = "ended" => pc'[v] = "ended"
    BY <1>2, MainEffects
  <2>. QED  BY <2>1 DEF OneWorkerPerJob
<1>. QED  BY <1>1, <1>2

\* Every mutual exclusion apart, the arrays of the jobs that others hold and of
\* those that are done are not touched.
LEMMA ResultsWork ==
    ASSUME TypeOK, Shape, OneWorkerPerJob, Results, NEW w \in Workers, Works(w)
    PROVE  Results'
<1>. /\ status \in [Jobs -> JobStatus] /\ array \in [Jobs -> {"none", "empty", "full"}]
     /\ \A j \in Jobs : status[j] = "JOB_COMMIT" => array[j] = "full"
     /\ \A j \in mappings : status[j] = "JOB_COMMIT"
     /\ mappings \subseteq Jobs
     /\ \A v \in Workers : pc[v] = "ended" /\ result[v] = "LORS_SUCCESS" =>
           \A j \in Jobs : status[j] # "JOB_INIT"
  BY DEF TypeOK, Results, Committed, Attempted
<1>. "get" \notin HandlerPcs /\ "ended" \notin HandlerPcs
  BY DEF HandlerPcs, DepotPcs
<1>1. main' \in {main, "crashed"} /\ mappings' = mappings
  BY JobTypes
<1>2. main' \in {"condition", "create", "join"} => mappings' = {}
  BY <1>1 DEF Results
<1>3. /\ \A j \in Jobs : status'[j] = "JOB_COMMIT" => array'[j] = "full"
      /\ \A j \in mappings : status'[j] = "JOB_COMMIT"
      /\ \A v \in Workers : pc'[v] = "ended" /\ result'[v] = "LORS_SUCCESS" =>
            \A j \in Jobs : status'[j] # "JOB_INIT"
  <2>1. CASE Takes(w)
    <3>1. PICK j \in Jobs :
              /\ status[j] = "JOB_INIT" /\ status' = [status EXCEPT ![j] = "JOB_CHECKOUT"]
              /\ \/ pc'[w] = "next"
                 \/ pc'[w] = "ended" /\ result'[w] # "LORS_SUCCESS"
      BY <2>1 DEF Takes
    <3>2. OthersKept(w) /\ array' = array
      BY <2>1 DEF Takes
    <3>. QED  BY <3>1, <3>2 DEF OthersKept
  <2>2. CASE GoesOn(w)
    <3>1. job[w] \in Jobs /\ status[job[w]] = "JOB_CHECKOUT"
      BY <2>2, OwnJob DEF GoesOn
    <3>2. status' = status /\ \A j \in Jobs \ {job[w]} : array'[j] = array[j]
      BY <2>2 DEF GoesOn, OwnArray
    <3>3. \A v \in Workers : pc'[v] = "ended" /\ result'[v] = "LORS_SUCCESS" =>
              pc[v] = "ended" /\ result[v] = "LORS_SUCCESS"
      BY <2>2 DEF GoesOn, OthersKept
    <3>. QED  BY <3>1, <3>2, <3>3
  <2>3. CASE GivesUp(w)
    <3>1. job[w] \in Jobs /\ status[job[w]] = "JOB_CHECKOUT"
      BY <2>3, OwnJob DEF GivesUp
    <3>2. PICK st \in {"JOB_FAILED", "JOB_CANCELED"} : status' = [status EXCEPT ![job[w]] = st]
      BY <2>3 DEF GivesUp
    <3>3. \A j \in Jobs \ {job[w]} : array'[j] = array[j]
      BY <2>3 DEF GivesUp, OwnArray
    <3>4. \A v \in Workers : pc'[v] = "ended" /\ result'[v] = "LORS_SUCCESS" =>
              pc[v] = "ended" /\ result[v] = "LORS_SUCCESS"
      BY <2>3 DEF GivesUp, OthersKept
    <3>. QED  BY <3>1, <3>2, <3>3, <3>4
  <2>4. CASE Commits(w)
    <3>1. job[w] \in Jobs /\ status[job[w]] = "JOB_CHECKOUT"
      BY <2>4, OwnJob DEF Commits
    <3>2. /\ status' = [status EXCEPT ![job[w]] = "JOB_COMMIT"]
          /\ array' = [array EXCEPT ![job[w]] = "full"]
      BY <2>4 DEF Commits
    <3>3. \A v \in Workers : pc'[v] = "ended" /\ result'[v] = "LORS_SUCCESS" =>
              pc[v] = "ended" /\ result[v] = "LORS_SUCCESS"
      BY <2>4 DEF Commits, OthersKept
    <3>. QED  BY <3>1, <3>2, <3>3
  <2>5. CASE Leaves(w)
    <3>1. \A j \in Jobs : status'[j] = status[j] /\ array'[j] = array[j] /\ status[j] # "JOB_INIT"
      BY <2>5 DEF Leaves, Attempted
    <3>. QED  BY <3>1
  <2>6. CASE UNCHANGED <<status, array, pc, job, result>>
    BY <2>6
  <2>. QED  BY <2>1, <2>2, <2>3, <2>4, <2>5, <2>6, WorkEffects
<1>. QED  BY <1>1, <1>2, <1>3 DEF Results, Committed, Attempted

LEMMA ResultsStep ==
    ASSUME TypeOK, Shape, OneWorkerPerJob, Results, [Next]_vars
    PROVE  Results'
<1>1. CASE \E w \in Workers : Works(w)
  BY <1>1, ResultsWork
<1>2. CASE ~\E w \in Workers : Works(w)
  <2>1. UNCHANGED <<status, array, result>>
        /\ \A v \in Workers : pc'[v] = "ended" => pc[v] = "ended"
    BY <1>2, MainEffects DEF TypeOK
  <2>2. \/ mappings' = {j \in Jobs : Committed(j)} /\ main' = "returned"
        \/ mappings' = mappings /\ (main' \in {"condition", "create", "join"} =>
                                       main \in {"condition", "create", "join"})
    BY <1>2 DEF Next, Condition, Return, Expire, Terminated, CreateWorker, vars, setVars
  <2>. QED  BY <2>1, <2>2 DEF Results, Committed, Attempted
<1>. QED  BY <1>1, <1>2

\* When every worker has ended well, every job is committed.
LEMMA AllWell ==
    ASSUME TypeOK, Shape, OneWorkerPerJob, Results,
           \A w \in Workers : pc[w] = "ended" /\ result[w] = "LORS_SUCCESS"
    PROVE  {j \in Jobs : Committed(j)} = Jobs
<1>1. 1 \in Workers
  BY StoreAssumption DEF Workers
<1>2. \A w \in Workers : job[w] = NoJob
  BY DEF Shape, HandlerPcs, DepotPcs
<1>3. ASSUME NEW j \in Jobs PROVE Committed(j)
  <2>1. status[j] \in JobStatus /\ status[j] # "JOB_INIT"
    BY <1>1 DEF TypeOK, Results, Attempted
  <2>2. status[j] \notin {"JOB_CHECKOUT", "JOB_FAILED", "JOB_CANCELED"}
    BY <1>2, NoJobIsNone DEF OneWorkerPerJob
  <2>. QED  BY <2>1, <2>2 DEF JobStatus, Committed
<1>. QED  BY <1>3

LEMMA ReturnsStep ==
    ASSUME TypeOK, Shape, OneWorkerPerJob, Results, ReturnsTruth, [Next]_vars
    PROVE  ReturnsTruth'
<1>1. CASE \E w \in Workers : Works(w)
  <2>1. main' \in {main, "crashed"} /\ mappings' = mappings /\ ret' = ret
    BY <1>1, JobTypes
  <2>. QED  BY <2>1 DEF ReturnsTruth
<1>2. CASE Return
  <2>1. /\ mappings' = {j \in Jobs : Committed(j)}
        /\ ret' = IF JoinCode # "LORS_SUCCESS" /\ mappings' # {} THEN "LORS_PARTIAL" ELSE JoinCode
        /\ \A w \in Workers : pc[w] = "ended"
    BY <1>2 DEF Return
  <2>2. JoinCode \in Codes /\ (JoinCode = "LORS_SUCCESS" => mappings' = Jobs)
    BY <2>1, JoinCodeFacts, AllWell
  <2>3. "LORS_PARTIAL" \notin Codes
    BY DEF Codes
  <2>. QED  BY <2>1, <2>2, <2>3 DEF ReturnsTruth
<1>3. CASE Condition
  BY <1>3 DEF Condition, ReturnsTruth, Results
<1>4. CASE Expire \/ Terminated \/ UNCHANGED vars \/ \E w \in Workers : CreateWorker(w)
  <2>1. main' \in {main, "join"} /\ mappings' = mappings /\ ret' = ret
    BY <1>4 DEF Expire, Terminated, CreateWorker, vars, setVars
  <2>. QED  BY <2>1 DEF ReturnsTruth
<1>. QED  BY <1>1, <1>2, <1>3, <1>4 DEF Next

LEMMA HandStep ==
    ASSUME TypeOK, Shape, NEW w \in Workers, Works(w)
    PROVE  /\ \A v \in Workers \ {w} : hand'[v] = hand[v] /\ at'[v] = at[v]
           /\ pc'[w] \in DepotPcs => hand'[w] \in Depots
           /\ pc'[w] \in {"scan", "insert"} => at'[w] > 0
           /\ pc'[w] = "insert" => at'[w] <= Len(Pool)
<1>. /\ hand \in [Workers -> Depots \cup {NoDepot}] /\ at \in [Workers -> Nat]
     /\ pc \in [Workers -> WorkerPcs]
     /\ pc[w] \in DepotPcs => hand[w] \in Depots
     /\ pc[w] \in {"scan", "insert"} => at[w] > 0
     /\ pc[w] = "insert" => at[w] <= Len(Pool)
  BY DEF TypeOK, Shape
<1>1. CASE GetJob(w) \/ GetJobTooLate(w) \/ NoMoreJobs(w)
  BY <1>1 DEF GetJob, GetJobTooLate, NoMoreJobs, Goto, DepotPcs, refillVars
<1>2. CASE NextDepot(w)
  <2>1. PICK d \in Depots : hand' = [hand EXCEPT ![w] = d]
    BY <1>2 DEF NextDepot
  <2>2. pc' = [pc EXCEPT ![w] = "rotate"] /\ at' = at
    BY <1>2 DEF NextDepot, Goto, refillVars
  <2>. QED  BY <2>1, <2>2
<1>3. CASE Rotate(w) \/ Allocated(w) \/ RemoveDepot(w) \/ ForgetDepot(w)
  <2>1. /\ hand' = hand /\ at' = at /\ pc[w] \in DepotPcs
        /\ pc'[w] \notin {"scan", "insert"}
    BY <1>3 DEF Rotate, Allocated, RemoveDepot, ForgetDepot, Goto, refillVars, DepotPcs
  <2>. QED  BY <2>1
<1>4. CASE BeginToRefill(w)
  <2>1. /\ hand' = hand /\ at' = [at EXCEPT ![w] = 1] /\ pc[w] \in DepotPcs
        /\ pc'[w] = "scan"
    BY <1>4 DEF BeginToRefill, Goto, DepotPcs
  <2>. QED  BY <2>1
<1>5. CASE ScanDepot(w)
  <2>1. hand' = hand /\ pc[w] = "scan" /\ at[w] <= Len(Pool) /\ pc[w] \in DepotPcs
    BY <1>5 DEF ScanDepot, DepotPcs
  <2>2. \/ at' = [at EXCEPT ![w] = @ + 1] /\ pc' = pc
        \/ pc' = [pc EXCEPT ![w] = "insert"] /\ at' = at
    BY <1>5 DEF ScanDepot, Goto
  <2>. QED  BY <2>1, <2>2
<1>6. CASE AddDepot(w)
  <2>1. /\ hand' = hand /\ at' = [at EXCEPT ![w] = @ + 1] /\ pc[w] = "insert"
        /\ pc' = [pc EXCEPT ![w] = "scan"] /\ pc[w] \in DepotPcs
    BY <1>6 DEF AddDepot, Goto, DepotPcs
  <2>. QED  BY <2>1
<1>7. CASE TooLate(w) \/ NoNextDepot(w) \/ Stored(w) \/ Cancelled(w)
  <2>1. /\ hand' = [hand EXCEPT ![w] = NoDepot] /\ at' = at
        /\ pc' = [pc EXCEPT ![w] = "ended"] \/ pc' = [pc EXCEPT ![w] = "get"]
    BY <1>7 DEF TooLate, NoNextDepot, Stored, Cancelled, Bail, Ends, Goto, refillVars
  <2>. QED  BY <2>1 DEF DepotPcs
<1>8. CASE AllocateFails(w) \/ StoreFails(w)
  <2>1. /\ at' = at /\ pc[w] \in DepotPcs
        /\ \/ hand' = hand /\ pc'[w] \notin {"scan", "insert"}
           \/ hand' = [hand EXCEPT ![w] = NoDepot] /\ pc' = [pc EXCEPT ![w] = "ended"]
    BY <1>8 DEF AllocateFails, StoreFails, KillOthers, Bail, Ends, Goto, refillVars, DepotPcs
  <2>. QED  BY <2>1 DEF DepotPcs
<1>9. CASE TryAgain(w)
  <2>1. /\ at' = [at EXCEPT ![w] = 0]
        /\ \/ hand' = hand /\ pc' = [pc EXCEPT ![w] = "next"]
           \/ hand' = [hand EXCEPT ![w] = NoDepot] /\ pc' = [pc EXCEPT ![w] = "ended"]
    BY <1>9 DEF TryAgain, Bail, Ends, Goto
  <2>. QED  BY <2>1 DEF DepotPcs
<1>10. CASE Crash(w)
  <2>1. hand' = hand /\ at' = at /\ pc' = pc
    BY <1>10 DEF Crash, refillVars
  <2>. QED  BY <2>1
<1>. QED  BY <1>1, <1>2, <1>3, <1>4, <1>5, <1>6, <1>7, <1>8, <1>9, <1>10 DEF Works

LEMMA ShapeStep ==
    ASSUME TypeOK, Shape, OneWorkerPerJob, [Next]_vars
    PROVE  Shape'
<1>. /\ pc \in [Workers -> WorkerPcs] /\ job \in [Workers -> Jobs \cup {NoJob}]
     /\ \A v \in Workers : job[v] # NoJob <=> pc[v] \in HandlerPcs
     /\ NoJob \notin Jobs
  BY NoJobIsNone DEF TypeOK, Shape
<1>. "get" \notin HandlerPcs /\ "ended" \notin HandlerPcs /\ "none" \notin HandlerPcs
  BY DEF HandlerPcs, DepotPcs
<1>1. ASSUME NEW w \in Workers, Works(w)
      PROVE  Shape'
  <2>1. \A v \in Workers : job'[v] # NoJob <=> pc'[v] \in HandlerPcs
    <3>1. CASE Takes(w)
      <4>1. "next" \in HandlerPcs
        BY DEF HandlerPcs
      <4>. QED  BY <3>1, <4>1 DEF Takes, OthersKept
    <3>2. CASE GoesOn(w) \/ GivesUp(w) \/ Commits(w) \/ Leaves(w)
      BY <3>2 DEF GoesOn, GivesUp, Commits, Leaves, OthersKept
    <3>3. CASE UNCHANGED <<status, array, pc, job, result>>
      BY <3>3
    <3>. QED  BY <1>1, <3>1, <3>2, <3>3, WorkEffects
  <2>2. \A v \in Workers \ {w} : pc'[v] = pc[v]
    BY <1>1, WorkEffects DEF Takes, GoesOn, GivesUp, Commits, Leaves, OthersKept
  <2>3. /\ \A v \in Workers \ {w} : hand'[v] = hand[v] /\ at'[v] = at[v]
        /\ pc'[w] \in DepotPcs => hand'[w] \in Depots
        /\ pc'[w] \in {"scan", "insert"} => at'[w] > 0
        /\ pc'[w] = "insert" => at'[w] <= Len(Pool)
    BY <1>1, HandStep
  <2>. QED  BY <2>1, <2>2, <2>3 DEF Shape
<1>2. CASE ~\E w \in Workers : Works(w)
  <2>1. /\ UNCHANGED <<job, hand, at>>
        /\ \A v \in Workers : pc'[v] = pc[v] \/ (pc[v] = "none" /\ pc'[v] = "get")
    BY <1>2, MainEffects
  <2>. QED  BY <2>1 DEF Shape, HandlerPcs, DepotPcs
<1>. QED  BY <1>1, <1>2
-----------------------------------------------------------------------------
(* The theorems. *)

LEMMA InitIInv == ASSUME Init PROVE IInv
<1>1. TypeOK
  <2>1. list \in Seq(Depots) /\ count \in Int
    <3>. DEFINE m == IF Len(Pool) > ListLen THEN Len(Pool) - ListLen + 1 ELSE 1
    <3>1. Pool \in Seq(Depots) /\ Len(Pool) \in Nat /\ ListLen \in Nat
      BY PoolAssumption
    <3>2. m \in 1..Len(Pool) + 1 /\ Len(Pool) \in 0..Len(Pool)
      BY <3>1
    <3>. HIDE DEF m
    <3>3. SubSeq(Pool, m, Len(Pool)) \in Seq(Depots)
      BY <3>1, <3>2, SubSeqType
    <3>4. FirstDepots \in Seq(Depots)
      BY <3>3 DEF FirstDepots, m
    <3>5. Len(FirstDepots) \in Int
      BY <3>4
    <3>. QED  BY <3>4, <3>5 DEF Init, ListInit
  <2>2. /\ badList \subseteq Depots /\ locked \in BOOLEAN /\ poolLocked \in BOOLEAN
        /\ retry \in BOOLEAN /\ deadline \in BOOLEAN
    BY StoreAssumption DEF Init, ListInit
  <2>3. /\ status \in [Jobs -> JobStatus] /\ array \in [Jobs -> {"none", "empty", "full"}]
        /\ main \in {"condition", "create", "join", "returned", "crashed"}
        /\ pc \in [Workers -> WorkerPcs] /\ job \in [Workers -> Jobs \cup {NoJob}]
        /\ result \in [Workers -> Codes] /\ hand \in [Workers -> Depots \cup {NoDepot}]
    BY DEF Init, JobStatus, WorkerPcs, Codes
  <2>4. /\ tried \in [Workers -> 0..MaxTried]
        /\ wanted \in [Workers -> Int] /\ at \in [Workers -> Nat] /\ added \in [Workers -> Nat]
    BY StoreAssumption DEF Init
  <2>5. /\ time \in {"left", "ending", "over"} /\ cancelReq \subseteq Workers
        /\ mappings \subseteq Jobs /\ ret \in Codes \cup {"none", "LORS_PARTIAL", "LORS_FAILURE"}
    BY DEF Init
  <2>. QED  BY <2>1, <2>2, <2>3, <2>4, <2>5 DEF TypeOK
<1>2. Shape
  BY DEF Init, Shape, HandlerPcs, DepotPcs
<1>3. OneWorkerPerJob
  BY DEF Init, OneWorkerPerJob
<1>4. Results
  BY DEF Init, Results, Committed
<1>5. ReturnsTruth
  BY DEF Init, ReturnsTruth
<1>. QED  BY <1>1, <1>2, <1>3, <1>4, <1>5 DEF IInv

\* The inductive invariant holds in every state of a store.
THEOREM StoreInvariant == Spec => []IInv
<1>1. IInv /\ [Next]_vars => IInv'
  BY TypeStep, ShapeStep, JobStep, ResultsStep, ReturnsStep DEF IInv
<1>. QED  BY <1>1, InitIInv, PTL DEF Spec

\* Type correctness: the worker that adds a depot reads inside the pool, and no
\* job tries more depots than it may (lorsRefillListFromPool,
\* _lorsDoCreateStore).
THEOREM StoreTypeOK == Spec => []TypeOK
<1>1. IInv => TypeOK
  BY DEF IInv
<1>. QED  BY <1>1, StoreInvariant, PTL

\* A block has one worker, or an error to show for it (_lorsGetJob,
\* _lorsDoCreateStore, _lorsCleanupThread).
THEOREM BlocksHaveOneWorker == Spec => []OneWorkerPerJob
<1>1. IInv => OneWorkerPerJob
  BY DEF IInv
<1>. QED  BY <1>1, StoreInvariant, PTL

\* Every mapping of the set has its block (_lorsDoCreateStore, lorsSetStore).
THEOREM MappingsHaveTheirBlock == Spec => []MappingsFull
<1>1. IInv => MappingsFull
  BY DEF IInv, Results, MappingsFull, TypeOK
<1>. QED  BY <1>1, StoreInvariant, PTL

\* What lorsSetStore returns is true of the set (_lorsJoinThread, lorsSetStore).
THEOREM StoreReturnsTruth == Spec => []ReturnsTruth
<1>1. IInv => ReturnsTruth
  BY DEF IInv
<1>. QED  BY <1>1, StoreInvariant, PTL
=============================================================================
