------------------------ MODULE LorsDownload_proofs ------------------------
(***************************************************************************)
(* Proofs about the download engine, for every number of blocks, workers,  *)
(* depots and replicas and every choice of the call's parameters.          *)
(***************************************************************************)
EXTENDS LorsDownload, FiniteSetTheorems, TLAPS

(* The inductive invariant. *)

\* What a worker holds at each point of its loop.
WorkerShape ==
    \A w \in Workers :
        /\ pc[w] \in {"get", "again", "readWait", "condWait"} => job[w] = NoBlock
        /\ pc[w] \in {"get", "again", "readWait", "condWait", "commit"} => lm[w] = NoMapping
        /\ pc[w] \in {"got", "load", "commit"} => job[w] \in Blocks
        /\ pc[w] = "load" => lm[w] \in Mappings
        /\ pc[w] = "fail" => result[w] # "LORS_SUCCESS"
        /\ job[w] \in Blocks => status[job[w]] # "JOB_INIT"

\* A mapping in use is one of the block's replicas, taken off its list, and
\* no other holder of the block uses it.
MappingsInUse ==
    /\ \A b \in Blocks : src[b] \subseteq Cand[b]
    /\ \A w \in Workers : lm[w] # NoMapping =>
          /\ job[w] \in Blocks
          /\ lm[w] \in Cand[job[w]] \ src[job[w]]
          /\ \A v \in Workers \ {w} : job[v] = job[w] => lm[v] # lm[w]

\* What the output thread knows at each of its points.
OutputShape ==
    /\ out = "write" => dstCur \in Blocks /\ status[dstCur] \in {"JOB_PENDING", "JOB_FAILED"}
    /\ out = "finish" /\ outRet = "LORS_SUCCESS" => dstCur > NBlocks
    /\ out \in {"kill", "bcast", "exited"} /\ jpStatus = "LORS_SUCCESS" => dstCur > NBlocks
    /\ returned => out = "exited" /\ \A w \in Workers : pc[w] = "ended"

FailedHasCode == \A b \in Blocks : status[b] = "JOB_FAILED" => errCode[b] # "LORS_SUCCESS"

IInv ==
    /\ TypeOK
    /\ WorkerShape
    /\ MappingsInUse
    /\ OutputShape
    /\ FailedHasCode
    /\ ThreadAccounting
    /\ SlotAccounting
    /\ FailedExhausted
    /\ OutputBookkeeping
-----------------------------------------------------------------------------
(* Sets of workers and of blocks are finite. *)

LEMMA HoldersFinite ==
    ASSUME NEW b PROVE IsFiniteSet(Holders(b)) /\ Cardinality(Holders(b)) \in Nat
  BY CallAssumption, FS_Subset, FS_CardinalityType DEF Holders

LEMMA ConnectedFinite ==
    ASSUME NEW d PROVE IsFiniteSet(Connected(d)) /\ Cardinality(Connected(d)) \in Nat
  BY CallAssumption, FS_Subset, FS_CardinalityType DEF Connected

\* The blocks committed by workers and not yet by the output thread.
Waiting == {b \in Blocks : status[b] \in {"JOB_PENDING", "JOB_FAILED"}}

LEMMA WaitingFinite == IsFiniteSet(Waiting) /\ Cardinality(Waiting) \in Nat
<1>1. IsFiniteSet(Blocks)
  BY FS_Interval, CallAssumption DEF Blocks
<1>. QED  BY <1>1, FS_Subset, FS_CardinalityType DEF Waiting
-----------------------------------------------------------------------------
(* The steps, grouped by what they do to the accounts. *)

Acquire(w) == TakeSlow(w) \/ TakeNew(w) \/ TakeSpare(w)
Idle(w) ==
    ExitOnFailed(w) \/ HoldBack(w) \/ TakeNothing(w) \/ StartLate(w) \/ StartLoad(w) \/ EndWorker(w)
Release(w) == LoadSucceeds(w) \/ LoadFails(w) \/ LoadTimesOut(w) \/ Cancelled(w)
Commit(w) == CommitLate(w) \/ CommitYield(w) \/ CommitFailed(w) \/ CommitPending(w)
Quiet == Return \/ Expire \/ UNCHANGED vars

LEMMA StepCases ==
    ASSUME [Next]_vars
    PROVE  \/ \E w \in Workers : Acquire(w) \/ Idle(w) \/ Release(w) \/ Commit(w)
           \/ Output
           \/ Quiet
  BY DEF Next, Worker, Acquire, Idle, Release, Commit, Quiet, Terminated

\* New blocks become checked-out ones, and nothing else happens to a block.
OnlyTaken ==
    /\ status' \in [Blocks -> JobStatus]
    /\ \A k \in Blocks : status'[k] # status[k] =>
          status[k] = "JOB_INIT" /\ status'[k] = "JOB_CHECKOUT"

LEMMA AcquireFacts ==
    ASSUME IInv, NEW w \in Workers, Acquire(w)
    PROVE  \E b \in Blocks, m \in Mappings \cup {NoMapping} :
              /\ Checkout(w, b, m) /\ Scanning(w) /\ OnlyTaken
              /\ status[b] \in {"JOB_INIT", "JOB_CHECKOUT"} /\ status'[b] = "JOB_CHECKOUT"
              /\ m = NoMapping \/ m \in Usable(b)
              /\ ThdsPerJob <= 0 \/ nThreads[b] < ThdsPerJob \/ status[b] = "JOB_INIT"
<1>. /\ status \in [Blocks -> JobStatus] /\ src \in [Blocks -> SUBSET Mappings]
     /\ nThreads \in [Blocks -> Nat]
  BY DEF IInv, TypeOK
<1>. ThdsPerJob \in Int /\ Blocks \subseteq Int
  BY CallAssumption DEF Blocks
<1>1. CASE TakeSlow(w)
  <2>1. PICK b \in Blocks : IsFirst(b, Slow) /\ \E m \in Best(b) : Checkout(w, b, m)
    BY <1>1 DEF TakeSlow
  <2>2. PICK m \in Best(b) : Checkout(w, b, m)
    BY <2>1
  <2>3. Slow(b) /\ m \in Usable(b) /\ m \in Mappings
    BY <2>1, <2>2 DEF IsFirst, Best, Usable
  <2>. QED  BY <1>1, <2>2, <2>3 DEF TakeSlow, Slow, OnlyTaken
<1>2. CASE TakeNew(w)
  <2>1. PICK b \in Blocks :
            /\ IsFirst(b, Fresh)
            /\ status' = [SkipUpTo(b) EXCEPT ![b] = "JOB_CHECKOUT"]
            /\ \/ src[b] = {} /\ Checkout(w, b, NoMapping)
               \/ \E m \in Best(b) : Checkout(w, b, m)
    BY <1>2 DEF TakeNew
  <2>2. PICK m \in Mappings \cup {NoMapping} :
            Checkout(w, b, m) /\ (m = NoMapping \/ m \in Usable(b))
    BY <2>1 DEF Best, Usable
  <2>3. status[b] = "JOB_INIT"
    BY <2>1 DEF IsFirst, Fresh
  <2>4. OnlyTaken /\ status'[b] = "JOB_CHECKOUT"
    BY <2>1, <2>3 DEF OnlyTaken, SkipUpTo, JobStatus
  <2>. QED  BY <1>2, <2>2, <2>3, <2>4 DEF TakeNew
<1>3. CASE TakeSpare(w)
  <2>1. PICK b \in Blocks : IsFirst(b, Spare) /\ \E m \in Best(b) : Checkout(w, b, m)
    BY <1>3 DEF TakeSpare
  <2>2. PICK m \in Best(b) : Checkout(w, b, m)
    BY <2>1
  <2>3. Spare(b) /\ m \in Usable(b) /\ m \in Mappings
    BY <2>1, <2>2 DEF IsFirst, Best, Usable
  <2>4. OnlyTaken /\ status'[b] = "JOB_CHECKOUT"
    BY <1>3, <2>3 DEF TakeSpare, OnlyTaken, SkipUpTo, JobStatus, Spare
  <2>. QED  BY <1>3, <2>2, <2>3, <2>4 DEF TakeSpare, Spare
<1>. QED  BY <1>1, <1>2, <1>3 DEF Acquire

LEMMA IdleFacts ==
    ASSUME IInv, NEW w \in Workers, Idle(w)
    PROVE  /\ OnlyTaken
           /\ UNCHANGED <<nThreads, doneAhead, src, errCode, slots, poolVars, job, lm,
                          cancelReq, outRet, late, returned>>
<1>1. CASE TakeNothing(w)
  BY <1>1 DEF IInv, TypeOK, TakeNothing, OnlyTaken, SkipUpTo, JobStatus, poolVars
<1>2. CASE ~TakeNothing(w)
  BY <1>2 DEF IInv, TypeOK, Idle, OnlyTaken, ExitOnFailed, HoldBack, StartLate,
              StartLoad, EndWorker, jobVars, poolVars
<1>. QED  BY <1>1, <1>2
-----------------------------------------------------------------------------
(* A counter that a step decrements is positive. *)

LEMMA HolderCounted ==
    ASSUME IInv, NEW w \in Workers, job[w] \in Blocks
    PROVE  nThreads[job[w]] \in Nat /\ nThreads[job[w]] >= 1
<1>1. w \in Holders(job[w])
  BY DEF Holders
<1>2. Cardinality(Holders(job[w])) # 0
  BY <1>1, HoldersFinite, FS_EmptySet
<1>. QED  BY <1>2, HoldersFinite DEF IInv, ThreadAccounting

LEMMA ConnectionCounted ==
    ASSUME IInv, NEW w \in Workers, lm[w] \in Mappings
    PROVE  slots[DepotOf[lm[w]]] \in Nat /\ slots[DepotOf[lm[w]]] >= 1
<1>. DEFINE d == DepotOf[lm[w]]
<1>1. d \in Depots /\ w \in Connected(d)
  BY CallAssumption DEF Connected
<1>2. Cardinality(Connected(d)) # 0
  BY <1>1, ConnectedFinite, FS_EmptySet
<1>3. slots[d] \in Nat /\ Cardinality(Connected(d)) <= slots[d]
  BY <1>1 DEF IInv, TypeOK, SlotAccounting
<1>. HIDE DEF d
<1>4. slots[d] >= 1
  BY <1>2, <1>3, ConnectedFinite
<1>. QED  BY <1>3, <1>4 DEF d

LEMMA TakenCounted ==
    ASSUME IInv, out = "check", dstCur \in Pending
    PROVE  dstCur \in Blocks /\ dstCur \in Waiting /\ numPending >= 1
<1>1. dstCur \in Waiting
  BY CallAssumption DEF IInv, TypeOK, OutputBookkeeping, Pending, Waiting, Blocks
<1>2. Cardinality(Waiting) # 0
  BY <1>1, WaitingFinite, FS_EmptySet
<1>3. numPending = Cardinality(Waiting)
  BY DEF IInv, TypeOK, OutputBookkeeping, Waiting
<1>. QED  BY <1>1, <1>2, <1>3, WaitingFinite DEF Waiting
-----------------------------------------------------------------------------
(* Type correctness. *)

LEMMA CodesOf == {"LORS_SUCCESS", "LORS_TIMEOUT_EXPIRED", "LORS_HAS_HOLE", "LORS_IBP_FAILED",
                  "LORS_SYS_FAILED", "ONE"} \subseteq Codes
  BY DEF Codes

LEMMA WakesTyped ==
    ASSUME NEW p \in [Workers -> WorkerPcs]
    PROVE  WakeCond(p) \in [Workers -> WorkerPcs] /\ WakeRead(p) \in [Workers -> WorkerPcs]
  BY DEF WakeCond, WakeRead, WorkerPcs

LEMMA AcquireType ==
    ASSUME IInv, NEW w \in Workers, Acquire(w) PROVE TypeOK'
<1>1. PICK b \in Blocks, m \in Mappings \cup {NoMapping} :
          Checkout(w, b, m) /\ OnlyTaken /\ (m = NoMapping \/ m \in Usable(b))
  BY AcquireFacts
<1>2. nThreads' \in [Blocks -> Nat] /\ src' \in [Blocks -> SUBSET Mappings]
  BY <1>1 DEF IInv, TypeOK, Checkout, Untried
<1>3. slots' \in [Depots -> Nat]
  BY <1>1, CallAssumption DEF IInv, TypeOK, Checkout
<1>4. pc' \in [Workers -> WorkerPcs] /\ job' \in [Workers -> Blocks \cup {NoBlock}]
      /\ lm' \in [Workers -> Mappings \cup {NoMapping}]
  BY <1>1 DEF IInv, TypeOK, Checkout, WorkerPcs
<1>. QED  BY <1>1, <1>2, <1>3, <1>4 DEF IInv, TypeOK, Checkout, OnlyTaken, poolVars

LEMMA IdleType ==
    ASSUME IInv, NEW w \in Workers, Idle(w) PROVE TypeOK'
<1>1. pc' \in [Workers -> WorkerPcs] /\ result' \in [Workers -> Codes]
  BY CodesOf DEF IInv, TypeOK, Idle, ExitOnFailed, HoldBack, TakeNothing, StartLate, StartLoad,
                 EndWorker, WorkerPcs
<1>2. jpStatus' \in Codes /\ out' \in OutputPcs
  BY DEF IInv, TypeOK, Idle, ExitOnFailed, HoldBack, TakeNothing, StartLate, StartLoad,
         EndWorker, WakeOut, OutputPcs
<1>. QED  BY <1>1, <1>2, IdleFacts DEF IInv, TypeOK, OnlyTaken, poolVars

LEMMA ReleaseType ==
    ASSUME IInv, NEW w \in Workers, Release(w) PROVE TypeOK'
<1>1. pc[w] = "load" => FreeSlot(w) \in [Depots -> Nat]
  BY ConnectionCounted, CallAssumption DEF IInv, TypeOK, WorkerShape, FreeSlot
<1>2. CASE \E c \in Codes, r \in BOOLEAN : EndLoad(w, c, r)
  BY <1>1, <1>2, WakesTyped DEF IInv, TypeOK, EndLoad, WorkerPcs, jobVars, poolVars
<1>3. CASE Cancelled(w)
  BY <1>1, <1>3 DEF IInv, TypeOK, Cancelled, WorkerPcs, jobVars, poolVars
<1>. QED  BY <1>2, <1>3, CodesOf DEF Release, LoadSucceeds, LoadFails, LoadTimesOut

LEMMA CommitType ==
    ASSUME IInv, NEW w \in Workers, Commit(w) PROVE TypeOK'
<1>. pc[w] = "commit" /\ job[w] \in Blocks /\ LeaveJob(w)
  BY DEF IInv, WorkerShape, Commit, CommitLate, CommitYield, CommitFailed, CommitPending
<1>1. nThreads' \in [Blocks -> Nat]
  BY HolderCounted DEF IInv, TypeOK, LeaveJob
<1>2. pc' \in [Workers -> WorkerPcs] /\ job' \in [Workers -> Blocks \cup {NoBlock}]
  BY WakesTyped DEF IInv, TypeOK, LeaveJob, WorkerPcs
<1>3. out' \in OutputPcs
  BY DEF IInv, TypeOK, LeaveJob, WakeOut, OutputPcs
<1>4. status' \in [Blocks -> JobStatus] /\ doneAhead' \in [Blocks -> Nat]
      /\ errCode' \in [Blocks -> Codes] /\ numPending' \in Nat
  BY DEF IInv, TypeOK, Commit, CommitLate, CommitYield, CommitFailed, CommitPending, JobStatus
<1>. QED  BY <1>1, <1>2, <1>3, <1>4 DEF IInv, TypeOK, LeaveJob

LEMMA OutputType ==
    ASSUME IInv, Output PROVE TypeOK'
<1>. USE CallAssumption DEF IInv, TypeOK, jobVars, poolVars
<1>1. CASE OutputStart
  BY <1>1 DEF OutputStart, OutputPcs
<1>2. CASE OutputTake
  <2>1. numPending >= 1 /\ numPending' = numPending - 1
    BY <1>2, TakenCounted DEF OutputTake
  <2>. QED  BY <1>2, <2>1, WakesTyped DEF OutputTake, OutputPcs
<1>3. CASE OutputStall
  BY <1>3, CodesOf DEF OutputStall, OutputPcs
<1>4. CASE OutputWrite
  <2>1. dstCur \in Blocks
    BY <1>4 DEF OutputWrite, OutputShape
  <2>. QED  BY <1>4, <2>1 DEF OutputWrite, OutputPcs, JobStatus, Blocks
<1>5. CASE OutputFailedBlock
  BY <1>5 DEF OutputFailedBlock, OutputPcs, OutputShape
<1>6. CASE OutputWriteError
  BY <1>6, CodesOf DEF OutputWriteError, OutputPcs
<1>7. CASE OutputDone
  BY <1>7 DEF OutputDone, OutputPcs
<1>8. CASE KillThreads
  BY <1>8 DEF KillThreads, OutputPcs
<1>9. CASE OutputExit
  BY <1>9, WakesTyped DEF OutputExit, OutputPcs
<1>. QED  BY <1>1, <1>2, <1>3, <1>4, <1>5, <1>6, <1>7, <1>8, <1>9 DEF Output

LEMMA QuietType ==
    ASSUME IInv, Quiet PROVE TypeOK'
  BY DEF IInv, TypeOK, Quiet, Return, Expire, vars, jobVars, poolVars

LEMMA TypeStep ==
    ASSUME IInv, [Next]_vars PROVE TypeOK'
  BY StepCases, AcquireType, IdleType, ReleaseType, CommitType, OutputType, QuietType
-----------------------------------------------------------------------------
(* What a step leaves alone, or changes in a way that is the same for every *)
(* action of its group.                                                     *)

LEMMA ReleaseFacts ==
    ASSUME IInv, NEW w \in Workers, Release(w)
    PROVE  /\ UNCHANGED <<status, nThreads, src, errCode, numPending, dstCur, preBuf, job,
                          jpStatus, out, outRet, late, returned>>
           /\ pc[w] # "ended" /\ pc[w] # "fail"
           /\ \/ UNCHANGED <<slots, lm>>
              \/ /\ pc[w] = "load" /\ lm' = [lm EXCEPT ![w] = NoMapping]
                 /\ slots' = FreeSlot(w) \/ (slots' = slots /\ late)
<1>1. CASE \E c \in Codes : EndLoad(w, c, TRUE)
  BY <1>1 DEF EndLoad, jobVars, poolVars
<1>2. CASE late /\ EndLoad(w, "LORS_TIMEOUT_EXPIRED", FALSE)
  BY <1>2 DEF EndLoad, jobVars, poolVars
<1>3. CASE Cancelled(w)
  BY <1>3 DEF Cancelled, jobVars, poolVars
<1>. QED  BY <1>1, <1>2, <1>3, CodesOf DEF Release, LoadSucceeds, LoadFails, LoadTimesOut

\* A block that a worker commits is checked out: nobody has given it up.
LEMMA CommitFacts ==
    ASSUME IInv, NEW w \in Workers, Commit(w)
    PROVE  /\ job[w] \in Blocks /\ lm[w] = NoMapping /\ pc[w] = "commit" /\ LeaveJob(w)
           /\ \/ UNCHANGED <<status, numPending, errCode>>
              \/ /\ status[job[w]] = "JOB_CHECKOUT" /\ numPending' = numPending + 1
                 /\ \/ /\ CommitFailed(w)
                       /\ status' = [status EXCEPT ![job[w]] = "JOB_FAILED"]
                    \/ /\ CommitPending(w) /\ errCode' = errCode
                       /\ status' = [status EXCEPT ![job[w]] = "JOB_PENDING"]
<1>1. job[w] \in Blocks /\ lm[w] = NoMapping /\ pc[w] = "commit" /\ LeaveJob(w)
  BY DEF IInv, WorkerShape, Commit, CommitLate, CommitYield, CommitFailed, CommitPending
<1>2. status[job[w]] # "JOB_INIT" /\ status[job[w]] # "JOB_FAILED" /\ status[job[w]] \in JobStatus
  BY <1>1 DEF IInv, TypeOK, WorkerShape, FailedExhausted, Holders
<1>3. CASE CommitLate(w) \/ CommitYield(w)
  BY <1>1, <1>3 DEF CommitLate, CommitYield
<1>4. CASE CommitFailed(w) \/ CommitPending(w)
  <2>1. status[job[w]] = "JOB_CHECKOUT"
    BY <1>2, <1>4 DEF CommitFailed, CommitPending, AlreadyDone, JobStatus
  <2>. QED  BY <1>1, <1>4, <2>1 DEF CommitFailed, CommitPending
<1>. QED  BY <1>3, <1>4 DEF Commit

LEMMA OutputFrame ==
    ASSUME IInv, Output
    PROVE  UNCHANGED <<nThreads, src, errCode, slots, job, lm, late, returned, result>>
  BY DEF Output, OutputStart, OutputTake, OutputStall, OutputWrite, OutputFailedBlock,
         OutputWriteError, OutputDone, KillThreads, OutputExit, jobVars

LEMMA QuietFrame ==
    ASSUME Quiet
    PROVE  UNCHANGED <<status, nThreads, src, errCode, slots, numPending, dstCur, preBuf, pc,
                       job, lm, result, jpStatus, out, outRet>>
  BY DEF Quiet, Return, Expire, vars, jobVars, poolVars
-----------------------------------------------------------------------------
(* job->n_threads and depot->nthread.                                       *)

LEMMA HoldersJoin ==
    ASSUME IInv, NEW w \in Workers, job[w] = NoBlock, NEW b \in Blocks,
           job' = [job EXCEPT ![w] = b]
    PROVE  /\ Holders(b)' = Holders(b) \cup {w} /\ w \notin Holders(b)
           /\ \A k \in Blocks \ {b} : Holders(k)' = Holders(k)
<1>. NoBlock \notin Blocks
  BY CallAssumption DEF NoBlock, Blocks
<1>. QED  BY DEF IInv, TypeOK, Holders

LEMMA HoldersLeave ==
    ASSUME IInv, NEW w \in Workers, NEW b \in Blocks, job[w] = b,
           job' = [job EXCEPT ![w] = NoBlock]
    PROVE  /\ Holders(b)' = Holders(b) \ {w} /\ w \in Holders(b)
           /\ \A k \in Blocks \ {b} : Holders(k)' = Holders(k)
<1>. NoBlock \notin Blocks
  BY CallAssumption DEF NoBlock, Blocks
<1>. QED  BY DEF IInv, TypeOK, Holders

LEMMA ThreadAccountingStep ==
    ASSUME IInv, [Next]_vars PROVE ThreadAccounting'
<1>1. ASSUME NEW w \in Workers, Acquire(w) PROVE ThreadAccounting'
  <2>1. PICK b \in Blocks, m \in Mappings \cup {NoMapping} : Checkout(w, b, m) /\ Scanning(w)
    BY <1>1, AcquireFacts
  <2>2. job[w] = NoBlock /\ job' = [job EXCEPT ![w] = b] /\ nThreads' = [nThreads EXCEPT ![b] = @ + 1]
    BY <2>1 DEF IInv, WorkerShape, Scanning, Checkout
  <2>3. Cardinality(Holders(b) \cup {w}) = Cardinality(Holders(b)) + 1
    BY <2>2, HoldersJoin, HoldersFinite, FS_AddElement
  <2>. QED  BY <2>2, <2>3, HoldersJoin DEF IInv, TypeOK, ThreadAccounting
<1>2. ASSUME NEW w \in Workers, Commit(w) PROVE ThreadAccounting'
  <2>1. PICK b \in Blocks :
            /\ b = job[w] /\ job' = [job EXCEPT ![w] = NoBlock]
            /\ nThreads' = [nThreads EXCEPT ![b] = @ - 1]
    BY <1>2, CommitFacts DEF LeaveJob
  <2>2. /\ Holders(b)' = Holders(b) \ {w} /\ w \in Holders(b)
        /\ \A k \in Blocks \ {b} : Holders(k)' = Holders(k)
    BY <2>1, HoldersLeave
  <2>3. Cardinality(Holders(b) \ {w}) = Cardinality(Holders(b)) - 1
    BY <2>2, HoldersFinite, FS_RemoveElement
  <2>. QED  BY <2>1, <2>2, <2>3 DEF IInv, TypeOK, ThreadAccounting
<1>3. ASSUME UNCHANGED <<nThreads, job>> PROVE ThreadAccounting'
  BY <1>3 DEF IInv, ThreadAccounting, Holders
<1>. QED
  BY <1>1, <1>2, <1>3, StepCases, IdleFacts, ReleaseFacts, OutputFrame, QuietFrame

LEMMA SlotAccountingStep ==
    ASSUME IInv, [Next]_vars PROVE SlotAccounting'
<1>. USE CallAssumption
<1>1. ASSUME NEW w \in Workers, Acquire(w) PROVE SlotAccounting'
  <2>1. PICK b \in Blocks, m \in Mappings \cup {NoMapping} : Checkout(w, b, m) /\ Scanning(w)
    BY <1>1, AcquireFacts
  <2>2. lm[w] = NoMapping /\ lm' = [lm EXCEPT ![w] = m] /\ late' = late
    BY <2>1 DEF IInv, WorkerShape, Scanning, Checkout
  <2>3. CASE m = NoMapping
    <3>1. \A d \in Depots : Connected(d)' = Connected(d)
      BY <2>2, <2>3 DEF IInv, TypeOK, Connected
    <3>. QED  BY <2>1, <2>2, <2>3, <3>1 DEF IInv, TypeOK, SlotAccounting, Checkout
  <2>4. CASE m \in Mappings
    <3>1. PICK d \in Depots : d = DepotOf[m] /\ slots' = [slots EXCEPT ![d] = @ + 1]
      BY <2>1, <2>4 DEF Checkout
    <3>2. /\ Connected(d)' = Connected(d) \cup {w} /\ w \notin Connected(d)
          /\ \A e \in Depots \ {d} : Connected(e)' = Connected(e)
      BY <2>2, <2>4, <3>1 DEF IInv, TypeOK, Connected
    <3>3. Cardinality(Connected(d) \cup {w}) = Cardinality(Connected(d)) + 1
      BY <3>2, ConnectedFinite, FS_AddElement
    <3>4. ASSUME NEW e \in Depots
          PROVE  /\ Cardinality(Connected(e))' <= slots'[e]
                 /\ ~late => slots'[e] = Cardinality(Connected(e))'
      <4>1. slots[e] \in Nat /\ slots'[e] = IF e = d THEN slots[e] + 1 ELSE slots[e]
        BY <3>1 DEF IInv, TypeOK
      <4>2. Cardinality(Connected(e))' = IF e = d THEN Cardinality(Connected(e)) + 1 ELSE Cardinality(Connected(e))
        BY <3>2, <3>3
      <4>3. Cardinality(Connected(e)) <= slots[e] /\ (~late => slots[e] = Cardinality(Connected(e)))
        BY DEF IInv, SlotAccounting
      <4>. QED  BY <4>1, <4>2, <4>3, ConnectedFinite
    <3>. QED  BY <2>2, <3>4 DEF SlotAccounting
  <2>. QED  BY <2>3, <2>4
<1>2. ASSUME NEW w \in Workers, pc[w] = "load", lm' = [lm EXCEPT ![w] = NoMapping], late' = late,
             slots' = FreeSlot(w) \/ (slots' = slots /\ late)
      PROVE  SlotAccounting'
  <2>1. PICK d \in Depots : lm[w] \in Mappings /\ d = DepotOf[lm[w]]
    BY <1>2 DEF IInv, WorkerShape
  <2>2. \A e \in Depots : Connected(e)' = IF e = d THEN Connected(e) \ {w} ELSE Connected(e)
    BY <1>2, <2>1 DEF IInv, TypeOK, Connected
  <2>3. w \in Connected(d) /\ (slots' = [slots EXCEPT ![d] = @ - 1] \/ (slots' = slots /\ late))
    BY <1>2, <2>1 DEF Connected, FreeSlot
  <2>4. Cardinality(Connected(d) \ {w}) = Cardinality(Connected(d)) - 1
    BY <2>3, ConnectedFinite, FS_RemoveElement
  <2>5. ASSUME NEW e \in Depots
        PROVE  /\ Cardinality(Connected(e))' <= slots'[e]
               /\ ~late => slots'[e] = Cardinality(Connected(e))'
    <3>1. slots[e] \in Nat /\ (late \/ slots'[e] = IF e = d THEN slots[e] - 1 ELSE slots[e])
          /\ (slots'[e] = slots[e] \/ slots'[e] = IF e = d THEN slots[e] - 1 ELSE slots[e])
      BY <2>3 DEF IInv, TypeOK
    <3>2. Cardinality(Connected(e))' = IF e = d THEN Cardinality(Connected(e)) - 1 ELSE Cardinality(Connected(e))
      BY <2>2, <2>4
    <3>3. Cardinality(Connected(e)) <= slots[e] /\ (~late => slots[e] = Cardinality(Connected(e)))
      BY DEF IInv, SlotAccounting
    <3>. QED  BY <3>1, <3>2, <3>3, ConnectedFinite
  <2>. QED  BY <1>2, <2>5 DEF SlotAccounting
<1>3. ASSUME UNCHANGED <<slots, lm>>, late' = FALSE => late = FALSE PROVE SlotAccounting'
  BY <1>3 DEF IInv, TypeOK, SlotAccounting, Connected
<1>4. ASSUME NEW w \in Workers, Commit(w) PROVE UNCHANGED <<slots, lm, late>>
  BY <1>4, CommitFacts DEF LeaveJob
<1>5. ASSUME Quiet PROVE UNCHANGED <<slots, lm>> /\ (late' = FALSE => late = FALSE)
  BY <1>5 DEF Quiet, Return, Expire, vars
<1>. QED
  BY <1>1, <1>2, <1>3, <1>4, <1>5, StepCases, IdleFacts, ReleaseFacts, OutputFrame
-----------------------------------------------------------------------------
(* Blocks: given up, committed, written.                                    *)

LEMMA FailedExhaustedStep ==
    ASSUME IInv, [Next]_vars PROVE FailedExhausted'
<1>1. ASSUME NEW w \in Workers, Acquire(w) PROVE FailedExhausted'
  <2>1. PICK b \in Blocks, m \in Mappings \cup {NoMapping} :
            Checkout(w, b, m) /\ Scanning(w) /\ OnlyTaken /\ status'[b] = "JOB_CHECKOUT"
    BY <1>1, AcquireFacts
  <2>2. job[w] = NoBlock /\ job' = [job EXCEPT ![w] = b] /\ src' = [src EXCEPT ![b] = @ \ {m}]
    BY <2>1 DEF IInv, WorkerShape, Scanning, Checkout, Untried
  <2>3. \A k \in Blocks \ {b} : Holders(k)' = Holders(k) /\ src'[k] = src[k]
    BY <2>2, HoldersJoin DEF IInv, TypeOK
  <2>. QED  BY <2>1, <2>3 DEF IInv, FailedExhausted, OnlyTaken
<1>2. ASSUME NEW w \in Workers, Commit(w) PROVE FailedExhausted'
  <2>1. PICK b \in Blocks :
            /\ b = job[w] /\ job' = [job EXCEPT ![w] = NoBlock] /\ src' = src
            /\ \/ status' = status
               \/ status' = [status EXCEPT ![b] = "JOB_PENDING"]
               \/ status' = [status EXCEPT ![b] = "JOB_FAILED"] /\ GiveUp(w)
    BY <1>2, CommitFacts DEF LeaveJob, CommitFailed
  <2>2. /\ Holders(b)' = Holders(b) \ {w} /\ w \in Holders(b)
        /\ \A k \in Blocks \ {b} : Holders(k)' = Holders(k)
    BY <2>1, HoldersLeave
  <2>3. GiveUp(w) => Holders(b) \ {w} = {} /\ src[b] = {}
    <3>1. GiveUp(w) => Cardinality(Holders(b)) - 1 <= 0 /\ src[b] = {}
      BY <2>1 DEF GiveUp, IInv, ThreadAccounting
    <3>2. /\ IsFiniteSet(Holders(b) \ {w}) /\ Cardinality(Holders(b) \ {w}) \in Nat
          /\ Cardinality(Holders(b) \ {w}) = Cardinality(Holders(b)) - 1
      BY <2>2, HoldersFinite, FS_RemoveElement, FS_CardinalityType
    <3>3. GiveUp(w) => Cardinality(Holders(b) \ {w}) = 0
      BY <3>1, <3>2, HoldersFinite
    <3>. QED  BY <3>1, <3>2, <3>3, FS_EmptySet
  <2>. QED  BY <2>1, <2>2, <2>3 DEF IInv, TypeOK, FailedExhausted
<1>3. ASSUME OnlyTaken, UNCHANGED <<src, job>> PROVE FailedExhausted'
  BY <1>3 DEF IInv, FailedExhausted, Holders, OnlyTaken
<1>4. ASSUME UNCHANGED <<status, src, job>> PROVE FailedExhausted'
  BY <1>4 DEF IInv, FailedExhausted, Holders
<1>5. ASSUME Output PROVE FailedExhausted'
  <2>1. UNCHANGED <<src, job>>
    BY <1>5, OutputFrame
  <2>2. status' = status \/ status' = [status EXCEPT ![dstCur] = "JOB_COMMIT"]
    BY <1>5 DEF Output, OutputStart, OutputTake, OutputStall, OutputWrite, OutputFailedBlock,
                OutputWriteError, OutputDone, KillThreads, OutputExit, jobVars
  <2>. QED  BY <2>1, <2>2 DEF IInv, TypeOK, FailedExhausted, Holders
<1>. QED
  BY <1>1, <1>2, <1>3, <1>4, <1>5, StepCases, IdleFacts, ReleaseFacts, QuietFrame

LEMMA OutputBookkeepingStep ==
    ASSUME IInv, [Next]_vars PROVE OutputBookkeeping'
<1>. DEFINE Live == {"start", "wait", "check", "write"}
            Taken == IF out = "write" THEN 1 ELSE 0
<1>0. /\ \A b \in Blocks : status[b] = "JOB_COMMIT" <=> b < dstCur
      /\ out \in Live => numPending + Taken = Cardinality(Waiting)
      /\ numPending \in Nat /\ dstCur \in 1..(NBlocks + 1)
  BY DEF IInv, TypeOK, OutputBookkeeping, Waiting
<1>1. SUFFICES /\ \A b \in Blocks : status'[b] = "JOB_COMMIT" <=> b < dstCur'
               /\ out' \in Live => numPending' + Taken' = Cardinality(Waiting')
  BY DEF OutputBookkeeping, Waiting
<1>2. ASSUME OnlyTaken, UNCHANGED <<dstCur, numPending>>,
             out' = out \/ (out = "wait" /\ out' = "check") \/ out' \notin Live
      PROVE  /\ \A b \in Blocks : status'[b] = "JOB_COMMIT" <=> b < dstCur'
             /\ out' \in Live => numPending' + Taken' = Cardinality(Waiting')
  <2>1. Waiting' = Waiting
    BY <1>2 DEF OnlyTaken, Waiting
  <2>. QED  BY <1>0, <1>2, <2>1 DEF OnlyTaken
<1>3. OnlyTaken \/ status' # status
  BY DEF IInv, TypeOK, OnlyTaken
<1>4. ASSUME NEW w \in Workers, Acquire(w)
      PROVE  OnlyTaken /\ UNCHANGED <<dstCur, numPending, out>>
  BY <1>4, AcquireFacts DEF Checkout, poolVars
<1>5. ASSUME NEW w \in Workers, Idle(w)
      PROVE  /\ OnlyTaken /\ UNCHANGED <<dstCur, numPending>>
             /\ out' = out \/ (out = "wait" /\ out' = "check")
  <2>1. out' = out \/ (out = "wait" /\ out' = "check")
    BY <1>5 DEF Idle, ExitOnFailed, HoldBack, TakeNothing, StartLate, StartLoad, EndWorker, WakeOut
  <2>. QED  BY <1>5, <2>1, IdleFacts DEF poolVars
<1>6. ASSUME NEW w \in Workers, Commit(w)
      PROVE  /\ \A b \in Blocks : status'[b] = "JOB_COMMIT" <=> b < dstCur'
             /\ out' \in Live => numPending' + Taken' = Cardinality(Waiting')
  <2>1. PICK b \in Blocks :
            /\ b = job[w] /\ dstCur' = dstCur /\ WakeOut
            /\ \/ UNCHANGED <<status, numPending>>
               \/ /\ status[b] = "JOB_CHECKOUT" /\ numPending' = numPending + 1
                  /\ \/ status' = [status EXCEPT ![b] = "JOB_PENDING"]
                     \/ status' = [status EXCEPT ![b] = "JOB_FAILED"]
    BY <1>6, CommitFacts DEF LeaveJob
  <2>2. out' = out \/ (out = "wait" /\ out' = "check")
    BY <2>1 DEF WakeOut
  <2>3. CASE UNCHANGED <<status, numPending>>
    BY <1>2, <1>3, <2>1, <2>2, <2>3
  <2>4. CASE status' # status
    <3>1. Waiting' = Waiting \cup {b} /\ b \notin Waiting
      BY <2>1, <2>4 DEF Waiting, IInv, TypeOK
    <3>2. Cardinality(Waiting \cup {b}) = Cardinality(Waiting) + 1
      BY <3>1, WaitingFinite, FS_AddElement
    <3>3. numPending' = numPending + 1 /\ Taken' = Taken /\ (out' \in Live <=> out \in Live)
      BY <2>1, <2>2, <2>4
    <3>4. \A k \in Blocks : status'[k] = "JOB_COMMIT" <=> status[k] = "JOB_COMMIT"
      BY <2>1, <2>4 DEF IInv, TypeOK
    <3>. QED  BY <1>0, <2>1, <3>1, <3>2, <3>3, <3>4, WaitingFinite
  <2>5. UNCHANGED <<status, numPending>> \/ status' # status
    BY <2>1 DEF IInv, TypeOK
  <2>. QED  BY <2>3, <2>4, <2>5
<1>7. ASSUME OutputTake
      PROVE  /\ \A b \in Blocks : status'[b] = "JOB_COMMIT" <=> b < dstCur'
             /\ out' \in Live => numPending' + Taken' = Cardinality(Waiting')
  <2>1. Waiting' = Waiting /\ numPending' = numPending - 1 /\ Taken' = 1 /\ Taken = 0
        /\ out \in Live /\ UNCHANGED <<status, dstCur>>
    BY <1>7 DEF OutputTake, Waiting, jobVars
  <2>. QED  BY <1>0, <2>1
<1>8. ASSUME OutputWrite
      PROVE  /\ \A b \in Blocks : status'[b] = "JOB_COMMIT" <=> b < dstCur'
             /\ out' \in Live => numPending' + Taken' = Cardinality(Waiting')
  <2>1. PICK b \in Blocks :
            /\ b = dstCur /\ status[b] = "JOB_PENDING" /\ dstCur' = b + 1
            /\ status' = [status EXCEPT ![b] = "JOB_COMMIT"]
    BY <1>8 DEF OutputWrite, IInv, OutputShape
  <2>2. Waiting' = Waiting \ {b} /\ b \in Waiting
    BY <2>1 DEF Waiting, IInv, TypeOK
  <2>3. Cardinality(Waiting \ {b}) = Cardinality(Waiting) - 1
    BY <2>2, WaitingFinite, FS_RemoveElement
  <2>4. numPending' = numPending /\ Taken' = 0 /\ Taken = 1 /\ out \in Live
    BY <1>8 DEF OutputWrite
  <2>5. \A k \in Blocks : status'[k] = "JOB_COMMIT" <=> k < dstCur'
    BY <1>0, <2>1, CallAssumption DEF IInv, TypeOK, Blocks
  <2>6. numPending' + Taken' = Cardinality(Waiting')
    BY <1>0, <2>2, <2>3, <2>4, WaitingFinite
  <2>. QED  BY <2>5, <2>6
<1>9. ASSUME Output, ~OutputTake, ~OutputWrite
      PROVE  /\ OnlyTaken /\ UNCHANGED <<dstCur, numPending>>
             /\ out' = out \/ (out \in {"start", "check"} /\ out' \in {"wait", "check"}) \/ out' \notin Live
  BY <1>3, <1>9 DEF Output, OutputStart, OutputStall, OutputFailedBlock, OutputWriteError,
                    OutputDone, KillThreads, OutputExit, jobVars, poolVars
<1>10. ASSUME OnlyTaken, UNCHANGED <<dstCur, numPending>>, out \in {"start", "check"}, out' \in {"wait", "check"}
       PROVE  /\ \A b \in Blocks : status'[b] = "JOB_COMMIT" <=> b < dstCur'
              /\ out' \in Live => numPending' + Taken' = Cardinality(Waiting')
  <2>1. Waiting' = Waiting
    BY <1>10 DEF OnlyTaken, Waiting
  <2>. QED  BY <1>0, <1>10, <2>1 DEF OnlyTaken
<1>. HIDE DEF Live, Taken
<1>11. ASSUME NEW w \in Workers, Release(w) PROVE OnlyTaken /\ UNCHANGED <<dstCur, numPending, out>>
  BY <1>3, <1>11, ReleaseFacts
<1>12. ASSUME Quiet PROVE OnlyTaken /\ UNCHANGED <<dstCur, numPending, out>>
  BY <1>3, <1>12, QuietFrame
<1>. QED
  BY <1>2, <1>4, <1>5, <1>6, <1>7, <1>8, <1>9, <1>10, <1>11, <1>12, StepCases
-----------------------------------------------------------------------------
(* What workers hold and what the output thread knows.                      *)

LEMMA WorkerShapeStep ==
    ASSUME IInv, [Next]_vars PROVE WorkerShape'
<1>. USE CallAssumption DEF IInv, TypeOK, WorkerShape
<1>1. ASSUME NEW w \in Workers, Acquire(w) PROVE WorkerShape'
  <2>1. PICK b \in Blocks, m \in Mappings \cup {NoMapping} :
            Checkout(w, b, m) /\ OnlyTaken /\ status'[b] = "JOB_CHECKOUT"
    BY <1>1, AcquireFacts
  <2>. QED  BY <2>1 DEF Checkout, OnlyTaken, NoBlock, Blocks
<1>2. ASSUME NEW w \in Workers, Idle(w) PROVE WorkerShape'
  <2>1. OnlyTaken /\ UNCHANGED <<job, lm>>
    BY <1>2, IdleFacts
  <2>2. /\ \A v \in Workers \ {w} : pc'[v] = pc[v] /\ result'[v] = result[v]
        /\ pc'[w] # pc[w]
        /\ pc'[w] \in {"readWait", "condWait"} => job[w] = NoBlock /\ lm[w] = NoMapping
        /\ pc'[w] \in {"load", "commit"} => job[w] \in Blocks
        /\ pc'[w] = "load" => lm[w] \in Mappings
        /\ pc'[w] = "commit" => lm[w] = NoMapping
        /\ pc'[w] = "fail" => result'[w] # "LORS_SUCCESS"
        /\ pc'[w] \notin {"get", "again", "got"}
    BY <1>2 DEF Idle, ExitOnFailed, HoldBack, TakeNothing, StartLate, StartLoad, EndWorker, Scanning
  <2>. QED  BY <2>1, <2>2 DEF OnlyTaken, NoBlock, Blocks
<1>3. ASSUME NEW w \in Workers, Release(w) PROVE WorkerShape'
  <2>1. CASE \E c \in Codes, r \in BOOLEAN : EndLoad(w, c, r)
    <3>1. /\ UNCHANGED <<status, job>> /\ lm' = [lm EXCEPT ![w] = NoMapping]
          /\ pc[w] = "load" /\ pc'[w] = "commit"
          /\ \A v \in Workers \ {w} : result'[v] = result[v]
      BY <2>1 DEF EndLoad, WakeCond, jobVars
    <3>2. \A v \in Workers \ {w} :
             pc'[v] = pc[v] \/ (pc[v] = "condWait" /\ pc'[v] = "again")
      BY <2>1 DEF EndLoad, WakeCond
    <3>. QED  BY <3>1, <3>2
  <2>2. CASE Cancelled(w)
    BY <2>2 DEF Cancelled, jobVars
  <2>. QED  BY <1>3, <2>1, <2>2, CodesOf DEF Release, LoadSucceeds, LoadFails, LoadTimesOut
<1>4. ASSUME NEW w \in Workers, Commit(w) PROVE WorkerShape'
  <2>1. /\ lm[w] = NoMapping /\ job[w] \in Blocks /\ lm' = lm /\ result' = result
        /\ pc' = [WakeCond(pc) EXCEPT ![w] = "get"] /\ job' = [job EXCEPT ![w] = NoBlock]
    BY <1>4, CommitFacts DEF LeaveJob
  <2>2. \A b \in Blocks : status'[b] = "JOB_INIT" => status[b] = "JOB_INIT"
    BY <1>4, CommitFacts
  <2>. QED  BY <2>1, <2>2 DEF WakeCond, NoBlock, Blocks
<1>5. ASSUME Output PROVE WorkerShape'
  <2>1. UNCHANGED <<job, lm, result>>
    BY <1>5, OutputFrame
  <2>2. pc' = pc \/ pc' = WakeRead(pc) \/ pc' = WakeRead(WakeCond(pc))
    BY <1>5 DEF Output, OutputStart, OutputTake, OutputStall, OutputWrite, OutputFailedBlock,
                OutputWriteError, OutputDone, KillThreads, OutputExit
  <2>3. \A b \in Blocks : status'[b] = "JOB_INIT" => status[b] = "JOB_INIT"
    BY <1>5 DEF Output, OutputStart, OutputTake, OutputStall, OutputWrite, OutputFailedBlock,
                OutputWriteError, OutputDone, KillThreads, OutputExit, jobVars
  <2>. QED  BY <2>1, <2>2, <2>3 DEF WakeRead, WakeCond
<1>6. ASSUME Quiet PROVE WorkerShape'
  BY <1>6, QuietFrame
<1>. QED  BY <1>1, <1>2, <1>3, <1>4, <1>5, <1>6, StepCases

LEMMA MappingsInUseStep ==
    ASSUME IInv, [Next]_vars PROVE MappingsInUse'
<1>. USE CallAssumption DEF IInv, TypeOK, MappingsInUse
<1>1. ASSUME NEW w \in Workers, Acquire(w) PROVE MappingsInUse'
  <2>1. PICK b \in Blocks, m \in Mappings \cup {NoMapping} :
            Checkout(w, b, m) /\ (m = NoMapping \/ m \in Usable(b)) /\ Scanning(w)
    BY <1>1, AcquireFacts
  <2>2. /\ job[w] = NoBlock /\ lm[w] = NoMapping
        /\ job' = [job EXCEPT ![w] = b] /\ lm' = [lm EXCEPT ![w] = m]
        /\ src' = [src EXCEPT ![b] = @ \ {m}] /\ (m = NoMapping \/ m \in src[b])
    BY <2>1 DEF WorkerShape, Scanning, Checkout, Untried, Usable
  <2>3. \A k \in Blocks : src'[k] \subseteq src[k] /\ (k = b => src'[k] = src[k] \ {m})
    BY <2>2
  <2>. QED  BY <2>2, <2>3 DEF NoBlock, Blocks
<1>2. ASSUME UNCHANGED <<src, job>>, NEW w \in Workers, lm' = lm \/ lm' = [lm EXCEPT ![w] = NoMapping]
      PROVE  MappingsInUse'
  BY <1>2
<1>3. ASSUME NEW w \in Workers, Commit(w) PROVE MappingsInUse'
  <2>1. lm[w] = NoMapping /\ job' = [job EXCEPT ![w] = NoBlock] /\ UNCHANGED <<lm, src>>
    BY <1>3, CommitFacts DEF LeaveJob
  <2>. QED  BY <2>1 DEF NoBlock, Blocks
<1>4. ASSUME UNCHANGED <<src, job, lm>> PROVE MappingsInUse'
  BY <1>4
<1>. QED
  BY <1>1, <1>2, <1>3, <1>4, StepCases, IdleFacts, ReleaseFacts, OutputFrame, QuietFrame

LEMMA FailedHasCodeStep ==
    ASSUME IInv, [Next]_vars PROVE FailedHasCode'
<1>1. ASSUME OnlyTaken, errCode' = errCode PROVE FailedHasCode'
  BY <1>1 DEF IInv, FailedHasCode, OnlyTaken
<1>2. ASSUME status' = status, errCode' = errCode PROVE FailedHasCode'
  BY <1>2 DEF IInv, FailedHasCode
<1>3. ASSUME NEW w \in Workers, Acquire(w) PROVE OnlyTaken /\ errCode' = errCode
  BY <1>3, AcquireFacts DEF Checkout
<1>4. ASSUME NEW w \in Workers, Commit(w) PROVE FailedHasCode'
  <2>1. CASE CommitFailed(w)
    BY <1>4, <2>1, CommitFacts DEF CommitFailed, IInv, TypeOK, FailedHasCode
  <2>2. CASE ~CommitFailed(w)
    BY <1>4, <2>2, CommitFacts DEF IInv, TypeOK, FailedHasCode
  <2>. QED  BY <2>1, <2>2
<1>5. ASSUME Output PROVE FailedHasCode'
  <2>1. status' = status \/ status' = [status EXCEPT ![dstCur] = "JOB_COMMIT"]
    BY <1>5 DEF Output, OutputStart, OutputTake, OutputStall, OutputWrite, OutputFailedBlock,
                OutputWriteError, OutputDone, KillThreads, OutputExit, jobVars
  <2>. QED  BY <1>5, <2>1, OutputFrame DEF IInv, TypeOK, FailedHasCode
<1>. QED
  BY <1>1, <1>2, <1>3, <1>4, <1>5, StepCases, IdleFacts, ReleaseFacts, QuietFrame

LEMMA OutputShapeStep ==
    ASSUME IInv, [Next]_vars PROVE OutputShape'
<1>. USE DEF IInv, TypeOK
<1>0. \A w \in Workers : Acquire(w) \/ Idle(w) \/ Release(w) \/ Commit(w) => ~returned
  BY AcquireFacts, ReleaseFacts, CommitFacts
     DEF OutputShape, Idle, Scanning, ExitOnFailed, HoldBack, TakeNothing, StartLate, StartLoad, EndWorker
<1>1. ASSUME NEW w \in Workers, Acquire(w) \/ Release(w) PROVE OutputShape'
  <2>1. OnlyTaken /\ UNCHANGED <<dstCur, out, outRet, jpStatus, returned>>
    BY <1>1, AcquireFacts, ReleaseFacts DEF Checkout, OnlyTaken, poolVars
  <2>. QED  BY <1>0, <1>1, <2>1 DEF OutputShape, OnlyTaken
<1>2. ASSUME NEW w \in Workers, Idle(w) PROVE OutputShape'
  <2>1. OnlyTaken /\ UNCHANGED <<dstCur, outRet, returned>>
    BY <1>2, IdleFacts DEF poolVars
  <2>2. /\ out' = out \/ out' = "check"
        /\ jpStatus' = jpStatus \/ jpStatus' # "LORS_SUCCESS"
    BY <1>2 DEF Idle, ExitOnFailed, HoldBack, TakeNothing, StartLate, StartLoad, EndWorker, WakeOut,
                WorkerShape
  <2>. QED  BY <1>0, <1>2, <2>1, <2>2 DEF OutputShape, OnlyTaken
<1>3. ASSUME NEW w \in Workers, Commit(w) PROVE OutputShape'
  <2>1. UNCHANGED <<dstCur, outRet, jpStatus, returned>> /\ (out' = out \/ out' = "check")
    BY <1>3, CommitFacts DEF LeaveJob, WakeOut
  <2>2. \A b \in Blocks : status[b] \in {"JOB_PENDING", "JOB_FAILED"} => status'[b] = status[b]
    BY <1>3, CommitFacts
  <2>. QED  BY <1>0, <1>3, <2>1, <2>2 DEF OutputShape
<1>4. CASE OutputTake
  BY <1>4, TakenCounted DEF OutputTake, OutputShape, jobVars, Waiting
<1>5. CASE OutputStart \/ OutputStall
  BY <1>5 DEF OutputStart, OutputStall, OutputShape, jobVars, poolVars
<1>6. CASE OutputWrite
  BY <1>6 DEF OutputWrite, OutputShape
<1>7. CASE OutputFailedBlock
  BY <1>7 DEF OutputFailedBlock, OutputShape, FailedHasCode, jobVars, poolVars
<1>8. CASE OutputWriteError \/ OutputDone
  BY <1>8 DEF OutputWriteError, OutputDone, OutputShape, jobVars, poolVars
<1>9. CASE KillThreads \/ OutputExit
  BY <1>9 DEF KillThreads, OutputExit, OutputShape, jobVars, poolVars
<1>10. CASE Quiet
  BY <1>10 DEF Quiet, Return, Expire, vars, OutputShape, jobVars, poolVars
<1>. QED
  BY <1>1, <1>2, <1>3, <1>4, <1>5, <1>6, <1>7, <1>8, <1>9, <1>10, StepCases DEF Output
-----------------------------------------------------------------------------
LEMMA InitIInv == Init => IInv
<1>. SUFFICES ASSUME Init PROVE IInv
  OBVIOUS
<1>. USE CallAssumption DEF Init
<1>1. TypeOK
  <2>1. /\ status \in [Blocks -> JobStatus] /\ nThreads \in [Blocks -> Nat]
        /\ doneAhead \in [Blocks -> Nat] /\ src \in [Blocks -> SUBSET Mappings]
        /\ errCode \in [Blocks -> Codes] /\ slots \in [Depots -> Nat]
    BY DEF Codes, JobStatus
  <2>2. dstCur \in 1..(NBlocks + 1) /\ partial \in BOOLEAN /\ numPending \in Nat /\ preBuf \in Nat
    <3>1. PreBufInit \in Nat
      BY DEF PreBufInit
    <3>2. 1 \in 1..(NBlocks + 1)
      OBVIOUS
    <3>. QED  BY <3>1, <3>2
  <2>3. /\ pc \in [Workers -> WorkerPcs] /\ job \in [Workers -> Blocks \cup {NoBlock}]
        /\ lm \in [Workers -> Mappings \cup {NoMapping}] /\ result \in [Workers -> Codes]
    BY DEF WorkerPcs, Codes
  <2>. QED  BY <2>1, <2>2, <2>3 DEF TypeOK, Codes, OutputPcs
<1>2. WorkerShape /\ MappingsInUse /\ OutputShape /\ FailedHasCode /\ FailedExhausted
  BY DEF WorkerShape, MappingsInUse, OutputShape, FailedHasCode, FailedExhausted, Blocks, NoBlock
<1>3. ThreadAccounting /\ SlotAccounting
  <2>1. (\A b \in Blocks : Holders(b) = {}) /\ (\A d \in Depots : Connected(d) = {})
    BY DEF Holders, Connected, Blocks, NoBlock
  <2>2. Cardinality({}) = 0
    BY FS_EmptySet
  <2>3. ThreadAccounting
    BY <2>1, <2>2 DEF ThreadAccounting
  <2>4. SlotAccounting
    <3>1. \A d \in Depots : slots[d] = 0 /\ Cardinality(Connected(d)) = 0
      BY <2>1, <2>2
    <3>. QED  BY <3>1 DEF SlotAccounting
  <2>. QED  BY <2>3, <2>4
<1>4. OutputBookkeeping
  <2>1. {b \in Blocks : status[b] \in {"JOB_PENDING", "JOB_FAILED"}} = {}
    OBVIOUS
  <2>2. \A b \in Blocks : status[b] = "JOB_COMMIT" <=> b < dstCur
    BY DEF Blocks
  <2>3. numPending = 0 /\ out = "start" /\ Cardinality({}) = 0
    BY FS_EmptySet
  <2>4. numPending + (IF out = "write" THEN 1 ELSE 0) = 0
    BY <2>3
  <2>5. Cardinality({b \in Blocks : status[b] \in {"JOB_PENDING", "JOB_FAILED"}}) = 0
    BY <2>1, <2>3
  <2>. QED  BY ONLY <2>2, <2>4, <2>5 DEF OutputBookkeeping
<1>. QED  BY <1>1, <1>2, <1>3, <1>4 DEF IInv

LEMMA NextIInv == IInv /\ [Next]_vars => IInv'
  BY TypeStep, WorkerShapeStep, MappingsInUseStep, OutputShapeStep, FailedHasCodeStep,
     ThreadAccountingStep, SlotAccountingStep, FailedExhaustedStep, OutputBookkeepingStep DEF IInv

THEOREM Invariance == Spec => []IInv
  BY InitIInv, NextIInv, PTL DEF Spec
-----------------------------------------------------------------------------
(* What follows from the invariant.                                         *)

\* Every variable keeps its type: no counter of the engine goes negative.
THEOREM TypeCorrect == Spec => []TypeOK
  BY Invariance, PTL DEF IInv

\* job->n_threads counts the workers on the block.
THEOREM ThreadsAccounted == Spec => []ThreadAccounting
  BY Invariance, PTL DEF IInv

\* depot->nthread counts the connections, up to the slots lost at the deadline.
THEOREM SlotsAccounted == Spec => []SlotAccounting
  BY Invariance, PTL DEF IInv

\* A block is given up only when no replica and no worker is left.
THEOREM GivenUpExhausted == Spec => []FailedExhausted
  BY Invariance, PTL DEF IInv

\* num_pending_jobs and dst_cur_point agree with the blocks' statuses.
THEOREM BooksBalance == Spec => []OutputBookkeeping
  BY Invariance, PTL DEF IInv

\* jp->status is LORS_SUCCESS at the end only if every block is written.
THEOREM NoTruncation == Spec => []NoSilentTruncation
<1>1. IInv => NoSilentTruncation
  BY DEF IInv, OutputShape, NoSilentTruncation
<1>. QED  BY <1>1, Invariance, PTL

\* No replica of a block is read twice, or by two workers at a time.
THEOREM TriedOnce == Spec => []ReplicaTriedOnce
<1>1. IInv => ReplicaTriedOnce
  BY DEF IInv, MappingsInUse, ReplicaTriedOnce, Holders
<1>. QED  BY <1>1, Invariance, PTL
-----------------------------------------------------------------------------
(* The caps on connections and threads.                                     *)

CapInv ==
    /\ MaxThdsPerDepot > 0 => \A d \in Depots : slots[d] <= MaxThdsPerDepot
    /\ ThdsPerJob > 0 => \A b \in Blocks : nThreads[b] <= ThdsPerJob

\* Nobody works on a block that was never checked out.
LEMMA NewUnheld ==
    ASSUME IInv, NEW b \in Blocks, status[b] = "JOB_INIT" PROVE nThreads[b] = 0
<1>1. Holders(b) = {}
  BY DEF IInv, WorkerShape, Holders
<1>. QED  BY <1>1, FS_EmptySet DEF IInv, ThreadAccounting

LEMMA CapStep ==
    ASSUME IInv, CapInv, [Next]_vars PROVE CapInv'
<1>. USE CallAssumption DEF IInv, TypeOK, CapInv
<1>1. ASSUME NEW w \in Workers, Acquire(w) PROVE CapInv'
  <2>1. PICK b \in Blocks, m \in Mappings \cup {NoMapping} :
            /\ Checkout(w, b, m)
            /\ m = NoMapping \/ m \in Usable(b)
            /\ ThdsPerJob <= 0 \/ nThreads[b] < ThdsPerJob \/ status[b] = "JOB_INIT"
    BY <1>1, AcquireFacts
  <2>2. ThdsPerJob > 0 => \A k \in Blocks : nThreads'[k] <= ThdsPerJob
    BY <2>1, NewUnheld DEF Checkout
  <2>3. MaxThdsPerDepot > 0 => \A d \in Depots : slots'[d] <= MaxThdsPerDepot
    BY <2>1 DEF Checkout, Usable
  <2>. QED  BY <2>2, <2>3
<1>2. ASSUME NEW w \in Workers, Release(w) PROVE CapInv'
  <2>1. nThreads' = nThreads /\ (slots' = slots \/ (pc[w] = "load" /\ slots' = FreeSlot(w)))
    BY <1>2, ReleaseFacts
  <2>2. \A d \in Depots : slots'[d] <= slots[d] /\ slots'[d] \in Int
    BY <2>1 DEF FreeSlot, WorkerShape
  <2>. QED  BY <2>1, <2>2
<1>3. ASSUME NEW w \in Workers, Commit(w) PROVE CapInv'
  <2>1. slots' = slots /\ nThreads' = [nThreads EXCEPT ![job[w]] = @ - 1]
    BY <1>3, CommitFacts DEF LeaveJob
  <2>. QED  BY <2>1
<1>4. ASSUME UNCHANGED <<slots, nThreads>> PROVE CapInv'
  BY <1>4
<1>. QED  BY <1>1, <1>2, <1>3, <1>4, StepCases, IdleFacts, OutputFrame, QuietFrame

\* At most max_thds_per_depot connections to a depot and thds_per_job threads
\* on a block.
THEOREM CapsHold == Spec => []ThreadCaps
<1>1. Init => CapInv
  BY CallAssumption DEF Init, CapInv
<1>2. IInv /\ CapInv /\ [Next]_vars => CapInv'
  BY CapStep
<1>3. IInv /\ CapInv => ThreadCaps
  <2>. SUFFICES ASSUME IInv, CapInv PROVE ThreadCaps
    OBVIOUS
  <2>1. \A d \in Depots : slots[d] \in Nat /\ Cardinality(Connected(d)) <= slots[d]
    BY DEF IInv, TypeOK, SlotAccounting
  <2>. QED
    BY <2>1, ConnectedFinite, HoldersFinite, CallAssumption
       DEF IInv, ThreadAccounting, CapInv, ThreadCaps
<1>. QED  BY <1>1, <1>2, <1>3, Invariance, PTL DEF Spec
-----------------------------------------------------------------------------
(* The engine implements the ordered stream.                                *)

LEMMA StreamInit == Init => Stream!Init
  BY CallAssumption DEF Init, Stream!Init, Blocks

LEMMA StreamStep ==
    ASSUME IInv, [Next]_vars PROVE [Stream!Next]_Stream!vars
<1>. DEFINE Fetched == {b \in Blocks : status[b] \in {"JOB_PENDING", "JOB_COMMIT"}}
            Gone == {b \in Blocks : status[b] = "JOB_FAILED"}
            Verdict == IF ~returned THEN "open" ELSE IF ReturnsBytes THEN "bytes"
                       ELSE IF jpStatus = "LORS_SUCCESS" THEN "nothing" ELSE "error"
<1>1. ASSUME NEW w \in Workers, Acquire(w) \/ Idle(w) \/ Release(w) \/ Commit(w)
      PROVE  ~returned /\ ~returned' /\ dstCur' = dstCur
  <2>1. pc[w] # "ended"
    BY <1>1, AcquireFacts, ReleaseFacts, CommitFacts
       DEF Idle, Scanning, ExitOnFailed, HoldBack, TakeNothing, StartLate, StartLoad, EndWorker
  <2>2. returned' = returned /\ dstCur' = dstCur
    BY <1>1, AcquireFacts, IdleFacts, ReleaseFacts, CommitFacts DEF Checkout, LeaveJob, poolVars
  <2>. QED  BY <2>1, <2>2 DEF IInv, TypeOK, OutputShape
<1>2. ASSUME OnlyTaken, ~returned, ~returned', dstCur' = dstCur PROVE UNCHANGED Stream!vars
  <2>1. Fetched' = Fetched /\ Gone' = Gone
    BY <1>2 DEF OnlyTaken
  <2>. QED  BY <1>2, <2>1 DEF Stream!vars
<1>3. status' = status => OnlyTaken
  BY DEF IInv, TypeOK, OnlyTaken
<1>4. ASSUME NEW w \in Workers, Commit(w) PROVE [Stream!Next]_Stream!vars
  <2>1. PICK b \in Blocks :
            \/ status' = status
            \/ /\ status[b] = "JOB_CHECKOUT"
               /\ \/ status' = [status EXCEPT ![b] = "JOB_PENDING"]
                  \/ status' = [status EXCEPT ![b] = "JOB_FAILED"]
    BY <1>4, CommitFacts
  <2>2. CASE status' = status
    BY <1>1, <1>2, <1>3, <1>4, <2>2
  <2>3. CASE status[b] = "JOB_CHECKOUT" /\ status' = [status EXCEPT ![b] = "JOB_PENDING"]
    <3>1. Fetched' = Fetched \cup {b} /\ Gone' = Gone /\ b \notin Fetched \cup Gone
      BY <2>3 DEF IInv, TypeOK
    <3>2. Stream!Fetch(b)
      BY <1>1, <1>4, <3>1 DEF Stream!Fetch
    <3>. QED  BY <3>2 DEF Stream!Next, Blocks
  <2>4. CASE status[b] = "JOB_CHECKOUT" /\ status' = [status EXCEPT ![b] = "JOB_FAILED"]
    <3>1. Gone' = Gone \cup {b} /\ Fetched' = Fetched /\ b \notin Fetched \cup Gone
      BY <2>4 DEF IInv, TypeOK
    <3>2. Stream!Lose(b)
      BY <1>1, <1>4, <3>1 DEF Stream!Lose
    <3>. QED  BY <3>2 DEF Stream!Next, Blocks
  <2>. QED  BY <2>1, <2>2, <2>3, <2>4
<1>5. CASE OutputWrite
  <2>1. PICK b \in Blocks :
            /\ b = dstCur /\ status[b] = "JOB_PENDING" /\ dstCur' = b + 1
            /\ status' = [status EXCEPT ![b] = "JOB_COMMIT"] /\ ~returned /\ ~returned'
    BY <1>5 DEF OutputWrite, IInv, OutputShape
  <2>2. Fetched' = Fetched /\ Gone' = Gone /\ b \in Fetched
    BY <2>1 DEF IInv, TypeOK
  <2>3. dstCur - 1 + 1 = b /\ dstCur' - 1 = dstCur - 1 + 1
    BY <2>1, CallAssumption DEF Blocks
  <2>4. Stream!Deliver
    BY <2>1, <2>2, <2>3 DEF Stream!Deliver
  <2>. QED  BY <2>4 DEF Stream!Next
<1>6. ASSUME Output, ~OutputWrite PROVE UNCHANGED Stream!vars
  <2>1. UNCHANGED <<status, dstCur>> /\ out # "exited" /\ returned' = returned
    BY <1>6 DEF Output, OutputStart, OutputTake, OutputStall, OutputFailedBlock, OutputWriteError,
                OutputDone, KillThreads, OutputExit, jobVars, poolVars
  <2>2. ~returned
    BY <2>1 DEF IInv, OutputShape
  <2>. QED  BY <1>2, <1>3, <2>1, <2>2
<1>7. CASE Return
  <2>1. ~returned /\ returned' /\ out = "exited" /\ Fetched' = Fetched /\ Gone' = Gone
        /\ UNCHANGED <<dstCur, partial, jpStatus>>
    BY <1>7 DEF Return, jobVars, poolVars
  <2>2. jpStatus = "LORS_SUCCESS" => ReturnsBytes
    BY <2>1, CallAssumption DEF IInv, TypeOK, OutputShape, ReturnsBytes
  <2>3. \/ Verdict' = "bytes"
        \/ Verdict' = "error" /\ dstCur - 1 = 0
    BY <2>1, <2>2 DEF ReturnsBytes, IInv, TypeOK
  <2>4. \E v \in {"bytes", "error"} : Stream!Close(v)
    BY <2>1, <2>3 DEF Stream!Close
  <2>. QED  BY <2>4 DEF Stream!Next
<1>8. CASE Expire \/ UNCHANGED vars
  <2>1. UNCHANGED <<status, dstCur, partial, jpStatus, returned>>
    BY <1>8 DEF Expire, vars, jobVars, poolVars
  <2>. QED  BY <2>1 DEF Stream!vars, ReturnsBytes
<1>. HIDE DEF Fetched, Gone, Verdict
<1>9. ASSUME NEW w \in Workers, Acquire(w) \/ Idle(w) \/ Release(w) PROVE UNCHANGED Stream!vars
  BY <1>1, <1>2, <1>3, <1>9, AcquireFacts, IdleFacts, ReleaseFacts
<1>. QED
  BY <1>4, <1>5, <1>6, <1>7, <1>8, <1>9, StepCases DEF Quiet

\* The download engine implements the ordered stream.
THEOREM DownloadImplementsStream == Spec => ImplementsStream
  BY StreamInit, StreamStep, Invariance, PTL DEF Spec, Stream!Spec, ImplementsStream
=============================================================================
