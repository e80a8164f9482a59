---------------------------- MODULE LorsDownload ----------------------------
(***************************************************************************)
(* The download engine of the LoRS client library: lorsSetRealTimeLoad()   *)
(* (lors_set_load.c) and the job pool, the worker threads and the output   *)
(* thread it runs (lors_job.c).                                            *)
(*                                                                         *)
(* The byte range of one call is cut into blocks (one __LorsJob each, in   *)
(* ascending offset).  Worker threads check blocks out of the pool, read   *)
(* them from one of the replicas (LorsMapping) that cover them, and commit *)
(* them; the output thread writes the committed blocks in order.  Every    *)
(* region that holds jp->lock is one step; pthread_cond_wait puts the      *)
(* thread in a waiting pc and a broadcast moves it to a runnable one.      *)
(***************************************************************************)
EXTENDS Integers, FiniteSets

CONSTANTS
    NBlocks,          \* number of jobs in jp->job_list
    Workers,          \* worker threads of the pool
    Depots,           \* IBP depots
    Mappings,         \* replicas (LorsMapping) of parts of the file
    NoMapping,        \* the lm == NULL of a hole
    DepotOf,          \* the depot that stores a mapping
    Cand,             \* the mappings that cover a block (__LorsDLNode.mappings)
    PreBuf, Cache, MaxThdsPerDepot, ThdsPerJob, ProgressN,   \* the call's parameters
    Flaky,            \* depots whose IBP_load may fail
    Deadline,         \* timeout > 0: the call has a deadline
    WriteErrors       \* write() on the output descriptor may fail

Blocks  == 1..NBlocks
NoBlock == 0

\* What lorsSetRealTimeLoad is called with.
ASSUME CallAssumption ==
    /\ NBlocks \in Nat \ {0}
    /\ IsFiniteSet(Workers) /\ Workers # {}
    /\ DepotOf \in [Mappings -> Depots]
    /\ NoMapping \notin Mappings
    /\ Cand \in [Blocks -> SUBSET Mappings]
    /\ PreBuf \in Int /\ Cache \in Int /\ MaxThdsPerDepot \in Int
    /\ ThdsPerJob \in Int /\ ProgressN \in Int
    /\ Flaky \subseteq Depots
    /\ Deadline \in BOOLEAN /\ WriteErrors \in BOOLEAN

\* The defaults the call substitutes for negative parameters.
PreBufInit == IF PreBuf < 0 THEN 1 ELSE PreBuf
CacheLimit == IF Cache <= 0 THEN 0 ELSE Cache
Progress   == IF ProgressN < 0 THEN 2000 ELSE ProgressN

\* "ONE" is the value 1 that the test in _lorsWorkThread stores in ret_val.
Codes == {"LORS_SUCCESS", "LORS_TIMEOUT_EXPIRED", "LORS_HAS_HOLE",
          "LORS_IBP_FAILED", "LORS_SYS_FAILED", "ONE"}
JobStatus == {"JOB_INIT", "JOB_CHECKOUT", "JOB_PENDING", "JOB_COMMIT", "JOB_FAILED"}
WorkerPcs == {"get", "again", "readWait", "condWait", "got", "load", "commit",
              "fail", "ended"}
OutputPcs == {"start", "wait", "check", "write", "finish", "kill", "bcast", "exited"}

VARIABLES
    status,      \* job->status
    nThreads,    \* job->n_threads
    doneAhead,   \* job->n_done_ahead
    src,         \* job->src: the mappings of the block not tried yet
    errCode,     \* job->err_code
    slots,       \* depot->nthread
    dstCur,      \* jp->dst_cur_point, as the next block to write
    partial,     \* a failed write() left a part of block dstCur in the output
    numPending,  \* jp->num_pending_jobs
    preBuf,      \* jp->pre_buf
    jpStatus,    \* jp->status
    pc, job, lm, result,   \* per worker: where it is, its block, mapping and outcome
    cancelReq,   \* workers with a pending pthread_cancel
    out, outRet, \* the output thread: where it is, its ret
    late,        \* the deadline of the call has passed
    returned     \* lorsSetRealTimeLoad has returned

jobVars  == <<status, nThreads, doneAhead, src, errCode>>
poolVars == <<dstCur, partial, numPending, preBuf>>
vars == <<status, nThreads, doneAhead, src, errCode, slots, dstCur, partial,
          numPending, preBuf, jpStatus, pc, job, lm, result, cancelReq, out,
          outRet, late, returned>>

Init ==
    /\ status = [b \in Blocks |-> "JOB_INIT"]
    /\ nThreads = [b \in Blocks |-> 0]
    /\ doneAhead = [b \in Blocks |-> 0]
    /\ src = Cand
    /\ errCode = [b \in Blocks |-> "LORS_SUCCESS"]
    /\ slots = [d \in Depots |-> 0]
    /\ dstCur = 1 /\ partial = FALSE /\ numPending = 0
    /\ preBuf = PreBufInit /\ jpStatus = "LORS_SUCCESS"
    /\ pc = [w \in Workers |-> "get"]
    /\ job = [w \in Workers |-> NoBlock]
    /\ lm = [w \in Workers |-> NoMapping]
    /\ result = [w \in Workers |-> "LORS_SUCCESS"]
    /\ cancelReq = {}
    /\ out = "start" /\ outRet = "LORS_SUCCESS"
    /\ late = FALSE /\ returned = FALSE

-----------------------------------------------------------------------------
(* Condition variables: jp->cond, jp->read_cond and jp->write_cond.        *)

WakeCond(p) == [w \in Workers |-> IF p[w] = "condWait" THEN "again" ELSE p[w]]
ForgetRead(p) == p
WakeRead(p) == [w \in Workers |-> IF p[w] = "readWait" THEN "again" ELSE p[w]]
WakeOut == out' = IF out = "wait" THEN "check" ELSE out

-----------------------------------------------------------------------------
(* _lorsGetDownloadJob: what a worker finds when it scans the job list.    *)

\* Mappings whose depot has a free connection slot, and the least loaded
\* of them (_lorsGetNextMapping; proximity breaks ties and is left open).
UsableOneMore(b) == {m \in src[b] : MaxThdsPerDepot <= 0 \/ slots[DepotOf[m]] <= MaxThdsPerDepot}
Usable(b) == {m \in src[b] : MaxThdsPerDepot <= 0 \/ slots[DepotOf[m]] < MaxThdsPerDepot}
Best(b) == {m \in Usable(b) : \A k \in Usable(b) : slots[DepotOf[m]] <= slots[DepotOf[k]]}

\* First pass: a checked-out block that nobody works on, or that is slow.
Slow(b) ==
    /\ status[b] = "JOB_CHECKOUT"
    /\ nThreads[b] < ThdsPerJob
    /\ nThreads[b] = 0 \/ Progress <= 0 \/ doneAhead[b] >= Progress
    /\ Usable(b) # {}

\* Second pass: a new block that is a hole or has a usable mapping.
Fresh(b) == status[b] = "JOB_INIT" /\ (src[b] = {} \/ Usable(b) # {})

\* Third pass: any unfinished block that may take another thread.
Spare(b) ==
    /\ status[b] = "JOB_CHECKOUT"
    /\ ThdsPerJob <= 0 \/ nThreads[b] < ThdsPerJob
    /\ Usable(b) # {}

\* The scan is in list order: b is the first block with the property.
IsFirst(b, P(_)) == P(b) /\ \A k \in Blocks : k < b => ~P(k)

\* The first pass meets a failed block before it meets a slow one.
MeetsFailed == \E f \in Blocks : status[f] = "JOB_FAILED" /\ \A b \in Blocks : Slow(b) => f < b
NoSlow == ~MeetsFailed /\ \A b \in Blocks : ~Slow(b)

\* The second pass marks the new blocks it skips as checked out.
SkipUpTo(n) ==
    [b \in Blocks |-> IF b < n /\ status[b] = "JOB_INIT" THEN "JOB_CHECKOUT" ELSE status[b]]

\* More committed blocks wait for the output thread than the cache may hold.
Crowded == numPending > CacheLimit

\* The mapping is taken off the list of replicas to try.
StillUntried(b, m) == src
Untried(b, m) == [src EXCEPT ![b] = @ \ {m}]

\* The connection slot of worker w is given back.
KeepSlot(w) == slots
FreeSlot(w) == [slots EXCEPT ![DepotOf[lm[w]]] = @ - 1]

\* A worker enters the function (pthread_testcancel) or comes back from a wait.
Scanning(w) ==
    \/ pc[w] = "get" /\ w \notin cancelReq
    \/ pc[w] = "again"

\* Worker w gets block b, to be read from mapping m.
Checkout(w, b, m) ==
    /\ nThreads' = [nThreads EXCEPT ![b] = @ + 1]
    /\ src' = Untried(b, m)
    /\ slots' = IF m = NoMapping THEN slots ELSE [slots EXCEPT ![DepotOf[m]] = @ + 1]
    /\ job' = [job EXCEPT ![w] = b]
    /\ lm' = [lm EXCEPT ![w] = m]
    /\ pc' = [pc EXCEPT ![w] = "got"]
    /\ UNCHANGED <<doneAhead, errCode, poolVars, jpStatus, result, cancelReq,
                   out, outRet, late, returned>>

\* A failed block in the list: pthread_exit(0).
ExitOnFailed(w) ==
    /\ Scanning(w) /\ MeetsFailed
    /\ pc' = [pc EXCEPT ![w] = "ended"]
    /\ UNCHANGED <<jobVars, slots, poolVars, jpStatus, job, lm, result, cancelReq,
                   out, outRet, late, returned>>

TakeSlow(w) ==
    /\ Scanning(w) /\ ~MeetsFailed
    /\ \E b \in Blocks : IsFirst(b, Slow) /\ \E m \in Best(b) : Checkout(w, b, m)
    /\ UNCHANGED status

\* Too many blocks wait for the output thread: wait on read_cond, or give up
\* when the download has already failed (the caller stores 1, not the code).
HoldBack(w) ==
    /\ Scanning(w) /\ NoSlow /\ Crowded
    /\ \/ /\ jpStatus = "LORS_SUCCESS"
          /\ pc' = [pc EXCEPT ![w] = "readWait"]
          /\ UNCHANGED result
       \/ /\ jpStatus # "LORS_SUCCESS"
          /\ pc' = [pc EXCEPT ![w] = "fail"]
          /\ result' = [result EXCEPT ![w] = "ONE"]
    /\ UNCHANGED <<jobVars, slots, poolVars, jpStatus, job, lm, cancelReq,
                   out, outRet, late, returned>>

TakeNew(w) ==
    /\ Scanning(w) /\ NoSlow /\ ~Crowded
    /\ \E b \in Blocks :
          /\ IsFirst(b, Fresh)
          /\ status' = [SkipUpTo(b) EXCEPT ![b] = "JOB_CHECKOUT"]
          /\ \/ src[b] = {} /\ Checkout(w, b, NoMapping)
             \/ \E m \in Best(b) : Checkout(w, b, m)

TakeSpare(w) ==
    /\ Scanning(w) /\ NoSlow /\ ~Crowded
    /\ \A b \in Blocks : ~Fresh(b)
    /\ status' = SkipUpTo(NBlocks + 1)
    /\ \E b \in Blocks : IsFirst(b, Spare) /\ \E m \in Best(b) : Checkout(w, b, m)

\* Nothing to take: wait on jp->cond, or NO_JOBS_FOUND once all is written.
TakeNothing(w) ==
    /\ Scanning(w) /\ NoSlow /\ ~Crowded
    /\ \A b \in Blocks : ~Fresh(b) /\ ~Spare(b)
    /\ status' = SkipUpTo(NBlocks + 1)
    /\ \/ /\ dstCur <= NBlocks
          /\ pc' = [pc EXCEPT ![w] = "condWait"]
          /\ UNCHANGED result
       \/ /\ dstCur > NBlocks
          /\ pc' = [pc EXCEPT ![w] = "fail"]
          /\ result' = [result EXCEPT ![w] = "ONE"]
    /\ UNCHANGED <<nThreads, doneAhead, src, errCode, slots, poolVars, jpStatus,
                   job, lm, cancelReq, out, outRet, late, returned>>

-----------------------------------------------------------------------------
(* _lorsWorkThread and _lorsDoDownload.                                    *)

\* The deadline test after a block was obtained: the worker gives up and
\* keeps its place in the job and its depot slot.
StartLate(w) ==
    /\ pc[w] = "got" /\ late
    /\ pc' = [pc EXCEPT ![w] = "fail"]
    /\ result' = [result EXCEPT ![w] = "LORS_TIMEOUT_EXPIRED"]
    /\ UNCHANGED <<jobVars, slots, poolVars, jpStatus, job, lm, cancelReq, out,
                   outRet, late, returned>>

StartLoad(w) ==
    /\ pc[w] = "got" /\ ~late
    /\ IF lm[w] = NoMapping
         THEN /\ pc' = [pc EXCEPT ![w] = "commit"]
              /\ result' = [result EXCEPT ![w] = "LORS_HAS_HOLE"]
         ELSE /\ pc' = [pc EXCEPT ![w] = "load"]
              /\ UNCHANGED result
    /\ UNCHANGED <<jobVars, slots, poolVars, jpStatus, job, lm, cancelReq, out,
                   outRet, late, returned>>

\* IBP_load ends with outcome c; released tells whether the slot is given back.
EndLoad(w, c, released) ==
    /\ pc[w] = "load"
    /\ result' = [result EXCEPT ![w] = c]
    /\ lm' = [lm EXCEPT ![w] = NoMapping]
    /\ slots' = IF released THEN FreeSlot(w) ELSE slots
    \* jp->lock is not held: a worker between its scan and its wait misses the broadcast.
    /\ \/ released /\ pc' = [WakeCond(pc) EXCEPT ![w] = "commit"]
       \/ pc' = [pc EXCEPT ![w] = "commit"]
    /\ UNCHANGED <<jobVars, poolVars, jpStatus, job, cancelReq, out, outRet,
                   late, returned>>

LoadSucceeds(w) == EndLoad(w, "LORS_SUCCESS", TRUE)

LoadFails(w) == lm[w] \in Mappings /\ DepotOf[lm[w]] \in Flaky /\ EndLoad(w, "LORS_IBP_FAILED", TRUE)

\* A partial read, or the retry of a lost capability, meets the deadline:
\* goto bail without giving the slot back.
LoadTimesOut(w) == late /\ EndLoad(w, "LORS_TIMEOUT_EXPIRED", FALSE)

-----------------------------------------------------------------------------
(* _lorsCommitDownloadJob.                                                 *)

\* The block has been committed by another thread.
AlreadyWritten(b) == status[b] = "JOB_COMMIT"
AlreadyDone(b) == status[b] \in {"JOB_COMMIT", "JOB_PENDING"}

\* After a failure: no other thread is on the block and no replica is left.
NobodyElse(w) == nThreads[job[w]] - 1 <= 0
NoReplica(w) == src[job[w]] = {}
GiveUp(w) == nThreads[job[w]] - 1 <= 0 /\ src[job[w]] = {}

\* What every branch does: leave the job, broadcast cond and write_cond.
StayOnJob(w) ==
    /\ pc' = [WakeCond(pc) EXCEPT ![w] = "get"]
    /\ job' = [job EXCEPT ![w] = NoBlock]
    /\ WakeOut
    /\ UNCHANGED <<nThreads, src, slots, dstCur, partial, preBuf, jpStatus, lm,
                   result, cancelReq, outRet, late, returned>>
LeaveJob(w) ==
    /\ nThreads' = [nThreads EXCEPT ![job[w]] = @ - 1]
    /\ pc' = [WakeCond(pc) EXCEPT ![w] = "get"]
    /\ job' = [job EXCEPT ![w] = NoBlock]
    /\ WakeOut
    /\ UNCHANGED <<src, slots, dstCur, partial, preBuf, jpStatus, lm, result,
                   cancelReq, outRet, late, returned>>

CommitLate(w) ==
    /\ pc[w] = "commit" /\ AlreadyDone(job[w])
    /\ LeaveJob(w)
    /\ UNCHANGED <<status, doneAhead, errCode, numPending>>

\* Failed, but another thread works on it or a replica is left.
CommitYield(w) ==
    /\ pc[w] = "commit" /\ ~AlreadyDone(job[w])
    /\ result[w] # "LORS_SUCCESS" /\ ~GiveUp(w)
    /\ LeaveJob(w)
    /\ UNCHANGED <<status, doneAhead, errCode, numPending>>

CommitFailed(w) ==
    /\ pc[w] = "commit" /\ ~AlreadyDone(job[w])
    /\ result[w] # "LORS_SUCCESS" /\ GiveUp(w)
    /\ status' = [status EXCEPT ![job[w]] = "JOB_FAILED"]
    /\ errCode' = [errCode EXCEPT ![job[w]] = result[w]]
    /\ numPending' = numPending + 1
    /\ LeaveJob(w)
    /\ UNCHANGED doneAhead

\* The block is delivered to the pool; _lorsCalcProgressNumber counts it for
\* the unfinished blocks in front of it.
CommitPending(w) ==
    /\ pc[w] = "commit" /\ ~AlreadyDone(job[w])
    /\ result[w] = "LORS_SUCCESS"
    /\ status' = [status EXCEPT ![job[w]] = "JOB_PENDING"]
    /\ doneAhead' = [b \in Blocks |->
           IF b < job[w] /\ status[b] = "JOB_CHECKOUT" THEN doneAhead[b] + 1 ELSE doneAhead[b]]
    /\ numPending' = numPending + 1
    /\ LeaveJob(w)
    /\ UNCHANGED errCode

\* A worker that leaves its loop stores its code in jp->status and wakes the
\* output thread.
EndWorker(w) ==
    /\ pc[w] = "fail"
    /\ jpStatus' = result[w]
    /\ WakeOut
    /\ pc' = [pc EXCEPT ![w] = "ended"]
    /\ UNCHANGED <<jobVars, slots, poolVars, job, lm, result, cancelReq, outRet,
                   late, returned>>

\* A pending cancellation acts at a cancellation point; inside IBP_load the
\* cleanup handler gives the depot slot back but leaves job->n_threads.
Cancelled(w) ==
    /\ w \in cancelReq /\ pc[w] \in {"get", "again", "readWait", "condWait", "load"}
    /\ pc' = [pc EXCEPT ![w] = "ended"]
    /\ IF pc[w] = "load"
         THEN /\ slots' = FreeSlot(w)
              /\ lm' = [lm EXCEPT ![w] = NoMapping]
         ELSE UNCHANGED <<slots, lm>>
    /\ UNCHANGED <<jobVars, poolVars, jpStatus, job, result, cancelReq, out,
                   outRet, late, returned>>

Worker(w) ==
    \/ ExitOnFailed(w) \/ TakeSlow(w) \/ HoldBack(w) \/ TakeNew(w)
    \/ TakeSpare(w) \/ TakeNothing(w)
    \/ StartLate(w) \/ StartLoad(w)
    \/ LoadSucceeds(w) \/ LoadFails(w) \/ LoadTimesOut(w)
    \/ CommitLate(w) \/ CommitYield(w) \/ CommitFailed(w) \/ CommitPending(w)
    \/ EndWorker(w) \/ Cancelled(w)

-----------------------------------------------------------------------------
(* _lorsOutputThread.                                                      *)

\* jp->pending_jobs: committed blocks are entered and never removed.
NotNew == {b \in Blocks : status[b] # "JOB_INIT"}
Pending == {b \in Blocks : status[b] \in {"JOB_PENDING", "JOB_COMMIT", "JOB_FAILED"}}

\* The prebuffer test: enough consecutive blocks are there, or a failed one
\* ends the run, or the traversal saw the first block and nothing else (the test
\* cur_pos == jp->src_offset + job->src_length, with the block's own length).
Prebuffered ==
    \/ preBuf <= 0
    \/ \E b \in dstCur..NBlocks :
          /\ dstCur..b \subseteq Pending
          /\ b - dstCur + 1 >= preBuf \/ status[b] = "JOB_FAILED"
    \/ dstCur = 1 /\ Pending = {1}

OutputStart ==
    /\ out = "start"
    /\ out' = IF numPending <= 0 THEN "wait" ELSE "check"
    /\ UNCHANGED <<jobVars, slots, poolVars, jpStatus, pc, job, lm, result,
                   cancelReq, outRet, late, returned>>

\* The block at dst_cur_point is there.
OutputTake ==
    /\ out = "check" /\ Prebuffered /\ dstCur \in Pending
    /\ preBuf' = 0
    /\ numPending' = numPending - 1
    /\ pc' = IF numPending - 1 <= CacheLimit THEN WakeRead(pc) ELSE pc
    /\ out' = "write"
    /\ UNCHANGED <<jobVars, slots, dstCur, partial, jpStatus, job, lm, result,
                   cancelReq, outRet, late, returned>>

\* It is not, or not enough is buffered: fail, finish or wait on write_cond.
OutputStall ==
    /\ out = "check" /\ ~(Prebuffered /\ dstCur \in Pending)
    /\ preBuf' = IF Prebuffered THEN 0 ELSE preBuf
    /\ \/ /\ jpStatus # "LORS_SUCCESS"
          /\ out' = "finish" /\ outRet' = jpStatus
       \/ /\ jpStatus = "LORS_SUCCESS" /\ Prebuffered /\ dstCur > NBlocks
          /\ out' = "finish" /\ outRet' = "LORS_SUCCESS"
       \/ /\ jpStatus = "LORS_SUCCESS" /\ ~(Prebuffered /\ dstCur > NBlocks)
          /\ out' = "wait" /\ UNCHANGED outRet
    /\ UNCHANGED <<jobVars, slots, dstCur, partial, numPending, jpStatus, pc, job,
                   lm, result, cancelReq, late, returned>>

\* Outside the lock: the block is written, then committed under the lock.
OutputWrite ==
    /\ out = "write" /\ status[dstCur] = "JOB_PENDING"
    /\ dstCur' = dstCur + 1
    /\ status' = [status EXCEPT ![dstCur] = "JOB_COMMIT"]
    /\ out' = "check"
    /\ UNCHANGED <<nThreads, doneAhead, src, errCode, slots, partial, numPending,
                   preBuf, jpStatus, pc, job, lm, result, cancelReq, outRet, late,
                   returned>>

OutputFailedBlock ==
    /\ out = "write" /\ status[dstCur] # "JOB_PENDING"
    /\ out' = "finish" /\ outRet' = errCode[dstCur]
    /\ UNCHANGED <<jobVars, slots, poolVars, jpStatus, pc, job, lm, result,
                   cancelReq, late, returned>>

OutputErrorLost ==
    /\ out = "write" /\ status[dstCur] = "JOB_PENDING" /\ WriteErrors
    /\ partial' \in BOOLEAN
    /\ out' = "finish"
    /\ UNCHANGED <<jobVars, slots, dstCur, numPending, preBuf, jpStatus, pc, job,
                   lm, result, cancelReq, outRet, late, returned>>
OutputWriteError ==
    /\ out = "write" /\ status[dstCur] = "JOB_PENDING" /\ WriteErrors
    /\ partial' \in BOOLEAN
    /\ out' = "finish" /\ outRet' = "LORS_SYS_FAILED"
    /\ UNCHANGED <<jobVars, slots, dstCur, numPending, preBuf, jpStatus, pc, job,
                   lm, result, cancelReq, late, returned>>

\* Done: jp->status is stored without the lock, the workers are cancelled,
\* then the sleeping ones are woken.
OutputDone ==
    /\ out = "finish"
    /\ jpStatus' = outRet
    /\ out' = "kill"
    /\ UNCHANGED <<jobVars, slots, poolVars, pc, job, lm, result, cancelReq, outRet,
                   late, returned>>

KillThreads ==
    /\ out = "kill"
    /\ cancelReq' = Workers
    /\ out' = "bcast"
    /\ UNCHANGED <<jobVars, slots, poolVars, jpStatus, pc, job, lm, result, outRet,
                   late, returned>>

OutputExit ==
    /\ out = "bcast"
    /\ pc' = WakeRead(WakeCond(pc))
    /\ out' = "exited"
    /\ UNCHANGED <<jobVars, slots, poolVars, jpStatus, job, lm, result, cancelReq,
                   outRet, late, returned>>

Output ==
    \/ OutputStart \/ OutputTake \/ OutputStall \/ OutputWrite \/ OutputFailedBlock
    \/ OutputWriteError \/ OutputDone \/ KillThreads \/ OutputExit

-----------------------------------------------------------------------------
\* The caller joins the output thread, then the workers, then returns.
Return ==
    /\ ~returned /\ out = "exited" /\ \A w \in Workers : pc[w] = "ended"
    /\ returned' = TRUE
    /\ UNCHANGED <<jobVars, slots, poolVars, jpStatus, pc, job, lm, result,
                   cancelReq, out, outRet, late>>

\* What the call returns: a byte count if anything was written, else jp->status.
ReturnsBytes == dstCur > 1 \/ partial

\* Time: the deadline passes.
Expire ==
    /\ Deadline /\ ~late /\ ~returned
    /\ late' = TRUE
    /\ UNCHANGED <<jobVars, slots, poolVars, jpStatus, pc, job, lm, result,
                   cancelReq, out, outRet, returned>>

Terminated == returned /\ UNCHANGED vars

Next == (\E w \in Workers : Worker(w)) \/ Output \/ Return \/ Expire \/ Terminated

Spec == Init /\ [][Next]_vars

\* Threads that can run do run, mutexes are granted, IBP_load and write return,
\* and time passes.
Fairness ==
    /\ \A w \in Workers : WF_vars(Worker(w))
    /\ WF_vars(Output) /\ WF_vars(Return) /\ WF_vars(Expire)

FairSpec == Spec /\ Fairness
-----------------------------------------------------------------------------
(* Properties.                                                             *)

TypeOK ==
    /\ status \in [Blocks -> JobStatus]
    /\ nThreads \in [Blocks -> Nat]
    /\ doneAhead \in [Blocks -> Nat]
    /\ src \in [Blocks -> SUBSET Mappings]
    /\ errCode \in [Blocks -> Codes]
    /\ slots \in [Depots -> Nat]
    /\ dstCur \in 1..(NBlocks + 1) /\ partial \in BOOLEAN
    /\ numPending \in Nat /\ preBuf \in Nat /\ jpStatus \in Codes
    /\ pc \in [Workers -> WorkerPcs]
    /\ job \in [Workers -> Blocks \cup {NoBlock}]
    /\ lm \in [Workers -> Mappings \cup {NoMapping}]
    /\ result \in [Workers -> Codes]
    /\ cancelReq \subseteq Workers
    /\ out \in OutputPcs /\ outRet \in Codes
    /\ late \in BOOLEAN /\ returned \in BOOLEAN

\* Workers counted in job->n_threads: those that hold the block, and those
\* that ended (deadline, cancellation) without leaving it.
Holders(b) == {w \in Workers : job[w] = b}

\* Workers that own a connection slot of a depot.
Connected(d) == {w \in Workers : lm[w] \in Mappings /\ DepotOf[lm[w]] = d}

\* job->n_threads counts exactly the workers that are on the block, whatever
\* the order of checkouts, commits, time-outs and cancellations.
ThreadAccounting == \A b \in Blocks : nThreads[b] = Cardinality(Holders(b))

\* depot->nthread counts the connections of the depot; before the deadline no
\* slot is lost, after it a slot may leak but is never given back twice.
SlotAccounting ==
    \A d \in Depots :
        /\ Cardinality(Connected(d)) <= slots[d]
        /\ ~late => slots[d] = Cardinality(Connected(d))

\* max_thds_per_depot caps the connections to one depot, thds_per_job the
\* threads on one block ("the maxmium number of threads working on a single
\* download job", lors_download.c).
ThreadCaps ==
    /\ MaxThdsPerDepot > 0 => \A d \in Depots : Cardinality(Connected(d)) <= MaxThdsPerDepot
    /\ ThdsPerJob > 0 => \A b \in Blocks : Cardinality(Holders(b)) <= ThdsPerJob

\* A replica is tried by one worker at a time and at most once per block.
ReplicaTriedOnce ==
    \A w \in Workers : pc[w] \in {"got", "load"} /\ lm[w] # NoMapping =>
        /\ lm[w] \in Cand[job[w]] \ src[job[w]]
        /\ \A v \in Holders(job[w]) \ {w} : lm[v] # lm[w]

\* A block is given up only when every replica has been tried and no worker
\* is still at it; so the assert in _lorsCommitDownloadJob cannot fail.
FailedExhausted ==
    \A b \in Blocks : status[b] = "JOB_FAILED" => src[b] = {} /\ Holders(b) = {}

\* While the output thread runs, num_pending_jobs is the number of committed
\* blocks it has not taken, and what it has written is exactly the prefix.
OutputBookkeeping ==
    /\ \A b \in Blocks : status[b] = "JOB_COMMIT" <=> b < dstCur
    /\ out \in {"start", "wait", "check", "write"} =>
          numPending + (IF out = "write" THEN 1 ELSE 0)
            = Cardinality({b \in Blocks : status[b] \in {"JOB_PENDING", "JOB_FAILED"}})

\* The call never reports success for a range it has not written completely.
NoSilentTruncation == returned => dstCur > NBlocks \/ jpStatus # "LORS_SUCCESS"

\* The call implements the ordered stream that its caller sees: blocks are
\* settled once, written in order and once, and never after the call has
\* returned; it reports an error or the bytes it wrote, never an empty success.
Stream == INSTANCE OrderedStream WITH
    N <- NBlocks,
    fetched <- {b \in Blocks : status[b] \in {"JOB_PENDING", "JOB_COMMIT"}},
    lost <- {b \in Blocks : status[b] = "JOB_FAILED"},
    sent <- dstCur - 1,
    verdict <- IF ~returned THEN "open" ELSE IF ReturnsBytes THEN "bytes"
               ELSE IF jpStatus = "LORS_SUCCESS" THEN "nothing" ELSE "error"

ImplementsStream == Stream!Spec

\* The call returns.
Returns == <>returned

\* If every block has a replica on a depot that serves it, every block is
\* written, however the other replicas fail.
Delivers ==
    (\A b \in Blocks : \E m \in Cand[b] : DepotOf[m] \notin Flaky) => <>(dstCur = NBlocks + 1)
=============================================================================
