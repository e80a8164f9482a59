------------------------------ MODULE LorsStore ------------------------------
(***************************************************************************)
(* lorsSetStore() (lors_set_store.c): each block of the buffer, once per   *)
(* copy, is a job; a pool of worker threads (lors_job.c) allocates a byte  *)
(* array on the next depot of the shared list for a job, stores the block  *)
(* in it and commits the job.  When every worker has ended, the mappings   *)
(* of the committed jobs are added to the set.                             *)
(*                                                                         *)
(* IBP_allocate and IBP_store are external: the depot does what it is      *)
(* asked for and answers, or the caller gets an error whatever the depot   *)
(* did.  A job stands for its block and its mapping.                       *)
(***************************************************************************)
EXTENDS LorsDepotList, FiniteSets

CONSTANTS
    NJobs,         \* blocks times copies
    NThreads,      \* worker threads
    NoDepot,
    MaxTried,      \* failed allocations a job may replace (4)
    Flaky,         \* depots that may fail
    RetryOpts,     \* LORS_RETRY_UNTIL_TIMEOUT in opts: the values considered
    Deadlines      \* timeout > 0: the values considered

ASSUME StoreAssumption ==
    /\ NJobs \in Nat \ {0} /\ NThreads \in Nat \ {0}
    /\ MaxTried \in Nat
    /\ NoDepot \notin Depots /\ Flaky \subseteq Depots
    /\ RetryOpts \subseteq BOOLEAN /\ RetryOpts # {}
    /\ Deadlines \subseteq BOOLEAN /\ Deadlines # {}

Jobs    == 1..NJobs
NoJob   == 0
Workers == 1..NThreads

Codes == {"LORS_SUCCESS", "LORS_TIMEOUT_EXPIRED", "LORS_NOTFOUND", "LORS_IBP_FAILED",
          "LORS_PTHREAD_CANCELED"}
JobStatus == {"JOB_INIT", "JOB_CHECKOUT", "JOB_COMMIT", "JOB_FAILED", "JOB_CANCELED"}
WorkerPcs == {"none", "get", "next", "rotate", "alloc", "remove", "forget", "refill",
              "scan", "insert", "store", "ended"}

VARIABLES
    retry, deadline,  \* opts and timeout of the call
    status,           \* job->status
    array,            \* lm->capset: no array yet, an empty one, one with the block
    main,             \* lorsSetStore: what it is doing
    pc, job, result,  \* per worker: where it is, its job, tinfo->err_code
    hand,             \* ldepot
    tried,
    wanted, at, added,  \* the refill of a worker: count, pool position, sub_count
    time,             \* of the call: "left", "ending" (over for some), "over"
    cancelReq,        \* workers with a pending pthread_cancel
    mappings,         \* jobs whose mapping is in the set
    ret               \* what lorsSetStore returned

callVars   == <<retry, deadline>>
jobVars    == <<status, array>>
refillVars == <<wanted, at, added>>
setVars    == <<main, mappings, ret>>
vars == <<listVars, callVars, jobVars, pc, job, result, hand, tried, refillVars,
          time, cancelReq, setVars>>

Init ==
    /\ ListInit
    /\ retry \in RetryOpts /\ deadline \in Deadlines
    /\ status = [j \in Jobs |-> "JOB_INIT"]
    /\ array = [j \in Jobs |-> "none"]
    /\ main = "condition"
    /\ pc = [w \in Workers |-> "none"]
    /\ job = [w \in Workers |-> NoJob]
    /\ result = [w \in Workers |-> "LORS_SUCCESS"]
    /\ hand = [w \in Workers |-> NoDepot]
    /\ tried = [w \in Workers |-> 0]
    /\ wanted = [w \in Workers |-> 0]
    /\ at = [w \in Workers |-> 0] /\ added = [w \in Workers |-> 0]
    /\ time = "left" /\ cancelReq = {}
    /\ mappings = {} /\ ret = "none"

-----------------------------------------------------------------------------
(* lors_job.c: the thread pool                                             *)

\* The conditioning of the blocks, by a pool of its own, comes first.
Condition ==
    /\ main = "condition"
    /\ \/ main' = "create" /\ UNCHANGED ret
       \/ main' = "returned" /\ ret' = "LORS_FAILURE"
    /\ UNCHANGED <<listVars, callVars, jobVars, pc, job, result, hand, tried,
                   refillVars, time, cancelReq, mappings>>

\* _lorsCreateThreadPool.  tp->nthread stays 0 until the last worker runs.
CreateWorker(w) ==
    /\ main = "create" /\ pc[w] = "none"
    /\ \A v \in Workers : v < w => pc[v] # "none"
    /\ pc' = [pc EXCEPT ![w] = "get"]
    /\ main' = IF w = NThreads THEN "join" ELSE "create"
    /\ UNCHANGED <<listVars, callVars, jobVars, job, result, hand, tried, refillVars,
                   time, cancelReq, mappings, ret>>

Killable == IF main = "create" THEN {} ELSE Workers

LastCode == result[NThreads]

\* _lorsJoinThread: the code of the last worker that failed.
JoinCode ==
    LET Bad == {w \in Workers : result[w] # "LORS_SUCCESS"}
    IN  IF Bad = {} THEN "LORS_SUCCESS"
        ELSE result[CHOOSE w \in Bad : \A v \in Bad : v <= w]

Attempted(j) == status[j] # "JOB_INIT"
Committed(j) == status[j] = "JOB_COMMIT"

Return ==
    /\ main = "join" /\ \A w \in Workers : pc[w] = "ended"
    /\ mappings' = {j \in Jobs : Committed(j)}
    /\ ret' = IF JoinCode # "LORS_SUCCESS" /\ mappings' # {} THEN "LORS_PARTIAL" ELSE JoinCode
    /\ main' = "returned"
    /\ UNCHANGED <<listVars, callVars, jobVars, pc, job, result, hand, tried,
                   refillVars, time, cancelReq>>

-----------------------------------------------------------------------------
(* _lorsWorkThread                                                         *)

Goto(w, p) == pc' = [pc EXCEPT ![w] = p]

\* _lorsRemainTime < 0, and its contrary.  The clocks of the workers start at
\* different moments.
TimeOver == time # "left"
NoTimeTest == TRUE
TimeLeft == time # "over"

NotEnded(j) == status[j] \in {"JOB_INIT", "JOB_CHECKOUT"}
IsInit(j) == status[j] = "JOB_INIT"
FirstInit(j) == IsInit(j) /\ \A k \in Jobs : IsInit(k) => j <= k

\* _lorsGetJob.
GetJob(w) ==
    /\ pc[w] = "get" /\ TimeLeft
    /\ \E j \in Jobs :
          /\ FirstInit(j)
          /\ status' = [status EXCEPT ![j] = "JOB_CHECKOUT"]
          /\ job' = [job EXCEPT ![w] = j]
    /\ Goto(w, "next")
    /\ UNCHANGED <<listVars, callVars, array, result, hand, tried, refillVars, time,
                   cancelReq, setVars>>

\* The time is over: the thread ends, with the job checked out.
GetJobTooLate(w) ==
    /\ pc[w] = "get" /\ TimeOver
    /\ \E j \in Jobs : FirstInit(j) /\ status' = [status EXCEPT ![j] = "JOB_CHECKOUT"]
    /\ Goto(w, "ended")
    /\ result' = [result EXCEPT ![w] = "LORS_TIMEOUT_EXPIRED"]
    /\ UNCHANGED <<listVars, callVars, array, job, hand, tried, refillVars, time,
                   cancelReq, setVars>>

NoMoreJobs(w) ==
    /\ pc[w] = "get" /\ \A j \in Jobs : ~IsInit(j)
    /\ Goto(w, "ended")
    /\ UNCHANGED <<listVars, callVars, jobVars, job, result, hand, tried, refillVars,
                   time, cancelReq, setVars>>

-----------------------------------------------------------------------------
(* _lorsDoCreateStore                                                      *)

\* The end of a job; the locals of the handler are gone.
Ends(w, st, p) ==
    /\ status' = [status EXCEPT ![job[w]] = st]
    /\ Goto(w, p)
    /\ job' = [job EXCEPT ![w] = NoJob]
    /\ hand' = [hand EXCEPT ![w] = NoDepot]
    /\ tried' = [tried EXCEPT ![w] = 0]

\* bail: the job is failed, and so is the thread.
Bail(w, code) ==
    /\ Ends(w, "JOB_FAILED", "ended")
    /\ result' = [result EXCEPT ![w] = code]

\* _lorsKillWorkerThreads, then bail.
KillOthers(w, code) ==
    /\ cancelReq' = cancelReq \cup (Killable \ {w})
    /\ Bail(w, code)

TooLate(w) ==
    /\ pc[w] \in {"next", "store"} /\ TimeOver
    /\ Bail(w, "LORS_TIMEOUT_EXPIRED")
    /\ UNCHANGED <<listVars, callVars, array, refillVars, time, cancelReq, setVars>>

NextDepot(w) ==
    /\ pc[w] = "next" /\ TimeLeft
    /\ \E d \in Depots : TakeFirst(d) /\ hand' = [hand EXCEPT ![w] = d]
    /\ Goto(w, "rotate")
    /\ UNCHANGED <<callVars, jobVars, job, result, tried, refillVars, time, cancelReq,
                   setVars>>

NoNextDepot(w) ==
    /\ pc[w] = "next" /\ TimeLeft /\ NoDepotLeft
    /\ Bail(w, "LORS_NOTFOUND")
    /\ UNCHANGED <<callVars, array, refillVars, time, cancelReq, setVars>>

\* The first node of the emptied list: the process dies.
Crash(w) ==
    /\ pc[w] = "next" /\ TimeLeft /\ TakesGarbage
    /\ main' = "crashed"
    /\ UNCHANGED <<callVars, jobVars, pc, job, result, hand, tried, refillVars, time,
                   cancelReq, mappings, ret>>

Rotate(w) ==
    /\ pc[w] = "rotate"
    /\ PutLast(hand[w])
    /\ Goto(w, "alloc")
    /\ UNCHANGED <<callVars, jobVars, job, result, hand, tried, refillVars, time,
                   cancelReq, setVars>>

\* IBP_allocate.  lm->capset is overwritten: an earlier array is left behind.
Allocated(w) ==
    /\ pc[w] = "alloc"
    /\ array' = [array EXCEPT ![job[w]] = "empty"]
    /\ Goto(w, "store")
    /\ UNCHANGED <<listVars, callVars, status, job, result, hand, tried, refillVars,
                   time, cancelReq, setVars>>

AllocateFails(w) ==
    /\ pc[w] = "alloc" /\ hand[w] \in Flaky
    /\ IF retry
         THEN /\ Goto(w, "remove")
              /\ wanted' = [wanted EXCEPT ![w] = count]
              /\ UNCHANGED <<status, job, hand, tried, result, cancelReq>>
         ELSE KillOthers(w, "LORS_IBP_FAILED") /\ UNCHANGED wanted
    /\ UNCHANGED <<listVars, callVars, array, at, added, time, setVars>>

RemoveDepot(w) ==
    /\ pc[w] = "remove"
    /\ \/ Unlink(hand[w]) /\ Goto(w, "forget")
       \/ NothingToRemove(hand[w]) /\ Goto(w, "refill")
    /\ UNCHANGED <<callVars, jobVars, job, result, hand, tried, refillVars, time,
                   cancelReq, setVars>>

ForgetDepot(w) ==
    /\ pc[w] = "forget"
    /\ MarkBad(hand[w])
    /\ Goto(w, "refill")
    /\ UNCHANGED <<callVars, jobVars, job, result, hand, tried, refillVars, time,
                   cancelReq, setVars>>

BeginToRefill(w) ==
    /\ pc[w] = "refill" /\ BeginRefill(wanted[w])
    /\ Goto(w, "scan")
    /\ at' = [at EXCEPT ![w] = 1]
    /\ UNCHANGED <<callVars, jobVars, job, result, hand, tried, wanted, added, time,
                   cancelReq, setVars>>

ScanDepot(w) ==
    /\ pc[w] = "scan" /\ at[w] <= Len(Pool) /\ Missing(added[w], wanted[w])
    /\ IF Known(Pool[at[w]])
         THEN SkipDepot /\ at' = [at EXCEPT ![w] = @ + 1] /\ UNCHANGED pc
         ELSE Goto(w, "insert") /\ UNCHANGED <<listVars, at>>
    /\ UNCHANGED <<callVars, jobVars, job, result, hand, tried, wanted, added, time,
                   cancelReq, setVars>>

AddDepot(w) ==
    /\ pc[w] = "insert"
    /\ InsertDepot(Pool[at[w]])
    /\ at' = [at EXCEPT ![w] = @ + 1]
    /\ added' = [added EXCEPT ![w] = @ + 1]
    /\ Goto(w, "scan")
    /\ UNCHANGED <<callVars, jobVars, job, result, hand, tried, wanted, time, cancelReq,
                   setVars>>

Refilled(w) ==
    \/ pc[w] = "refill" /\ NoRefill(wanted[w])
    \/ pc[w] = "scan" /\ EndRefill /\ (at[w] > Len(Pool) \/ ~Missing(added[w], wanted[w]))

Untiring(w) == deadline

\* left_t > 0: there is a deadline and time was left after IBP_allocate; if it
\* is over by now, the next test of the time ends the job.
MayTryAgain(w) == deadline /\ tried[w] < MaxTried

TryAgain(w) ==
    /\ Refilled(w)
    /\ \/ /\ MayTryAgain(w)
          /\ Goto(w, "next")
          /\ tried' = [tried EXCEPT ![w] = @ + 1]
          /\ UNCHANGED <<status, job, hand, result>>
       \/ /\ TimeOver \/ ~MayTryAgain(w)
          /\ Bail(w, "LORS_IBP_FAILED")
    /\ wanted' = [wanted EXCEPT ![w] = 0]
    /\ at' = [at EXCEPT ![w] = 0]
    /\ added' = [added EXCEPT ![w] = 0]
    /\ UNCHANGED <<callVars, array, time, cancelReq, setVars>>

\* IBP_store, then the commit: nothing between the two can be cancelled.
Stored(w) ==
    /\ pc[w] = "store" /\ TimeLeft
    /\ array' = [array EXCEPT ![job[w]] = "full"]
    /\ Ends(w, "JOB_COMMIT", "get")
    /\ UNCHANGED <<listVars, callVars, result, refillVars, time, cancelReq, setVars>>

\* IBP_store returns 0; the depot may have the data all the same.
StoreFails(w) ==
    /\ pc[w] = "store" /\ TimeLeft /\ hand[w] \in Flaky
    /\ array' \in {array, [array EXCEPT ![job[w]] = "full"]}
    /\ IF retry
         THEN Goto(w, "next") /\ UNCHANGED <<status, job, hand, tried, result, cancelReq>>
         ELSE KillOthers(w, "LORS_IBP_FAILED")
    /\ UNCHANGED <<listVars, callVars, refillVars, time, setVars>>

\* A cancellation takes effect in the calls to IBP, or in the message that the
\* time is over: _lorsDoCleanup, _lorsCleanupThread.
Cancelled(w) ==
    /\ w \in cancelReq
    /\ pc[w] \in {"alloc", "store"} \/ (pc[w] = "next" /\ TimeOver)
    /\ \/ UNCHANGED array
       \/ pc[w] = "store" /\ array' = [array EXCEPT ![job[w]] = "full"]
    /\ Ends(w, "JOB_CANCELED", "ended")
    /\ result' = [result EXCEPT ![w] = "LORS_PTHREAD_CANCELED"]
    /\ UNCHANGED <<listVars, callVars, refillVars, time, cancelReq, setVars>>

Works(w) ==
    /\ main # "crashed"
    /\ \/ GetJob(w) \/ GetJobTooLate(w) \/ NoMoreJobs(w) \/ TooLate(w)
       \/ NextDepot(w) \/ NoNextDepot(w) \/ Crash(w) \/ Rotate(w)
       \/ Allocated(w) \/ AllocateFails(w) \/ RemoveDepot(w) \/ ForgetDepot(w)
       \/ BeginToRefill(w) \/ ScanDepot(w) \/ AddDepot(w) \/ TryAgain(w)
       \/ Stored(w) \/ StoreFails(w) \/ Cancelled(w)

\* The time of the first worker is over, then that of all.
Expire ==
    /\ deadline /\ main \in {"create", "join"} /\ time # "over"
    /\ time' = IF time = "left" THEN "ending" ELSE "over"
    /\ UNCHANGED <<listVars, callVars, jobVars, pc, job, result, hand, tried,
                   refillVars, cancelReq, setVars>>

Terminated == main \in {"returned", "crashed"} /\ UNCHANGED vars

Next ==
    \/ Condition \/ Return \/ Expire \/ Terminated
    \/ \E w \in Workers : CreateWorker(w) \/ Works(w)

Spec == Init /\ [][Next]_vars

\* The scheduler runs every thread that can run, calls to IBP return and time
\* passes.
FairSpec ==
    /\ Spec
    /\ WF_vars(Condition) /\ WF_vars(Return) /\ WF_vars(Expire)
    /\ \A w \in Workers : WF_vars(CreateWorker(w)) /\ WF_vars(Works(w))

-----------------------------------------------------------------------------
(* Properties                                                              *)

TypeOK ==
    /\ list \in Seq(Depots) /\ badList \subseteq Depots /\ count \in Int
    /\ locked \in BOOLEAN /\ poolLocked \in BOOLEAN
    /\ retry \in BOOLEAN /\ deadline \in BOOLEAN
    /\ status \in [Jobs -> JobStatus]
    /\ array \in [Jobs -> {"none", "empty", "full"}]
    /\ main \in {"condition", "create", "join", "returned", "crashed"}
    /\ pc \in [Workers -> WorkerPcs] /\ job \in [Workers -> Jobs \cup {NoJob}]
    /\ result \in [Workers -> Codes] /\ hand \in [Workers -> Depots \cup {NoDepot}]
    /\ tried \in [Workers -> 0..MaxTried]
    /\ wanted \in [Workers -> Int] /\ at \in [Workers -> Nat] /\ added \in [Workers -> Nat]
    /\ time \in {"left", "ending", "over"} /\ cancelReq \subseteq Workers
    /\ mappings \subseteq Jobs
    /\ ret \in Codes \cup {"none", "LORS_PARTIAL", "LORS_FAILURE"}

\* A block that is checked out is in the hands of one worker, or the worker
\* that had it ended with an error: no block is stored twice into one mapping
\* and none is forgotten.
OneWorkerPerJob ==
    /\ \A v, w \in Workers : job[v] = job[w] /\ job[v] # NoJob => v = w
    /\ \A w \in Workers : job[w] # NoJob => status[job[w]] = "JOB_CHECKOUT"
    /\ \A j \in Jobs : status[j] \in {"JOB_CHECKOUT", "JOB_FAILED", "JOB_CANCELED"} =>
          \E w \in Workers : job[w] = j \/ (pc[w] = "ended" /\ result[w] # "LORS_SUCCESS")

\* Every mapping in the set refers to an array that holds its block, in spite
\* of failed stores, retries on other depots and cancellations.
MappingsFull == \A j \in mappings : array[j] = "full"

\* LORS_SUCCESS means that every copy of every block is in the set, LORS_PARTIAL
\* that some are, and any other code that none is: an error of a worker that was
\* cancelled, timed out or left a block behind is never lost.
ReturnsTruth ==
    main = "returned" =>
        /\ ret = "LORS_SUCCESS" => mappings = Jobs
        /\ ret = "LORS_PARTIAL" => mappings # {}
        /\ ret \notin {"LORS_SUCCESS", "LORS_PARTIAL"} => mappings = {}

\* "Return after timeout seconds, even if operation is incomplete" (lors_api.h).
Returns == deadline ~> main \in {"returned", "crashed"}
=============================================================================
