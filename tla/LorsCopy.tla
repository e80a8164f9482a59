------------------------------ MODULE LorsCopy ------------------------------
(***************************************************************************)
(* lorsSetCopy() (lors_set_copy.c) with LORS_COPY and without end-to-end   *)
(* services: a pool of workers (lors_job.c) allocates an array for every   *)
(* block and copy (_lorsDoCreate); when all of them are there, a second    *)
(* pool copies the blocks from depot to depot (_lorsDoCopyNE), part by     *)
(* part, each from one of the mappings that hold it; the mappings whose    *)
(* job did not commit leave the set.                                       *)
(*                                                                         *)
(* IBP_allocate and IBP_copy are external.  IBP_copy appends to the array  *)
(* and reports how much, or fails, whatever it has appended.  The races on *)
(* the list of depots are those of LorsDepotList: here it is a set, and    *)
(* each of its operations a step.                                          *)
(***************************************************************************)
EXTENDS Integers, FiniteSets, FiniteSetsExt, SequencesExt

CONSTANTS
    Length, BlockSize,  \* length and data_blocksize
    Cuts,          \* where a node of the source's download list begins
    Copies,
    NThreads,
    Depots, ListLen,    \* the pool, and min_unique_depots / 2
    Flaky,         \* depots on which IBP_allocate may fail
    MaxTried,      \* failed allocations a job may replace (4)
    SourceCounts,  \* mappings that hold each byte of the source: the values considered
    Deadlines      \* timeout > 0: the values considered

ASSUME CopyAssumption ==
    /\ Length \in Nat \ {0} /\ BlockSize \in Nat \ {0}
    /\ Cuts \subseteq 0..(Length - 1) /\ 0 \in Cuts
    /\ Copies \in Nat \ {0} /\ NThreads \in Nat \ {0}
    /\ ListLen \in Nat \ {0} /\ Flaky \subseteq Depots /\ MaxTried \in Nat
    /\ SourceCounts \subseteq Nat /\ Deadlines \subseteq BOOLEAN

\* _lorsNewBlockArray.
NBlocks == (Length + BlockSize - 1) \div BlockSize
BlockStart(b) == (b - 1) * BlockSize
BlockEnd(b)   == Min({b * BlockSize, Length})

\* A job stands for its mapping, too; all blocks once, then once more.
Jobs     == 1..(Copies * NBlocks)
Block(j) == ((j - 1) % NBlocks) + 1
Begins(j) == BlockStart(Block(j))
Ends(j)   == BlockEnd(Block(j))
NoJob    == 0
Workers  == 1..NThreads

Codes == {"LORS_SUCCESS", "LORS_TIMEOUT_EXPIRED", "LORS_IBP_FAILED"}

VARIABLES
    sources, deadline,
    listed, bad,      \* dp->dl: the depots in use, and the ones that failed
    main,             \* lorsSetCopy: what it is doing
    status, code,     \* job->status, job->err_code
    created, data,    \* the mappings with a capset, and the bytes in their arrays
    pc, job, result,  \* per worker: where it is, its job, tinfo->err_code
    hand, tried,      \* _lorsDoCreate: ldepot, tried
    from, source, done,  \* _lorsDoCopyNE: the part, its source, n_done
    time,             \* "left", "ending" (over for some), "over"
    mappings,         \* the mappings of this call in the destination set
    ret

callVars   == <<sources, deadline>>
depotVars  == <<listed, bad>>
jobVars    == <<status, code>>
arrayVars  == <<created, data>>
createVars == <<hand, tried>>
copyVars   == <<from, source, done>>
setVars    == <<main, mappings, ret>>
vars == <<callVars, depotVars, jobVars, arrayVars, pc, job, result, createVars,
          copyVars, time, setVars>>

Init ==
    /\ sources \in SourceCounts /\ deadline \in Deadlines
    /\ listed \in {S \in SUBSET Depots : Cardinality(S) = Min({ListLen, Cardinality(Depots)})}
    /\ bad = {}
    /\ main = "begin"
    /\ status = [j \in Jobs |-> "JOB_INIT"] /\ code = [j \in Jobs |-> "LORS_SUCCESS"]
    /\ created = {} /\ data = [j \in Jobs |-> << >>]
    /\ pc = [w \in Workers |-> "ended"] /\ job = [w \in Workers |-> NoJob]
    /\ result = [w \in Workers |-> "LORS_SUCCESS"]
    /\ hand = [w \in Workers |-> {}] /\ tried = [w \in Workers |-> 0]
    /\ from = [w \in Workers |-> 0] /\ source = [w \in Workers |-> 1]
    /\ done = [w \in Workers |-> 0]
    /\ time = "left"
    /\ mappings = {} /\ ret = "none"

-----------------------------------------------------------------------------
(* lorsSetCopy                                                             *)

\* _lorsRemainTime < 0, and its contrary: the clocks of the workers start at
\* different moments.
TimeOver == time # "left"
TimeLeft == time # "over"

\* _lorsCreateThreadPool.
StartWorkers(phase) ==
    /\ main' = phase
    /\ status' = [j \in Jobs |-> "JOB_INIT"] /\ code' = [j \in Jobs |-> "LORS_SUCCESS"]
    /\ pc' = [w \in Workers |-> "get"] /\ result' = [w \in Workers |-> "LORS_SUCCESS"]

Return(c, S) ==
    /\ main' = "returned" /\ ret' = c /\ mappings' = S
    /\ UNCHANGED <<jobVars, pc, result>>

Begin ==
    /\ main = "begin"
    /\ \/ TimeOver /\ Return("LORS_TIMEOUT_EXPIRED", {})
       \/ TimeLeft /\ sources = 0 /\ Return("LORS_HAS_HOLE", {})
       \/ TimeLeft /\ sources > 0 /\ StartWorkers("allocate") /\ UNCHANGED <<mappings, ret>>
    /\ UNCHANGED <<callVars, depotVars, arrayVars, job, createVars, copyVars, time>>

\* _lorsJoinThread: the code of the last worker that failed.
AllEnded == \A w \in Workers : pc[w] = "ended"
JoinCode ==
    LET Failed == {w \in Workers : result[w] # "LORS_SUCCESS"}
    IN  IF Failed = {} THEN "LORS_SUCCESS" ELSE result[Max(Failed)]

\* The end of _lorsSetAllocateByBlockArray: all mappings enter the set, or none.
EndAllocation ==
    /\ main = "allocate" /\ AllEnded
    /\ \/ JoinCode # "LORS_SUCCESS" /\ Return(JoinCode, {})
       \/ JoinCode = "LORS_SUCCESS" /\ TimeOver /\ Return("LORS_TIMEOUT_EXPIRED", Jobs)
       \/ /\ JoinCode = "LORS_SUCCESS" /\ TimeLeft
          /\ StartWorkers("copy")
          /\ mappings' = Jobs /\ UNCHANGED ret
    /\ UNCHANGED <<callVars, depotVars, arrayVars, job, createVars, copyVars, time>>

\* The check of all jobs: a mapping whose job did not commit is removed, and
\* the last of these jobs gives the code.
Uncommitted == {j \in Jobs : status[j] # "JOB_COMMIT"}
Kept == Jobs \ Uncommitted
LastCode == IF Uncommitted = {} THEN JoinCode ELSE code[Max(Uncommitted)]
ReturnCode == IF Kept # {} /\ LastCode # "LORS_SUCCESS" THEN "LORS_PARTIAL" ELSE LastCode

EndCopy ==
    /\ main = "copy" /\ AllEnded
    /\ Return(ReturnCode, Kept)
    /\ UNCHANGED <<callVars, depotVars, arrayVars, job, createVars, copyVars, time>>

-----------------------------------------------------------------------------
(* _lorsWorkThread                                                         *)

Goto(w, p) == pc' = [pc EXCEPT ![w] = p]

IsInit(j) == status[j] = "JOB_INIT"
FirstInit(j) == IsInit(j) /\ \A k \in Jobs : IsInit(k) => j <= k

GetJob(w) ==
    /\ pc[w] = "get" /\ TimeLeft
    /\ \E j \in Jobs :
          /\ FirstInit(j)
          /\ status' = [status EXCEPT ![j] = "JOB_CHECKOUT"]
          /\ job' = [job EXCEPT ![w] = j]
    /\ Goto(w, IF main = "allocate" THEN "lock" ELSE "find")
    /\ UNCHANGED <<callVars, depotVars, code, arrayVars, result, createVars, copyVars,
                   time, setVars>>

\* The time is over: the thread ends, with the job checked out.
GetJobTooLate(w) ==
    /\ pc[w] = "get" /\ TimeOver
    /\ \E j \in Jobs : FirstInit(j) /\ status' = [status EXCEPT ![j] = "JOB_CHECKOUT"]
    /\ Goto(w, "ended")
    /\ result' = [result EXCEPT ![w] = "LORS_TIMEOUT_EXPIRED"]
    /\ UNCHANGED <<callVars, depotVars, code, arrayVars, job, createVars, copyVars, time,
                   setVars>>

NoMoreJobs(w) ==
    /\ pc[w] = "get" /\ \A j \in Jobs : ~IsInit(j)
    /\ Goto(w, "ended")
    /\ UNCHANGED <<callVars, depotVars, jobVars, arrayVars, job, result, createVars,
                   copyVars, time, setVars>>

\* The end of a job (_lorsCommitJob); an error ends its worker, too.
EndJob(w, st, c) ==
    /\ status' = [status EXCEPT ![job[w]] = st]
    /\ code' = [code EXCEPT ![job[w]] = c]
    /\ result' = [result EXCEPT ![w] = c]
    /\ Goto(w, IF c = "LORS_SUCCESS" THEN "get" ELSE "ended")
    /\ job' = [job EXCEPT ![w] = NoJob]

-----------------------------------------------------------------------------
(* _lorsDoCreate                                                           *)

\* The lock is the one of the first node the block lies in.
Node(j) == Max({c \in Cuts : c <= Begins(j)})
Allocating(w) == pc[w] \in {"depot", "alloc", "refill"}
HasLock(w, j) == Allocating(w) /\ Node(job[w]) = Node(j)

LockNode(w) ==
    /\ pc[w] = "lock" /\ \A v \in Workers : ~HasLock(v, job[w])
    /\ Goto(w, "depot")
    /\ UNCHANGED <<callVars, depotVars, jobVars, arrayVars, job, result, createVars,
                   copyVars, time, setVars>>

\* bail: the job is committed, whatever became of it.
EndCreate(w, c) ==
    /\ EndJob(w, "JOB_COMMIT", c)
    /\ hand' = [hand EXCEPT ![w] = {}] /\ tried' = [tried EXCEPT ![w] = 0]

CreateTooLate(w) ==
    /\ pc[w] = "depot" /\ TimeOver
    /\ EndCreate(w, "LORS_TIMEOUT_EXPIRED")
    /\ UNCHANGED <<callVars, depotVars, arrayVars, copyVars, time, setVars>>

\* A depot that no mapping of the node is on is preferred, not required.
NextDepot(w) ==
    /\ pc[w] = "depot" /\ TimeLeft
    /\ \E d \in listed : hand' = [hand EXCEPT ![w] = {d}]
    /\ Goto(w, "alloc")
    /\ UNCHANGED <<callVars, depotVars, jobVars, arrayVars, job, result, tried, copyVars,
                   time, setVars>>

\* ret is not set: the first time it is still 0.
NoNextDepot(w) ==
    /\ pc[w] = "depot" /\ TimeLeft /\ listed = {}
    /\ EndCreate(w, IF tried[w] = 0 THEN "LORS_SUCCESS" ELSE "LORS_IBP_FAILED")
    /\ UNCHANGED <<callVars, depotVars, arrayVars, copyVars, time, setVars>>

Allocated(w) ==
    /\ pc[w] = "alloc"
    /\ created' = created \cup {job[w]}
    /\ EndCreate(w, "LORS_SUCCESS")
    /\ UNCHANGED <<callVars, depotVars, data, copyVars, time, setVars>>

\* lorsRemoveDepot.  An array whose answer was lost is nobody's.
AllocateFails(w) ==
    /\ pc[w] = "alloc" /\ hand[w] \subseteq Flaky
    /\ listed' = listed \ hand[w] /\ bad' = bad \cup hand[w]
    /\ Goto(w, "refill")
    /\ UNCHANGED <<callVars, jobVars, arrayVars, job, result, createVars, copyVars, time,
                   setVars>>

\* lorsRefillListFromPool: an added depot counts twice.
Spare == Depots \ (listed \cup bad)
Wanting == ListLen - Cardinality(listed)
RefillList ==
    /\ \E S \in SUBSET Spare :
          /\ Cardinality(S) <= Max({0, Wanting})
          /\ Wanting > 0 /\ Spare # {} => S # {}
          /\ listed' = listed \cup S
    /\ UNCHANGED bad

\* left_t > 0: there is a deadline and time was left after IBP_allocate.
MayTryAgain(w) == deadline /\ tried[w] < MaxTried

TryAgain(w) ==
    /\ pc[w] = "refill"
    /\ RefillList
    /\ \/ /\ MayTryAgain(w)
          /\ Goto(w, "depot")
          /\ tried' = [tried EXCEPT ![w] = @ + 1]
          /\ UNCHANGED <<jobVars, job, result, hand>>
       \/ /\ TimeOver \/ ~MayTryAgain(w)
          /\ EndCreate(w, "LORS_IBP_FAILED")
    /\ UNCHANGED <<callVars, arrayVars, copyVars, time, setVars>>

-----------------------------------------------------------------------------
(* _lorsDoCopyNE                                                           *)

\* A part is what one node of the download list has of the block.
PartEnd(j, x) == Min({c \in Cuts : c > x} \cup {Ends(j)})
PartLen(w) == PartEnd(job[w], from[w]) - from[w]
Left(w) == PartLen(w) - done[w]

BeginPart(w, x) ==
    /\ from' = [from EXCEPT ![w] = x]
    /\ source' = [source EXCEPT ![w] = sources]
    /\ done' = [done EXCEPT ![w] = 0]

NoPart(w) ==
    /\ from' = [from EXCEPT ![w] = 0]
    /\ source' = [source EXCEPT ![w] = 1]
    /\ done' = [done EXCEPT ![w] = 0]

\* _lorsFindDepot and the assertion that the pool has the mapping's depot.
FindDepot(w) ==
    /\ pc[w] = "find"
    /\ \/ /\ job[w] \in created
          /\ Goto(w, "copy") /\ BeginPart(w, Begins(job[w]))
          /\ UNCHANGED main
       \/ /\ job[w] \notin created
          /\ main' = "aborted"
          /\ UNCHANGED <<pc, copyVars>>
    /\ UNCHANGED <<callVars, depotVars, jobVars, arrayVars, job, result, createVars, time,
                   mappings, ret>>

CopyTooLate(w) ==
    /\ pc[w] = "copy" /\ TimeOver
    /\ EndJob(w, "JOB_FAILED", "LORS_TIMEOUT_EXPIRED")
    /\ NoPart(w)
    /\ UNCHANGED <<callVars, depotVars, arrayVars, createVars, time, setVars>>

\* IBP_copy appends the first n bytes of the rest of the part.  The array is
\* as large as its block, and a depot refuses a store it has no room for.
FullBlock(j) == BlockSize
ArraySize(j) == Ends(j) - Begins(j)
Rest(w, n) == [i \in 1..n |-> from[w] + done[w] + i - 1]
Appends(w, n) ==
    /\ n > 0 => Len(data[job[w]]) + Left(w) <= ArraySize(job[w])
    /\ data' = [data EXCEPT ![job[w]] = @ \o Rest(w, n)]
    /\ UNCHANGED created

Copied(w) ==
    /\ pc[w] = "copy" /\ TimeLeft
    /\ \E n \in 1..Left(w) :
          /\ Appends(w, n)
          /\ IF n < Left(w)
               THEN done' = [done EXCEPT ![w] = @ + n]
                    /\ UNCHANGED <<pc, from, source, jobVars, job, result>>
               ELSE LET end == from[w] + PartLen(w)
                    IN  IF end < Ends(job[w])
                          THEN BeginPart(w, end) /\ UNCHANGED <<pc, jobVars, job, result>>
                          ELSE EndJob(w, "JOB_COMMIT", "LORS_SUCCESS") /\ NoPart(w)
    /\ UNCHANGED <<callVars, depotVars, createVars, time, setVars>>

\* IBP_copy returns 0; the array may have got some of the data all the same.
\* The previous source is tried, from the start of the part.
AnySource(w) == source[w] > 0
OtherSource(w) == source[w] > 1

CopyFails(w) ==
    /\ pc[w] = "copy" /\ TimeLeft
    /\ \E n \in 0..Left(w) : Appends(w, n)
    /\ \/ /\ OtherSource(w)
          /\ source' = [source EXCEPT ![w] = @ - 1]
          /\ done' = [done EXCEPT ![w] = 0]
          /\ UNCHANGED <<pc, from, jobVars, job, result>>
       \/ ~OtherSource(w) /\ EndJob(w, "JOB_FAILED", "LORS_IBP_FAILED") /\ NoPart(w)
    /\ UNCHANGED <<callVars, depotVars, createVars, time, setVars>>

Works(w) ==
    /\ main \in {"allocate", "copy"}
    /\ \/ GetJob(w) \/ GetJobTooLate(w) \/ NoMoreJobs(w)
       \/ LockNode(w) \/ CreateTooLate(w) \/ NextDepot(w) \/ NoNextDepot(w)
       \/ Allocated(w) \/ AllocateFails(w) \/ TryAgain(w)
       \/ FindDepot(w) \/ CopyTooLate(w) \/ Copied(w) \/ CopyFails(w)

Expire ==
    /\ deadline /\ time # "over" /\ main \notin {"returned", "aborted"}
    /\ time' = IF time = "left" THEN "ending" ELSE "over"
    /\ UNCHANGED <<callVars, depotVars, jobVars, arrayVars, pc, job, result, createVars,
                   copyVars, setVars>>

Terminated == main \in {"returned", "aborted"} /\ UNCHANGED vars

Next ==
    \/ Begin \/ EndAllocation \/ EndCopy \/ Expire \/ Terminated
    \/ \E w \in Workers : Works(w)

Spec == Init /\ [][Next]_vars

-----------------------------------------------------------------------------
(* Properties                                                              *)

\* Type correctness of the call, its jobs, arrays and workers.
TypeOK ==
    /\ sources \in SourceCounts /\ deadline \in BOOLEAN
    /\ listed \subseteq Depots /\ bad \subseteq Depots \ listed
    /\ main \in {"begin", "allocate", "copy", "returned", "aborted"}
    /\ status \in [Jobs -> {"JOB_INIT", "JOB_CHECKOUT", "JOB_COMMIT", "JOB_FAILED"}]
    /\ code \in [Jobs -> Codes] /\ result \in [Workers -> Codes]
    /\ created \subseteq Jobs /\ data \in [Jobs -> Seq(0..(Length - 1))]
    /\ pc \in [Workers -> {"get", "lock", "depot", "alloc", "refill", "find", "copy", "ended"}]
    /\ job \in [Workers -> Jobs \cup {NoJob}]
    /\ hand \in [Workers -> SUBSET Depots] /\ tried \in [Workers -> 0..MaxTried]
    /\ from \in [Workers -> 0..(Length - 1)] /\ done \in [Workers -> 0..(Length - 1)]
    /\ source \in [Workers -> 1..Max({sources, 1})]
    /\ time \in {"left", "ending", "over"}
    /\ mappings \subseteq Jobs
    /\ ret \in Codes \cup {"none", "LORS_HAS_HOLE", "LORS_PARTIAL"}

\* Every mapping of a copy that is reported as made, in full or in part, holds
\* its block byte for byte, though a failed IBP_copy may have left data in the
\* array and the next source starts the part again (_lorsDoCopyNE).
BlockData(j) == [i \in 1..(Ends(j) - Begins(j)) |-> Begins(j) + i - 1]
CopyTrue ==
    ret \in {"LORS_SUCCESS", "LORS_PARTIAL"} =>
        \A j \in mappings : j \in created /\ data[j] = BlockData(j)

\* LORS_PARTIAL means that some mapping was copied; any other error leaves no
\* mapping with data in the destination set, whatever the jobs did before.
NothingOnError ==
    /\ ret = "LORS_PARTIAL" => mappings # {}
    /\ ret \notin {"none", "LORS_SUCCESS", "LORS_PARTIAL"} =>
          \A j \in mappings : data[j] = << >>

\* "lorsSetCopy() copies data from the @offset and @c length of @c srcSet"
\* (lors_api.h): LORS_SUCCESS means that every block has its copies.
CopySuccess == ret = "LORS_SUCCESS" => mappings = Jobs
=============================================================================
