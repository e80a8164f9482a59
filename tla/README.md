# A TLA+ model of LoRS

LoRS (Logistical Runtime System) stores files in the network: a *depot* (IBP)
rents byte arrays to its clients, an *exnode* records which depot holds which
part of a file, and the LoRS library and its tools move data between files and
depots with many threads at once. This directory models the parts of LoRS whose
correctness depends on the order in which things happen. TLC checks the models
on small instances; TLAPS proves the main safety properties for every instance.

    tlc -config MCDownloadSafety.cfg MCLorsDownload.tla     # one run
    tlapm LorsDownload_proofs.tla                           # the proofs

`PROJECT.json` lists the runs, the mutants that show each property can fail,
the source lines behind each definition, the hazards and the findings.

## Inventory

| part | source | state | operations | what is hard | what makes it correct |
|---|---|---|---|---|---|
| download engine | `src/src/lors_set_load.c`, `src/src/lors_job.c` | job list (status, threads, replicas left), pending blocks, slots per depot, one output position | get job, load, commit, prebuffer, write, cancel, return | worker threads and an output thread on three condition variables, redundant fetches, deadlines, cancellation inside a load | exact counts, blocks in order and once, no silent loss, return |
| depot request service | `src/lbone/ibp/src/ibp_main.c`, `ibp_request*.c`, `ibp_thread_pool.c`, `ibp_connection.c` | connection list, two-level queue, thread handles, idle count, pipe | accept, read, queue, take, serve, give back, grow, leave, shut down | one condition variable for two kinds of threads, elastic pool, time-outs, hand-over of a connection between threads | each connection has one owner, no lost wakeup, every request served |
| depot storage | `ibp_server_lib.c`, `ibp_handle.c`, `ibp_vol_allocation.c`, `ibp_manage.c` | byte arrays (size, locks, reference, deleted), space used per class | allocate, store, load, manage, expire, delete | checks and updates in different critical sections, deletion under use | space accounted, no use after free, limits kept |
| depot recovery | `ibp_server_lib.c` (`boot`, `recover`, `SaveInfo2LSS`), `ibp_load.c` | LSS records on disk | save, boot, recover | crash between two writes | allocations survive as they were promised |
| set store | `lors_job.c`, `lors_set_store.c` | jobs, thread results, mappings, the shared depot list | allocate, store, retry, cancel, join | retries with another depot, cancelling siblings, partial success | a mapping in the set holds its block, the code returned is true |
| set copy, refresh, trim, stat | `lors_set_copy.c`, `lors_set_alloc.c`, `lors_set_refresh.c`, `lors_set_stat.c` | the same pool over existing mappings | allocate, copy, manage | partial success | a copy holds what it copied |
| set algebra | `lors_set_trim.c`, `lors_set_merge.c`, `lors_set_query.c`, `lors_set_misc.c` | sets of mappings keyed by offset | add, remove, query, merge, trim | offsets relative to two origins | a mapping's bytes are the file's bytes |
| depot pool | `lors_depotpool.c`, `lors_resolution.c` | depots, scores, candidate and bad lists | next, remove, refill, checkout, release | counts read without the lock | counts equal the lists |
| exnode, serialization | `lors_exnode.c`, `lors_serialize.c`, `src/libexnode` | trees of mappings and metadata | build, print, parse | - | round trip |
| conditioning | `src/libe2e` | none | checksum, encrypt, compress | - | inverse functions |
| tools | `src/cmdtools` | two file buffers; position of a resumed download | upload, download, augment, trim, refresh | double buffering, resume | the file is complete |
| L-Bone | `src/lbone/server`, `src/lbone/client` | LDAP entries | query, register, poll | a thread per request | a directory |
| IBP client library | `ibp_ClientLib.c`, `ibp_ComMod.c` | socket cache | one call per request | time-outs | a request is answered or fails |
| vendored and display code | `src/libxml2`, `src/popt`, `src/zlib`, `src/lbone/nws`, `src/lbone/ecgi`, `src/lbone/cgi`, `src/visual` | | | | |

How they interact: a tool builds an exnode and calls a set operation; the
operation cuts its range into jobs and runs a thread pool over them; each job
calls the IBP client library, which talks to a depot; the depot's main thread
queues the request and one of its threads executes it on the storage; the
candidate depots come from the L-Bone. The models cut this at two seams: the
library sees a depot call as a step that succeeds, fails or meets its deadline,
and the depot sees clients as connections on which requests arrive. Inside the
depot the same seam separates `DepotServer` (which thread serves which request)
from `DepotStorage` (what serving it does to the byte arrays).

The hazards of this code, each at its line and with the properties that watch
it, are the `hazards` of `PROJECT.json`.

## Plan

Ordered by how much of the system's behaviour depends on the part.

1. `OrderedStream`, `LorsDownload`, `MCLorsDownload`, `LorsDownload_proofs`.
2. `RequestService`, `DepotServer`, `MCDepotServer`, `DepotServer_proofs`.
3. `DepotStorage`, `MCDepotStorage`, `DepotStorage_proofs`: with the recovery
   file and the crash.
4. `LorsDepotList`, `LorsStore`, `MCLorsStore`, `LorsStore_proofs`.
5. `LorsMappings`, `LorsMappings_proofs`: query and trim as operators, with their
   lemmas. `LorsFiles`, `MCLorsFiles`, `LorsFiles_proofs`: the tools that rewrite
   an exnode file.
6. `LorsCopy`, `MCLorsCopy`, `LorsCopy_proofs`.
7. `LorsDownloadFile`, `MCLorsDownloadFile`, `LorsDownloadFile_proofs`: the loop
   of the download tool.
8. Left: `lorsSetRefresh`, the request line that arrives in pieces, the L-Bone
   poller.

## The download engine

### `LorsDownload`

One call of `lorsSetRealTimeLoad`. The range is `NBlocks` jobs in ascending
offset; a block is its number. `Workers` run `_lorsWorkThread`, one output
thread runs `_lorsOutputThread`, the caller joins both.

| variable | in the code |
|---|---|
| `status`, `nThreads`, `doneAhead`, `src`, `errCode` | `status`, `n_threads`, `n_done_ahead`, `src` (the mappings still to try) and `err_code` of a `__LorsJob` |
| `slots` | `nthread` of a `LorsDepot` |
| `dstCur`, `numPending`, `preBuf`, `jpStatus` | `dst_cur_point`, `num_pending_jobs`, `pre_buf`, `status` of the `__LorsJobPool` |
| `partial` | a failed `write()` left a part of a block in the output |
| `pc`, `job`, `lm`, `result` | a worker's position, block, mapping and outcome |
| `cancelReq` | a pending `pthread_cancel` |
| `out`, `outRet` | the output thread's position and `ret` |
| `late`, `returned` | the deadline has passed; the call has returned |

A region under `jp->lock` is one action; the code between two regions is a step
of its own wherever other threads could see the difference. So a worker goes
through `Checkout` (one of `TakeSlow`, `TakeNew`, `TakeSpare`, or waiting in
`HoldBack` and `TakeNothing`), `StartLoad`, `EndLoad`, one of the `Commit`
actions, and back. `jp->status` is written by its own steps because the code
writes it without the lock. A `pthread_cond_wait` is a waiting position, a
broadcast (`WakeCond`, `WakeRead`, `WakeOut`) moves the waiting threads on;
there are no spurious wakeups. Cancellation acts at the cancellation points the
code has: inside `IBP_load`, and while waiting on a condition.

Abstracted: the bytes of a block and their conditioning; the proximity that
breaks ties between equally loaded depots (any may be taken); the time of day
(`Expire` may come at any moment); the contents of error codes beyond the class
of the error. `"ONE"` is the integer 1 that a misplaced parenthesis stores.

### `OrderedStream`

What the caller is promised: blocks are fetched in any order, each settled once;
they are delivered in ascending order, none past a lost one; a call that reports
an error has delivered nothing, and nothing happens after the return.
`LorsDownload` implements it under the mapping in `Stream`.

### Runs

| run | instance | shows |
|---|---|---|
| `MCDownloadSafety` | 4 blocks, one of them a hole, 2 workers, 2 depots of which one fails, deadline, failing `write()`, prebuffer 2 | the counts, the single tries, the bookkeeping of the output, no success for a truncated range, the implementation of `OrderedStream` |
| `MCDownloadDelivery` | 3 blocks, 2 workers, mirrored file, one failing depot, one connection per depot, two threads per block, prebuffer 2, cache 1 | the caps; every state has a step, so nobody waits on everybody; the call returns and writes every block |

The model reaches more effects of this code. They are not runs of their own; each
appears when the constants named are set:

- with one worker and a deadline, the output thread's first wait is
  unconditional (`lors_job.c:100`) and misses the broadcast that the worker sends
  when it ends (`1635-1640`): the call never returns;
- with `PreBuf` 2 writing starts with one block, because the test for the end of
  the range takes the first block for the last one (`lors_job.c:142`);
- with one connection per depot the cache grows past its limit: blocks skipped
  for want of a connection count as taken before the cache is tested (`1246`);
- a failed call can return 1 (`jp->status` is `"ONE"`), from a misplaced
  parenthesis;
- with `PreBuf` above `Cache + 1` the worker waits for the output thread and the
  output thread for the worker (`lors_job.c:1206-1215` against `149-161`); with
  `PreBuf` above `NBlocks` the output thread waits for blocks that do not exist
  (line 142);
- a load that meets the deadline keeps its connection slot
  (`lors_set_load.c:492-496`), which is why `SlotAccounting` is an inequality
  once the deadline has passed.

`MCDownloadSafety` switches the deadlock check off because the hangs are
reachable there.

Bounds: three blocks are the fewest with a block before and one after another,
so that the output can be ahead of, at and behind a fetched block, and a fourth
is the hole; two workers fetch one block redundantly; two depots let one fail
while the other serves, or one be full while the other is free. The counters
need no bound: the threads and blocks bound them.

### Fairness

`FairSpec`: each worker, the output thread and the caller go on when they can,
and time passes. The code justifies it: these are system-scope POSIX threads
that hold `jp->lock` only for loops over the job list, and `IBP_load` has a
client time-out. A thread that waits on a condition is *not* helped by
fairness; it needs its broadcast.

## The depot's request service

### `DepotServer`

One depot process. The main thread accepts connections, reads requests from
those in its list, queues them in one of two levels (0: status and manage calls,
1: transfers), and gets the connections of finished requests back through a
pipe. Threads of an elastic pool take requests; one more thread
(`handle_status_thread`) takes only level 0.

| variable | in the code |
|---|---|
| `open`, `cList` | sockets that are open; the `IBP_CONN_LIST` main waits on |
| `queue`, `pipe` | `IBP_REQUESTS_QUEUE` with its two sub-queues; `glbWrtPipe`/`glbRdPipe` |
| `prio`, `failed` | `priority` and a status other than success of an `IBP_REQUEST` |
| `role`, `tpc`, `held` | per thread handle: free, worker or status thread; position; request |
| `idle`, `thdNum` | the counters of `IBP_THREAD_POOL` |
| `main`, `num`, `shutdown` | main's position, `num` of `append_request`, `glbDepotShutdown` |

A connection, its `IBP_CONNECTION` and its `IBP_REQUEST` are one element of
`Conns`: they are created together, handed on together and freed together. The
queue lock and the pool lock are different, so `append_request` is three steps
(`Enqueue`, `Signal`, `Grow`), and a worker's `inc_idle_thread`, `get_request`
and `dec_idle_thread` are separate steps with time-outs in between. The idle
time-out (`TimeOut`) may come at any moment of a wait. `pthread_cond_signal`
wakes any one waiting thread (`Signalled`), worker or status thread alike.

Abstracted: the order in which one round of main visits its connections (any
order); the pieces in which a line arrives (a request is complete or not);
the request itself (`Finish` with success or failure); a full connection list
and a failing `pthread_create`. If `ThreadNum >= MaxThreads` there is no status
thread, as in the code. `clean_up` may end at any moment, with or without the
threads.

### `RequestService`

The cycle of a connection as the client sees it: reading, waiting, serving,
replied or failed, then reading again or closed. `DepotServer` implements it
under the mapping in `Service`: in particular no request is served twice, none
disappears from the queue, and a connection is never closed while it is queued
or served.

### Runs

| run | instance | shows |
|---|---|---|
| `MCDepotSafety` | 2 connections that send both levels, 3 handles (status thread, one worker, room for one), queue of 1, shutdown | one owner per connection, exact pool counters, nobody sleeps beside a request it could take, the implementation of `RequestService`, no deadlock |
| `MCDepotServed` | 3 connections, one with status requests and two with transfers that may never end; the pool is full with one worker beside the status thread | every status request is served although the worker is stuck; every transfer is served when the status requests cease and the transfers in service end |

Bounds: a request, a second one that makes the queue full or overtakes, and
one or two threads beside the status thread are enough for a wakeup to reach the
wrong thread, for a wait to time out while a request arrives, and for the pool to
be at its maximum. No worker leaves after a time-out in these runs (it does so only
beside more idle workers than `MinIdle`, which takes a third one); the theorems have
pools of any size. `GrowBy` is 1 instead of 5 and `MinIdle` 0 or 1 instead of 4:
the code uses the numbers only in comparisons and loops, and the small values
reach the boundary with few threads. `AllServed` supposes that the
status requests cease, because workers prefer level 0 without limit and the code
promises transfers nothing while status requests keep coming, and that a transfer
in service ends, because the only worker may hold it.

### Fairness

`FairSpec`: pool threads and main go on when they can, serving a request ends
(except that of a stalling connection). Nothing is asked of the clients, and
the idle time-out is not relied on: a lost wakeup would not be repaired by it.

## The store

### `LorsDepotList`

The list of depots that the workers of one store share, with its lock, and the
pool that refills it (`lors_depotpool.c`). `list`, `badList`, `count` are the
fields of a `LorsDepotList`; `locked` and `poolLocked` its lock and the pool's.
A depot is a host: the code compares host names only.

`lorsAddDepot` has a lock call that is never reached (it is the body of two tests
for a null pointer) and an unlock call that always is. Under the lock an
operation would be one action. Since this one runs without it, the operations it
can meet are cut where the list is inconsistent: `TakeFirst`/`PutLast`
(`lorsGetNextDepot`), `Unlink`/`MarkBad` (`lorsRemoveDepot`), and one step for
each depot of the pool that a refill looks at and one for each it inserts. An
unlock by a thread that does not hold the lock releases it, as the default mutex
does. A thread that takes the first of no nodes uses the list head as a depot:
`TakesGarbage`, after which the process is gone.

### `LorsStore`

One call of `lorsSetStore`. A job is a block and the mapping that will name its
array. `Condition` is the first pool (checksums, encryption) in one step: it
succeeds or the call fails before anything is stored. Then the main thread
creates the workers one by one; they may run before all exist, and
`tp->nthread` is set after the last one, so `_lorsKillWorkerThreads` cancels
nobody before (`Killable`). A worker takes a job (`GetJob`), and in
`_lorsDoCreateStore` a depot (`NextDepot`, `Rotate`), allocates, stores and
commits, or retries: after a failed allocation without the depot and with a
refilled list (`RemoveDepot` to `TryAgain`), after a failed store on the next
depot. The main thread joins, adds the mappings of the committed jobs and returns
(`Return`).

| variable | in the code |
|---|---|
| `status`, `array` | `job->status`; the array that `lm->capset` names and what is in it |
| `main`, `mappings`, `ret` | where `lorsSetStore` is, the mappings it added, its result |
| `pc`, `job`, `result` | position, `tinfo->job` and `tinfo->err_code` of a worker |
| `hand`, `tried` | `ldepot` and `tried` of `_lorsDoCreateStore` |
| `wanted`, `at`, `added` | `count`, the pool position and `sub_count` of a refill |
| `time` | the time left: each worker measures from its own start, so it may be over for some and not for others (`ending`) |
| `cancelReq` | a pending `pthread_cancel` |

`IBP_allocate` and `IBP_store` are external: the depot did it, or the caller gets
an error (in the case of a store, with the data there or not). `IBP_store`
returns 0 or the whole length, so the loop around it runs once. Left out:
conditioning, error codes of IBP, failing `calloc` and `pthread_create`, proxy
allocation, demonstration output. `copies` is 1 in every tool; the model allows
more jobs per block, but not the double `free` of their shared buffer.

| run | instance | shows |
|---|---|---|
| `MCStoreSafety` | 2 blocks, 2 workers, 2 depots that may fail, one retry; with and without the retry option and the deadline | no job has two workers or is forgotten, no mapping without its data, the result is true, a call with a deadline returns |

The lock that `lorsAddDepot` never takes (`lors_depotpool.c:83-85`, released at
108) has two effects that the model reaches: a list may hold a depot twice, since
two refills look at the same pool entry, and a thread that meets the emptied list
crashes. `MCStoreSafety` covers both. With the deadline but
without an answer from the depots (all flaky) the call still returns; without a
deadline and with retries it may go on for ever, which is why `Returns` speaks of
calls with a deadline. Two workers and two depots are the fewest with one worker
in the list and another one refilling it, or one cancelling the other; `MaxTried`
is 1 instead of 4, since the code only compares it.

`FairSpec`: the main thread and each worker go on when they can (locks are held
for a few instructions, calls to IBP have a client time-out), and time passes.
The time-out has a gap: with one second left it is computed as 0
(`lors_set_store.c:611`), which means none (`ibp_ComMod.c:242`). `Returns` is
then right only if the depot answers or closes the connection. `Returns` also
takes the crash of a thread for an end of the call.

## The depot's storage

### `DepotStorage`

The byte arrays of one disk resource and the threads that serve requests on
them: `handle_allocate`, `handle_store`, `handle_load` and the sending side of a
copy, and `IBP_INCR`, `IBP_DECR` and `IBP_CHNG` of `handle_manage`. With them,
the file of records (`ibp.lss`, `SaveInfo2LSS`), a crash, and `recover()`, which
reads the old file record by record while the depot already answers.

| variable | in the code |
|---|---|
| `phase` | the depot is up, down, booting or recovering; `"undefined"` after memory was used that was freed, or a record was written at a negative position |
| `mem`, `file` | a byte array's memory, the existence of its file |
| `size`, `refs`, `ends`, `reference`, `deleted`, `wl`, `index` | `maxSize`, `readRefCount`, `attrib.duration`, `reference`, `deleted`, `wl`, `BackupIndex` of an `IBP_byteArray` |
| `used`, `next` | `StableStorageUsed` and `NextIndexNumber` of the resource |
| `lss`, `old` | the records; the file that `recover()` still has to read |
| `known` | the arrays whose capabilities a client holds |
| `pc`, `op`, `arr`, `tmp`, `inc` | a thread's position, request, array and locals |
| `needed`, `alloc`, `woken` | `thread_glb.StorageNeeded`; `alloc_lock` is locked; the threads that a signal has let go and that have not gone on |
| `untested` | observed: what signals let in without a test since a test last granted more room |
| `lost`, `kept`, `dirty` | observed: arrays that were freed; arrays the next recovery owes its clients; arrays with more data than their record |

Each critical section of the code is one action and each region outside one is
another: the test of the room that is left (`CheckSize`, without a lock) and the addition
of the size (`Insert`) are two steps, and others come between them; the answer goes to the client before the array has
its record number and its record, so a client's next request may find
`BackupIndex` 0; a failed write of the record sets it to -1. A writer polls `wl`
(`writeLock`), and the last user of a deleted array frees it. `reference--` and
the test of `deleted` run without a lock (`ibp_handle.c:244`, `310`, `352`,
`ibp_manage.c:63`): a thread can look at an array that another one has just
freed. That leads to the phase `"undefined"`, as the outcome is the build's.

The model also keeps what the code forgets: the load path rewrites the record
but never frees the array when it is the last user (`ibp_handle.c:311-315`);
`wl` stays 1 when a deleted array is not yet to be freed; a request refused
during recovery, and a manage call that does not pass `enableAlloc`
(`ibp_manage.c:423-428`), leak a reference; a `DECR` that leaves references and a
deferred deletion are not saved.

An allocation that finds no room waits for it (the server sync,
`ibp_server_lib.c:876-915`). One thread at a time waits on `Cond`, with its size
in `StorageNeeded`; those that come meanwhile wait on `Protect` until it has done
(`Full`, `BeginWait`, `Claim`). Each array that is removed signals `Cond` if the
room left seems enough (`LetGo`, line 329), and a thread that leaves
`handle_allocate` or gives `StorageNeeded` up signals `Protect` (`EndNeed`,
`Leave`). A wait may end by its time (`TimeOut`) at any moment, as the client
chooses `ServerSync`, and then the test is made again (`Retest`). After a signal it
is not: the thread takes the room (`EndWait`, line 910). Four things follow:

- the limit of the stable space can be passed by one allocating thread alone: the
  signal compares with `VolStorage`, the limit for all allocations, where
  `check_size` compares with `StableStorage`, and others may have taken the room
  in between. The `untested` part of `OvershootBounded` is just this;
- the comparison is one of unsigned numbers: once more than `VolStorage` is used
  (after a resize, or an allocation of the kind above), every removal signals
  (`EnoughIn`);
- `StorageNeeded` is set and tested without a lock, so a signal can come too early
  and be lost: the allocation then waits for all of its time, and tests again;
- `pthread_cond_timedwait` returns with `alloc_lock` locked, and no line unlocks
  it: it is unlocked when the next thread begins to wait. If two waits end and
  no thread begins one, the second thread stays in the call, past `ServerSync` and
  for ever. The model has this (`alloc`); no property is about it, since no
  fairness helps.

Abstracted: `readLock` and `writeLock` follow from the threads' positions; one
save of a record is atomic; key generation gives a fresh name, so names are
interchangeable and `MCDepotStorage` may use symmetry; the clock stands still from the crash to
the end of the recovery. A crash inside `recover()` loses the records not yet
copied: `CrashInRecovery` turns it on, and the runs leave it off, because with it
`Durable` fails for that reason alone. Of the server sync: sizes are below 2^31 (`StorageNeeded` is
an `int`); no wait ends without a signal or a time-out; `thread_glb.Waiting` is the
number of threads that wait; setting `StorageNeeded` to 0 and the signal after it
are one step; `LetGo` allows for any order in which the arrays of one truncation are
removed, and a few more outcomes; the unlock of an unlocked `alloc_lock`, which the standard
leaves undefined, does nothing, as in glibc. Left out: the free space of the disk
that `check_size` also looks at, volatile arrays and their
eviction, FIFOs, buffers and queues, RAM and ULFS resources, and the growth of
`maxSize` to the size of the file at recovery.

| run | instance | shows |
|---|---|---|
| `MCDepotStorage` | 2 arrays, 2 threads that both allocate and of which one resizes, 5 requests, one crash, lifetimes that end | the space charged is exact, the limit is passed by one growth per racing thread and by untested grants at most, one writer at a time, a set flag has an owner, no freed array comes back, recovery keeps what it owes |
| `MCDepotStorageRecords` | two threads that allocate | expected violation: record numbers taken in one order, records appended in the other; a deletion invalidates the other array's record |

In both runs one thread at most resizes. `IBP_CHNG` computes the growth before it
takes `change_lock` and adds it under the lock (`ibp_manage.c:195`, `226-228`), so
two of them on one array both add what each saw: with `"chng"` among the requests of
both threads `SpaceAccounted` fails, and the space stays charged until the depot is
restarted.

`MCDepotStorage` has the symmetry of the arrays' names and the action constraint
`CrashInOrder`: the crash comes when every record number names its own
array's record. The other crashes are those of `MCDepotStorageRecords`, where
`Durable` fails.

Bounds: a race needs two threads, and an array beside the one they race on shows
whether the account mixes them up. Five requests are enough for an allocation
of each, a deletion, a resize and a transfer under it; the crash may come after
any step, and requests run during the recovery. `VolStorage` is above
`StableStorage`, so that a request that passes the one and not the other makes
the depot remove what has expired and test again. Two threads that allocate reach
the wait of one of them, the signal of the other, and both waits at a time; but
with two growing threads and room for two units the `untested` part of the bound
is never needed on top of the rest. It is with one thread that allocates, another
that only deletes (`{"decr"}`), `StableStorage = 2`, `VolStorage = 4`, three arrays,
sizes 1 and 2 and four requests (14 443 states): TLC finds `used <= StableStorage` violated and `OvershootBounded` kept. The theorem
`OvershootIsBounded` covers both. No liveness is stated: the
requests are finite and a writer that polls may poll for ever by the code's
design.

## The exnode file and the tools that rewrite it

### `LorsMappings`

A mapping is `[array, off, len, at]`: the array that holds it, the file range it
stands for and where it begins in the array (the capset, `exnode_offset`,
`logical_length`, `alloc_offset`). `lorsQuery`, the longest covered length and the three
cuts of `_lorsDoTrim` (front, back, middle, or the whole mapping) are operators.
The module has no recursion, so they can be proved about.

### `LorsFiles`

`lors_upload`, `lors_trim` and the update of a range, one after the other on one
exnode file. The upload has a reader thread that fills one buffer while the other
is stored. An update reads the exnode, stores the new blocks, cuts the old ones
and writes the exnode back; `lors_trim` asks the depots (`lorsSetStat`) and drops
what is dead or in the range, deleting arrays if told to.

| variable | in the code |
|---|---|
| `file`, `torn` | the exnode file; it is open and not yet written |
| `arrays`, `alive` | what was stored in each array; the arrays that still exist |
| `tool`, `pc`, `exnode`, `set`, `maxlen` | the running tool, its exnode and set |
| `fpos`, `buf`, `fileJob` | position in the input, the two buffers, the reader's job |
| `ret`, `cur`, `range`, `jobs`, `new`, `todo`, `kept`, `opts`, `dead` | locals of the operations: bytes read and their buffer, blocks to store, mappings to trim, options, mappings that did not answer |
| `want`, `gone`, `doomed`, `excused` | observed: the version a byte should have, what was or will be trimmed, arrays that a trim was told to delete |

A file byte's value is the version that wrote it, so `DataTrue` can tell an old
byte from a new one. A store of a set is one step per block (`LorsStore` has its
inside); arrays have one reference; copies beyond the first are left to
`LorsCopy`. A kill may come anywhere (`Crash`), which also stands for the
`assert` of `lorsSetTrim` (`lors_set_trim.c:148`).

Facts about the code that the model shows or meets: a serialization truncates
the file in place, so a kill in between loses the exnode (`torn`); an error return
of the upload while the reader still runs lets it write into a popped stack frame
(`"undefined"`); after a cut in the middle both halves share one array, so a
deletion of one takes the other with it (`excused`); a `lors_trim -d` killed after
the deletions and before the write leaves an exnode that names what it deleted, and
`NamedAlive` excuses just these arrays; `lors_trim -u` takes a depot
that did not answer for dead. Not modelled: upload's `-L` (it is ignored: the
upload reads to the end of the file), two tools at a time on one file (nothing in
the code excludes it, and the second write wins), and
`lors_refresh`, `lors_augment` and `lors_modify`.

| run | instance | shows |
|---|---|---|
| `MCFiles` | 7 bytes, buffers of 6, blocks of 3; two updates, one trim, one failure and one kill anywhere | a finished file covers every byte once, with the version due, in arrays that nobody has deleted |
| `MCFilesTrimTwice` | two updates, nothing fails | expected violation: the second cut at the front of a mapping assigns the array offset that it should add to |

Bounds: a part of two blocks and a last, short one; short reads (`Reads`) end a
buffer in the middle; two updates are the fewest with a trimmed mapping trimmed
again. The mappings' addresses are checked apart from the rest (`MappingsTrue`)
since they do go wrong. No fairness: the tools are sequential programs but for
the reader, which the tool joins.

## The download tool

### `LorsDownloadFile`

`lorsDownloadFile`: the tool opens its output, perhaps to go on with what an
earlier run left (`--resume`), and calls `lorsSetRealTimeLoad` for what is left
until it has counted all of the bytes.

| variable | in the code |
|---|---|
| `exnode`, `arg` | the exnode's mappings; the arguments `offset` and `mlength` |
| `out`, `created` | the output file and whether it exists |
| `pc`, `end` | the tool's position; how the last run ended |
| `offset`, `length`, `written` | the locals of the same names |
| `cur` | `dst_cur_point` of the running call |
| `runs`, `failures`, `kills` | counters for the bounds |
| `misread`, `misplaced` | observed: a failed call was counted as a byte; a run was resumed that had an offset |

A byte of the output is the offset of the file byte it should be, or `Stale`. A
call is what `LorsDownload` has been proved to do (`OrderedStream`), with bytes
for blocks: the pieces of the range (`Node`: up to the end of a block and to the
next start or end of a mapping) are written in order, from any replica, up to one
that is lost; a `write()` may fail inside a piece; the call returns the bytes
written or, if none, an error (`ReturnError`) or the 1 of the misplaced
parenthesis (`ReturnOne`, when other blocks were waiting for the output). A kill
may come at any step and inside a `write()`.

| run | instance | shows |
|---|---|---|
| `MCDownloadFile` | 6 bytes, blocks of 2; two arrays of which one lost its front, replicas that overlap, or a hole; five ranges; 3 runs, 2 failures, 2 kills | unless one of the two things below happened, the output is at every moment a piece of the file from the offset asked for, and "End Success" means that all of it is there |

What the two exemptions hide is in the model, too: without them TLC finds both
properties violated. A failed call that returns 1 is counted as one byte
(`lors_file.c:1012-1020`), and the next call starts one byte further, so the
output is shifted and may end in success. A run with an offset that is resumed
takes the size of the output as the place in the file (`944`), and not the
offset plus the size. Also, an offset without a length asks for bytes
beyond the end (`894-900`): the tool writes the rest of the file and then fails.

Bounds: a node, a block and the range have three different lengths; the third run
can resume a resumed run; two failures let a call fail at its beginning after one
that failed in the middle. No fairness: the tool is sequential, and its calls
return by `Returns`. Neither exemption has a run that shows the violation.

## The copy

### `LorsCopy`

One call of `lorsSetCopy` with `LORS_COPY`: a first pool of threads allocates an
array for each block and copy (`_lorsDoCreate`, with the depot list and its
retries), a second pool copies into it, part by part (`_lorsDoCopyNE`). Parts are
the pieces of a block between the boundaries of the source mappings (`Cuts`);
each has several sources that are tried in turn.

| variable | in the code |
|---|---|
| `sources`, `deadline` | the source mappings that hold a byte; whether there is a timeout |
| `listed`, `bad` | the depot list, as a set: the steps of its operations are in `LorsDepotList` |
| `main`, `ret` | where the caller is, and what it returns |
| `status`, `code` | `status` and `err_code` of a job |
| `created`, `data` | the allocated array, and which bytes of it hold the source's data |
| `pc`, `job`, `result` | a worker's position, job and code |
| `hand`, `tried` | the depot and the retries of `_lorsDoCreate` |
| `from`, `source`, `done` | where the part begins, its source, what is copied |
| `time`, `mappings` | the time left; the destination set |

`IBP_allocate` and `IBP_copy` are external; a failed `IBP_copy` may leave some of
the data. The lock of a `dl_node` follows from the positions; the deadlock check
would find one that is never released. `CopyTrue` rests on the exact length of
an allocation and on the depot's refusal of a store without room
(`DepotStorage`). Facts the model shows: `_lorsDoCreate` commits success without
a capset when there is no depot at its first try, and the `assert` of
`lors_set_copy.c:1398` ends the process then (`main = "aborted"`); a timeout
between the pools (`1920-1924`) returns with every mapping still in the set and
nothing in its array; the arrays of a failed call are never freed. Not modelled:
`LORS_MCOPY` (`handle_mcopy` always answers "OK 100"), conditioned blocks,
`LORS_BALANCE`, failing `calloc` and `pthread_create`, proxies.

| run | instance | shows |
|---|---|---|
| `MCCopy` | 3 bytes in a block of two parts and a shorter one, 2 copies, 2 workers, 3 depots of which two fail, 0 to 2 sources a byte, with and without a deadline | what is reported copied is the source's data; an error leaves no data behind; nobody waits on everybody |
| `MCCopySuccess` | one worker, its first copy fails | expected violation: the second block's job was never begun and its code is success, which the call returns |

Bounds: a block of two parts and another that shares a source node with it are
the fewest for two workers to meet at a node lock; `MaxTried` is 1 instead of 4,
since the code only compares it. No fairness and no liveness: without a deadline
a call may retry for ever.

## Proofs

Every safety invariant that the passing runs check is also a theorem, for all
values of the constants that satisfy the module's named assumption
(`CallAssumption`, `DepotAssumption`, ...). Each model has one inductive
invariant, and the theorems of its properties follow from it; the theorems below
without a property state that invariant. Each of its conjuncts has a lemma that
says every step preserves it, with one step per action, or per group of actions
that do the same to what the conjunct speaks of.

### `LorsDownload_proofs`

| theorem | property |
|---|---|
| `TypeCorrect` | `TypeOK`; counters never go below zero (the code's `assert`s) |
| `ThreadsAccounted` | `ThreadAccounting` |
| `SlotsAccounted` | `SlotAccounting` |
| `GivenUpExhausted` | `FailedExhausted` |
| `BooksBalance` | `OutputBookkeeping` |
| `NoTruncation` | `NoSilentTruncation` |
| `TriedOnce` | `ReplicaTriedOnce` |
| `CapsHold` | `ThreadCaps` |
| `DownloadImplementsStream` | `ImplementsStream` |

The argument is one inductive invariant, `IInv`. None of the properties is
inductive alone. `ThreadAccounting` needs to know which workers hold a block at
which position (`WorkerShape`), since a decrement happens in a later step than
the load that ends; `SlotAccounting` needs that a mapping in use has been taken
from its block (`MappingsInUse`); the output's bookkeeping needs the positions
of the output thread and that a returned call has no thread left
(`OutputShape`); and that an exhausted block always carries an error code
(`FailedHasCode`) is what keeps a lost block from turning into a success. The actions are grouped
by what they do to the counts (taking a block, idling, releasing, committing,
output, the rest; `StepCases`), so that facts about a group are stated once.
`CapsHold` has a second invariant, `CapInv`, on top of `IInv`. The refinement
theorem maps each action to an action of `OrderedStream` or to a stutter.

### `DepotServer_proofs`

| theorem | property |
|---|---|
| `DepotInvariant` | |
| `DepotTypeOK` | `TypeOK`; `idle` and `thdNum` never go below zero |
| `ConnectionsHaveOneOwner` | `OneOwner` |
| `PoolCountersAreRight` | `PoolAccounting` |
| `NoLostWakeup` | `WorkConserving` |
| `DepotImplementsService` | `ImplementsService` |

To the four properties the invariant adds `Shape`: at which positions a thread
holds a request, and that failed requests are on their way back to main. The
counters are cardinalities of sets of threads at certain positions; each step
changes them by one or not at all (`CountsKept`, `ExpandCounts`). `WorkConserving`
is inductive since main signals after each request it puts in the queue, and a
thread begins to wait in the critical section in which it found nothing for it.
The refinement maps each step to one of `RequestService` for one connection, or to a
stutter.

### `DepotStorage_proofs`

| theorem | property | hypothesis |
|---|---|---|
| `StorageInvariant` | | |
| `StorageTypeOK` | `TypeOK` | |
| `StoresExclude` | `OneWriter` | |
| `FlagsHaveOwners` | `FlagHasOwner` | |
| `FreedStaysFreed` | `NoResurrection` | |
| `SpaceIsAccounted` | `SpaceAccounted` | `SingleResizer`: one thread at most resizes |
| `OvershootIsBounded` | `OvershootBounded` | `Growers # {}`: some thread can take room |
| `RecoveryIsDurable` | `Durable` | `SingleAllocator`: one thread at most allocates; no crash inside `recover()` |

The first five need what each phase of the depot leaves at rest (`Phased`), that a
thread's array has been made (`Held`), who writes and whose flag is set
(`OneStore`, `FlagOwned`), that an array leaves the tree together with its file
and for good (`Gone`), and that no array has two records, in the new file and the
rest of the old one, so that none is restored twice (`RecordedOnce`). The hypotheses of the
others are what the code breaks, each in a way the model shows: two resizers
(above), two allocators (`MCDepotStorageRecords`), a `recover()` that reads the
file it has truncated. All threads may still do everything else at once. Under them,
`SpaceIsAccounted` carries the growth that a resizing thread has in hand
(`Resized`); `OvershootIsBounded` the room every thread has tested for and not
yet taken (`Promised`): a thread tests against what is used, so the sum of the
promises passes the limit by those of the other threads at most. A thread that a
signal let go promises without a test, which `untested` counts; a test that grants
more room finds all that is used below the limit, whatever was let in before, so
the count starts again from there;
`RecoveryIsDurable` that record numbers and places in `ibp.lss` agree
(`Numbered`, `Indexed`) and that a record says no less than was promised
(`Truthful`, `Promise`).

Sizes are summed over a set of arrays or threads (`Total`). What such a sum does
when one summand changes is usually shown by induction on the set; here it is
shown by a least counterexample (`LeastSet`): of the subsets for which the claim
fails take one with no smaller such subset, and remove one element.

### `LorsStore_proofs`

| theorem | property |
|---|---|
| `StoreInvariant` | |
| `StoreTypeOK` | `TypeOK` |
| `BlocksHaveOneWorker` | `OneWorkerPerJob` |
| `MappingsHaveTheirBlock` | `MappingsFull` |
| `StoreReturnsTruth` | `ReturnsTruth` |

The invariant adds the shape of a worker's position, job and code (`Shape`) and
what is behind a result (`Results`): a committed job has its block in its array,
whatever was tried before, and a worker that ends with success has left no job
that nobody took. So the loop after the join, which looks only at the
threads' codes and the jobs' states, sees the truth.

### `LorsCopy_proofs`

| theorem | property |
|---|---|
| `CopyInvariant` | |
| `CopyTypeOK` | `TypeOK` |
| `CopiesAreTrue` | `CopyTrue` |
| `ErrorsLeaveNothing` | `NothingOnError` |

A failed `IBP_copy` may have appended a part of the data, and the next source is
then tried on top. The key is `Reached`, in `Written`: an array never has less
than the copy position, and if it has no more, its bytes are the source's.
The depot takes a part only if it fits, and the array has exactly the length of
the block, so a part left behind by a failure makes the array too full to be
completed, and the job fails: nothing false can be committed. `Ended` says what each
stage of the call has left of jobs and mappings. That the code returned is
success only if all was copied is false (`MCCopySuccess`).

### `LorsFiles_proofs`

| theorem | property |
|---|---|
| `FilesInvariant` | |
| `FilesTypeOK` | `TypeOK` |
| `FilesAreWhole` | `FileWhole` |
| `DataIsTrue` | `DataTrue` |
| `NamedStayAlive` | `NamedAlive` |

The idea of the invariant is `Tiles`: a set of mappings covers a set of bytes, each
once. A finished file tiles the input less what was trimmed, and its mappings hold
the bytes' versions (`Sound`, `Versions`). While a tool runs, the same is said of
what it has in hand. In an upload, the mappings stored tile
the bytes before the part in hand, the blocks still to store tile that part,
and the reader's part begins where it ends, whichever buffer each is in and however
short the reads were. In an update, the exnode, the mappings that were cut already and those
still to be cut, taken together and outside the range, hold what the file holds. In
`lors_trim`, the mappings that stay do not change whatever is cut or fails
around them (`Staying`), and an array is deleted only if it is `doomed`. One
conjunct belongs to each tool (`UploadInv` with `ReaderInv` and `PartInv`,
`UpdateInv` with `NewInv`, `TrimInv`, `WriteInv`), and says nothing while another
one runs; `Untouched` says that the file on disk is still the old one until it is
opened for writing, so that a kill before loses nothing. The lemmas on cuts are
those of `LorsMappings_proofs`.

### `LorsDownloadFile_proofs`

| theorem | property |
|---|---|
| `DownloadFileInvariant` | |
| `DownloadFileTypeOK` | `TypeOK` |
| `OutputIsTrue` | `OutputTrue` |
| `SuccessIsWhole` | `SuccessWhole` |

`CallShape` says that a call is made for a range that is not empty and stays in
it. `Progress` says that the length of the output is how far the tool has come:
the next byte goes where the output ends, whatever was killed or failed before. It
speaks of runs without one of the two faults observed (`misread`, `misplaced`),
which is what the properties except.

### `LorsMappings_proofs`

This module is about the operators of `LorsMappings`, for every set of
mappings and every range:

| theorem | says |
|---|---|
| `TrimCover` | what `lorsSetTrim` leaves covers exactly the bytes that were covered and are not in the range |
| `TrimType` | it leaves only well-formed mappings, with arrays that were in the set |
| `FirstCutAddress` | the first cut of a mapping leaves every remaining byte at its place in the array; a second one need not (`MCFilesTrimTwice`) |
| `MaxlengthIsLast` | no byte that a mapping holds is behind the length of the exnode |
| `NodeSound` | a node of a download is not empty, stays in the range, and all of its bytes have the same replicas |

They rest on two lemmas: one mapping's cut covers what the mapping covered less
the range (`CutCover`), and a mapping that the query does not return has no byte
in the range (`UnqueriedDisjoint`). `NodeSound` rests on the least element of a
set of lengths (`ShortestIsLeast`), which exists since < is well-founded on the
naturals, and on every next start or end of a mapping being in front
(`BoundsPositive`).

## What is only model-checked

Liveness (`Returns` of the download and of the store, `Delivers`, `StatusServed`,
`AllServed`) and the absence of deadlock need fairness or `ENABLED`, which are out
of the prover's reach. Three statements are false and have a run that shows it
(`MCDepotStorageRecords`, `MCFilesTrimTwice`, `MCCopySuccess`); what holds
instead is `RecoveryIsDurable`, `FirstCutAddress` and `CopiesAreTrue`. That the
pieces fit together (that a call of the download tool does what `OrderedStream`
says, a store of a block what `LorsStore` shows) is by the same words in both
modules, not by a theorem.

## What is not modelled

`PROJECT.json` lists the parts under `components`, each with what is left out of
it. Planned: `lorsSetRefresh` and the L-Bone
server. Left out for good: conditioning (`libe2e`), compression and encryption,
which are pure functions on blocks; parsing and printing of XML and of request
lines' formats; the IBP client library, whose calls are the external steps of
the models; the socket loops of depot transfers; libxml2, popt, zlib, the Network
Weather Service and ecgi, which are third-party code and most of the lines of the
repository; the visualisation and the web front ends.
