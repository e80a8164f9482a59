----------------------------- MODULE LorsFiles ------------------------------
(***************************************************************************)
(* An exnode file and the tools that work on it (cmdtools/lors_file.c):    *)
(*   - lors_upload: a thread reads the next part of the input into one     *)
(*     buffer while the last part is stored from the other; a part that is *)
(*     stored only partly is trimmed away and stored again;                *)
(*   - a program that changes a range with lorsSetUpdate: it takes the     *)
(*     mappings of the range out of the exnode, stores the new bytes, cuts *)
(*     the range out of the old mappings, and merges the two;              *)
(*   - lors_trim: all or some segments, with or without a DECR of their    *)
(*     arrays, or those that are unavailable.                              *)
(* One tool runs at a time, may be killed at any step, and starts from     *)
(* what the file and the depots hold.  lorsSetStore is its outcome for     *)
(* every block (its threads are in LorsStore), with one copy of each.      *)
(***************************************************************************)
EXTENDS LorsMappings, Sequences

CONSTANTS
    FileLen,        \* bytes of the input file
    BufSize,        \* size of the two buffers, a multiple of the block size
    BlockSize,      \* data_blocksize
    Reads,          \* what read() may return
    Ranges,         \* the ranges <<off, len>> that are changed
    MaxUpdates, MaxTrims,
    MaxFailures,    \* bound: stores, depots and reads that fail
    MaxCrashes      \* bound: tools that are killed

ASSUME FilesAssumption ==
    /\ {FileLen, BufSize, BlockSize} \subseteq Nat \ {0}
    /\ BufSize % BlockSize = 0
    /\ Reads \subseteq Nat \ {0}
    /\ \A r \in Ranges : r[1] \in Nat /\ r[2] \in Nat \ {0} /\ r[1] + r[2] <= FileLen
    /\ {MaxUpdates, MaxTrims, MaxFailures, MaxCrashes} \subseteq Nat

Bytes == 0 .. FileLen - 1
NoByte == -1                    \* what calloc left in the buffer
Tools == {"none", "upload", "update", "trim"}
Pcs == {"idle", "first", "loop", "store", "stat", "trim", "refill", "join", "write",
        "left", "undefined"}

VARIABLES
    file, torn,     \* the mappings of the exnode file ({}: no file); it is half written
    arrays, alive,  \* what was stored, in order; the arrays that still exist
    tool, pc,
    exnode, set, maxlen,    \* the exnode and the set of the tool
    fpos, buf,              \* read position of the input; the two buffers
    fileJob,                \* [buf, n, status, reading] of the reader
    ret, cur,               \* bytes of the part in hand, and its buffer
    range,                  \* the range of the store and of the trim
    jobs, new, todo, kept,  \* blocks to store, mappings stored; mappings to trim, trimmed
    opts, dead,             \* LORS_TRIM_...; mappings found unavailable
    version, trims, failures, crashes,
    want, gone, doomed,     \* observed: version due at a byte; bytes that were, and
    excused                 \* will be, trimmed; arrays that may be deleted or lost

disk    == <<file, torn>>
depots  == <<arrays, alive>>
mem     == <<exnode, set, maxlen>>
reader  == <<fpos, buf, fileJob>>
call    == <<ret, cur, range, jobs, new, todo, kept, opts, dead>>
counts  == <<version, trims, failures, crashes>>
seen    == <<want, gone, doomed, excused>>
vars == <<disk, depots, tool, pc, mem, reader, call, counts, seen>>

NoRange == [off |-> 0, len |-> 0]
NoJob == [buf |-> 0, n |-> 0, status |-> "success", reading |-> FALSE]
Empty == [b \in {0, 1} |-> [i \in 0 .. BufSize - 1 |-> NoByte]]

Init ==
    /\ file = {} /\ torn = FALSE /\ arrays = << >> /\ alive = {}
    /\ tool = "none" /\ pc = "idle"
    /\ exnode = {} /\ set = {} /\ maxlen = 0
    /\ fpos = 0 /\ buf = Empty /\ fileJob = NoJob
    /\ ret = 0 /\ cur = 0 /\ range = NoRange
    /\ jobs = {} /\ new = {} /\ todo = {} /\ kept = {} /\ opts = {} /\ dead = {}
    /\ version = 0 /\ trims = 0 /\ failures = 0 /\ crashes = 0
    /\ want = [p \in Bytes |-> 0] /\ gone = {} /\ doomed = {} /\ excused = {}

Fails == failures < MaxFailures /\ failures' = failures + 1

\* The tool's process is gone, and with it all it had in memory.
Exit ==
    /\ tool' = "none" /\ pc' = "idle" /\ exnode' = {} /\ set' = {} /\ maxlen' = 0
    /\ fpos' = 0 /\ buf' = Empty /\ fileJob' = NoJob /\ ret' = 0 /\ cur' = 0
    /\ range' = NoRange /\ jobs' = {} /\ new' = {} /\ todo' = {} /\ kept' = {}
    /\ opts' = {} /\ dead' = {}

\* The tool's function returns, perhaps while its reader still runs.
Return ==
    IF fileJob.reading THEN pc' = "left" /\ UNCHANGED <<tool, mem, reader, call>>
    ELSE Exit

-----------------------------------------------------------------------------
(* lorsReadFile                                                            *)

Read(j, n) ==
    /\ buf' = [buf EXCEPT ![j.buf] =
                  [i \in 0 .. BufSize - 1 |->
                      IF i \in j.n .. j.n + n - 1 THEN fpos + i - j.n ELSE @[i]]]
    /\ fpos' = fpos + n

ReadSome ==
    /\ fileJob.reading
    /\ \E n \in Reads \cup {FileLen - fpos} :
          /\ n > 0 /\ n <= FileLen - fpos /\ n <= BufSize - fileJob.n
          /\ Read(fileJob, n)
          /\ fileJob' = [fileJob EXCEPT !.n = @ + n, !.reading = fileJob.n + n < BufSize]
    /\ UNCHANGED <<disk, depots, tool, pc, mem, call, counts, seen>>

ReadEnd ==
    /\ fileJob.reading /\ fpos = FileLen
    /\ fileJob' = [fileJob EXCEPT !.reading = FALSE,
                                  !.status = IF fileJob.n = 0 THEN "eof" ELSE "success"]
    /\ UNCHANGED <<disk, depots, tool, pc, mem, fpos, buf, call, counts, seen>>

ReadFails ==
    /\ fileJob.reading /\ Fails
    /\ fileJob' = [fileJob EXCEPT !.reading = FALSE, !.status = "failed"]
    /\ UNCHANGED <<disk, depots, tool, pc, mem, fpos, buf, call, version, trims, crashes, seen>>

-----------------------------------------------------------------------------
(* lorsUploadFile                                                          *)

BeginUpload ==
    /\ pc = "idle" /\ file = {} /\ ~torn /\ arrays = << >>
    /\ tool' = "upload" /\ pc' = "first"
    /\ fileJob' = [NoJob EXCEPT !.reading = TRUE]
    /\ UNCHANGED <<disk, depots, mem, fpos, buf, call, counts, seen>>

FirstRead ==
    /\ pc = "first" /\ ~fileJob.reading
    /\ IF fileJob.status # "success" THEN Exit
       ELSE /\ ret' = fileJob.n /\ cur' = fileJob.buf
            /\ pc' = "loop"
            /\ UNCHANGED <<tool, mem, reader, range, jobs, new, todo, kept, opts, dead>>
    /\ UNCHANGED <<disk, depots, counts, seen>>

\* The blocks of a range, by their offset in the buffer, and what is in them.
Blocks(len) == {b * BlockSize : b \in 0 .. (len - 1) \div BlockSize}
FullBlock(b, len) == BlockSize
BlockLen(b, len) == IF b + BlockSize <= len THEN BlockSize ELSE len - b

SameBuf(b) == b
NextBuf(b) == (b + 1) % 2

\* The reader starts on the other buffer, and the part in hand is stored behind
\* what the set has.
StoreAt(off, len) ==
    /\ range' = [off |-> off, len |-> len]
    /\ jobs' = Blocks(len) /\ new' = {}
    /\ pc' = "store"

StartReader ==
    /\ pc = "loop"
    /\ \/ /\ fileJob' = [buf |-> NextBuf(fileJob.buf), n |-> 0, status |-> "success",
                         reading |-> TRUE]
          /\ StoreAt(maxlen, ret)
          /\ UNCHANGED <<tool, mem, fpos, buf, ret, cur, todo, kept, opts, dead, failures>>
       \/ Fails /\ Exit             \* pthread_create
    /\ UNCHANGED <<disk, depots, version, trims, crashes, seen>>

\* The part was stored: wait for the next one.
Join ==
    /\ pc = "join" /\ ~fileJob.reading
    /\ CASE fileJob.status = "failed" -> Exit
         [] fileJob.status # "failed" /\ fileJob.n = 0 ->
               /\ pc' = "write" /\ exnode' = set
               /\ UNCHANGED <<tool, set, maxlen, reader, call>>
         [] OTHER ->
               /\ pc' = "loop" /\ ret' = fileJob.n /\ cur' = fileJob.buf
               /\ UNCHANGED <<tool, mem, reader, range, jobs, new, todo, kept, opts, dead>>
    /\ UNCHANGED <<disk, depots, counts, seen>>

-----------------------------------------------------------------------------
(* lorsSetStore                                                            *)

\* The bytes a block is stored from, while the reader may be at work.
Source(b, n) ==
    IF tool = "upload" THEN [i \in 1 .. n |-> buf[cur][b + i - 1]]
    ELSE [i \in 1 .. n |-> range.off + b + i - 1]

StoreBlock ==
    /\ pc = "store"
    /\ \E b \in jobs :
          LET n == BlockLen(b, range.len)
              a == Len(arrays) + 1
          IN  /\ jobs' = jobs \ {b}
              /\ arrays' = Append(arrays, [version |-> version, bytes |-> Source(b, n)])
              /\ alive' = alive \cup {a}
              /\ new' = new \cup {[array |-> a, off |-> range.off + b, len |-> n, at |-> 0]}
    /\ UNCHANGED <<disk, tool, pc, mem, reader, ret, cur, range, todo, kept, opts, dead,
                   counts, seen>>

FailBlock ==
    /\ pc = "store" /\ Fails
    /\ \E b \in jobs : jobs' = jobs \ {b}
    /\ UNCHANGED <<disk, depots, tool, pc, mem, reader, ret, cur, range, new, todo, kept,
                   opts, dead, version, trims, crashes, seen>>

Whole == Cover(new) = range.off .. range.off + range.len - 1

\* lorsSetTrim: the mappings that overlap leave the set, to come back cut.
TrimFrom(S, off, len, O) ==
    /\ todo' = Query(S, off, len) /\ set' = S \ Query(S, off, len) /\ kept' = {}
    /\ range' = [off |-> off, len |-> len] /\ opts' = O
    /\ pc' = "trim"

Restore == {"ALL", "DECR"}
UpdateTrim == {"ALL"}

Stored ==
    /\ pc = "store" /\ jobs = {} /\ Whole
    /\ IF tool = "upload"
         THEN /\ set' = set \cup new /\ maxlen' = FindMaxlength(set')
              /\ pc' = "join" /\ new' = {} /\ range' = NoRange
              /\ UNCHANGED <<todo, kept, opts>>
         ELSE TrimFrom(set, range.off, range.len, UpdateTrim) /\ UNCHANGED <<maxlen, new>>
    /\ UNCHANGED <<disk, depots, tool, exnode, reader, ret, cur, jobs, dead, counts, seen>>

\* LORS_PARTIAL: the upload deletes what it got.
StoredPartly ==
    /\ pc = "store" /\ jobs = {} /\ ~Whole /\ tool = "upload" /\ new # {}
    /\ TrimFrom(set \cup new, range.off, range.len, Restore)
    /\ new' = {}
    /\ UNCHANGED <<disk, depots, tool, exnode, maxlen, reader, ret, cur, jobs, dead, counts,
                   seen>>

StoreFailed ==
    /\ pc = "store" /\ jobs = {} /\ ~Whole /\ (tool = "update" \/ new = {})
    /\ Return
    /\ UNCHANGED <<disk, depots, counts, seen>>

-----------------------------------------------------------------------------
(* lorsSetTrim                                                             *)

\* One mapping: one that is unavailable goes, and one that goes whole may have
\* its array deleted, if the depot answers.
Covers(m) == range.off <= m.off /\ End(m) <= range.off + range.len

TrimOne ==
    /\ pc = "trim"
    /\ \E m \in todo :
          /\ todo' = todo \ {m}
          /\ kept' = kept \cup (IF m \in dead THEN {}
                               ELSE IF "ALL" \in opts THEN Cut(m, range.off, range.len)
                               ELSE {m})
          /\ IF m \notin dead /\ {"ALL", "DECR"} \subseteq opts /\ Covers(m)
               THEN \/ alive' = alive \ {m.array} /\ UNCHANGED failures
                    \/ Fails /\ UNCHANGED alive
               ELSE UNCHANGED <<alive, failures>>
    /\ UNCHANGED <<disk, arrays, tool, pc, mem, reader, ret, cur, range, jobs, new, opts,
                   dead, version, trims, crashes, seen>>

\* The trimmed mappings come back.  An update is merged and appended to the
\* exnode, what lors_trim left over too.
Trimmed ==
    /\ pc = "trim" /\ todo = {}
    /\ set' = set \cup kept
    /\ kept' = {}
    /\ IF tool = "upload"
         THEN pc' = "refill" /\ UNCHANGED <<exnode, new>>
         ELSE pc' = "write" /\ exnode' = exnode \cup set' \cup new /\ new' = {}
    /\ UNCHANGED <<disk, depots, tool, maxlen, reader, ret, cur, range, jobs, todo, opts,
                   dead, counts, seen>>

\* lorsSetFindMaxlength, more depots, and once again.
Refill ==
    /\ pc = "refill"
    /\ \/ /\ maxlen' = FindMaxlength(set)
          /\ StoreAt(maxlen', ret)
          /\ opts' = {}
          /\ UNCHANGED <<tool, exnode, set, reader, ret, cur, todo, kept, dead, failures>>
       \/ Fails /\ Return
    /\ UNCHANGED <<disk, depots, version, trims, crashes, seen>>

-----------------------------------------------------------------------------
(* A program that changes a range                                          *)

BeginUpdate ==
    /\ pc = "idle" /\ file # {} /\ version < MaxUpdates
    /\ version' = version + 1
    /\ \E r \in Ranges :
          /\ set' = Query(file, r[1], r[2])
          /\ exnode' = file \ set'
          /\ maxlen' = FindMaxlength(set')
          /\ StoreAt(r[1], r[2])
    /\ tool' = "update"
    /\ UNCHANGED <<disk, depots, reader, ret, cur, todo, kept, opts, dead, trims, failures,
                   crashes, seen>>

-----------------------------------------------------------------------------
(* lorsTrimFile                                                            *)

\* The segments named, or all, leave the exnode.
BeginTrim ==
    /\ pc = "idle" /\ file # {} /\ trims < MaxTrims
    /\ trims' = trims + 1 /\ tool' = "trim"
    /\ \E S \in SUBSET file \ {{}}, D \in SUBSET {"DECR"} :
          /\ exnode' = file \ S /\ maxlen' = FindMaxlength(S)
          /\ \/ /\ TrimFrom(S, 0, maxlen', D \cup {"ALL"})
                /\ doomed' = Cover(S)
                /\ excused' = IF D = {} THEN excused ELSE excused \cup {m.array : m \in S}
             \/ /\ set' = S /\ opts' = D \cup {"DEAD"} /\ pc' = "stat"
                /\ UNCHANGED <<range, todo, kept, doomed, excused>>
    /\ UNCHANGED <<disk, depots, reader, ret, cur, jobs, new, dead, version, failures,
                   crashes, want, gone>>

\* lorsSetStat: dead is also what did not answer in time.
Stat ==
    /\ pc = "stat"
    /\ \E S \in SUBSET set :
          /\ \A m \in set : m.array \notin alive => m \in S
          /\ \/ /\ \A m \in S : m.array \notin alive
                /\ UNCHANGED failures
             \/ Fails
          /\ dead' = S
          /\ doomed' = Cover(S)
    /\ TrimFrom(set, 0, maxlen, opts)
    /\ UNCHANGED <<disk, depots, tool, exnode, maxlen, reader, ret, cur, jobs, new,
                   version, trims, crashes, want, gone, excused>>

-----------------------------------------------------------------------------
(* lorsFileSerialize, in place                                             *)

Unlink ==
    /\ pc = "write" /\ exnode = {} /\ tool = "trim"
    /\ file' = {} /\ gone' = gone \cup doomed /\ doomed' = {}
    /\ Exit
    /\ UNCHANGED <<torn, depots, counts, want, excused>>

OpenFile ==
    /\ pc = "write" /\ exnode # {} /\ ~torn
    /\ \/ file' = {} /\ torn' = TRUE /\ UNCHANGED <<tool, pc, mem, reader, call, doomed, failures>>
       \/ Fails /\ Exit /\ doomed' = {} /\ UNCHANGED disk
    /\ UNCHANGED <<depots, version, trims, crashes, want, gone, excused>>

Renewed == IF tool = "update" THEN range.off .. range.off + range.len - 1 ELSE {}

WriteFile ==
    /\ pc = "write" /\ torn
    /\ \/ /\ file' = exnode /\ torn' = FALSE
          /\ gone' = (gone \cup doomed) \ Renewed
          /\ want' = [p \in Bytes |-> IF p \in Renewed THEN version ELSE want[p]]
          /\ UNCHANGED failures
       \/ Fails /\ UNCHANGED <<disk, gone, want>>
    /\ doomed' = {}
    /\ Exit
    /\ UNCHANGED <<depots, version, trims, crashes, excused>>

-----------------------------------------------------------------------------
(* What the tools do not do                                                *)

\* A tool is killed, or stopped by the assertion of lorsSetTrim that every job
\* was done before the deadline.
Crash ==
    /\ pc \notin {"idle", "undefined"} /\ crashes < MaxCrashes
    /\ crashes' = crashes + 1
    /\ doomed' = {}
    /\ Exit
    /\ UNCHANGED <<disk, depots, version, trims, failures, want, gone, excused>>

\* lorsUploadFile has returned: its caller ends the process, unless the reader
\* writes to the fileJob that was on the stack before.
Leave ==
    /\ pc = "left"
    /\ Exit
    /\ UNCHANGED <<disk, depots, counts, seen>>

Undefined ==
    /\ pc = "left" /\ fileJob.reading
    /\ pc' = "undefined"
    /\ UNCHANGED <<disk, depots, tool, mem, reader, call, counts, seen>>

\* A depot loses an array, or it expires.
Lose ==
    /\ Fails
    /\ \E a \in alive : alive' = alive \ {a} /\ excused' = excused \cup {a}
    /\ UNCHANGED <<disk, arrays, tool, pc, mem, reader, call, version, trims, crashes, want,
                   gone, doomed>>

\* No tool runs, or nothing more can be said of the one that does.
Rest == pc \in {"idle", "undefined"} /\ UNCHANGED vars

Next ==
    \/ ReadSome \/ ReadEnd \/ ReadFails
    \/ BeginUpload \/ FirstRead \/ StartReader \/ Join
    \/ StoreBlock \/ FailBlock \/ Stored \/ StoredPartly \/ StoreFailed
    \/ TrimOne \/ Trimmed \/ Refill
    \/ BeginUpdate \/ BeginTrim \/ Stat
    \/ Unlink \/ OpenFile \/ WriteFile
    \/ Crash \/ Leave \/ Undefined \/ Lose \/ Rest

Spec == Init /\ [][Next]_vars

-----------------------------------------------------------------------------
(* Properties                                                              *)

TypeOK ==
    /\ file \subseteq Mappings(DOMAIN arrays) /\ torn \in BOOLEAN
    /\ arrays \in Seq([version : 0 .. MaxUpdates, bytes : Seq(Bytes)])
    /\ alive \subseteq DOMAIN arrays
    /\ tool \in Tools /\ pc \in Pcs
    /\ exnode \cup set \cup new \cup todo \cup kept \subseteq Mappings(DOMAIN arrays)
    /\ maxlen \in 0 .. FileLen /\ fpos \in 0 .. FileLen
    /\ buf \in [{0, 1} -> [0 .. BufSize - 1 -> Bytes \cup {NoByte}]]
    /\ fileJob \in [buf : {0, 1}, n : 0 .. BufSize, status : {"success", "eof", "failed"},
                    reading : BOOLEAN]
    /\ ret \in 0 .. BufSize /\ cur \in {0, 1} /\ jobs \subseteq Bytes
    /\ range \in [off : 0 .. FileLen, len : 0 .. FileLen]
    /\ opts \subseteq {"ALL", "DECR", "DEAD"} /\ dead \subseteq Mappings(DOMAIN arrays)
    /\ version \in 0 .. MaxUpdates /\ trims \in 0 .. MaxTrims
    /\ failures \in 0 .. MaxFailures /\ crashes \in 0 .. MaxCrashes
    /\ want \in [Bytes -> 0 .. MaxUpdates] /\ gone \cup doomed \subseteq Bytes
    /\ excused \subseteq DOMAIN arrays

\* A finished exnode file holds every byte of the input once, but for those that
\* lors_trim took: whatever was stored twice, cut, merged or killed on the way.
FileWhole ==
    file # {} => \A p \in Bytes :
        Cardinality(Holders(file, p)) = IF p \in gone THEN 0 ELSE 1

\* Every byte is held by an array of its last version, at the place of the array
\* where that byte is, as long as the mapping has not lost its front.
DataTrue ==
    \A m \in file :
        /\ \A p \in Positions(m) : arrays[m.array].version = want[p]
        /\ m.at = 0 => \A p \in Positions(m) : arrays[m.array].bytes[p - m.off + 1] = p

\* No array of the file is deleted but by a lors_trim that was told to, even when
\* a tool dies between the depots and the file.
NamedAlive == \A m \in file : m.array \in alive \cup excused

\* Every byte is where its mapping says.
MappingsTrue ==
    \A m \in file : \A p \in Positions(m) : arrays[m.array].bytes[m.at + p - m.off + 1] = p
=============================================================================
