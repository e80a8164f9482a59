---------------------------- MODULE DepotStorage ----------------------------
(***************************************************************************)
(* The byte arrays of one DISK resource of the depot: the tree of          *)
(* allocations, the space they are charged, the requests that worker       *)
(* threads serve on them at the same time (ibp_handle.c, ibp_manage.c,     *)
(* ibp_server_lib.c), the record of each array in the recovery file        *)
(* (SaveInfo2LSS) and what recover() makes of that file after a crash.     *)
(*                                                                         *)
(* Arrays are stable byte arrays; a name stands for a fresh random key.    *)
(* Memory that is used after it was freed, and a record written at a       *)
(* negative position, leave the phase "undefined", where nothing more is   *)
(* said of the depot.                                                      *)
(***************************************************************************)
EXTENDS Integers, FiniteSets, FiniteSetsExt, SequencesExt

CONSTANTS
    Arrays,           \* the allocations considered
    NoArray,
    Threads,          \* worker threads
    Does,             \* the requests a thread may get
    Sizes, NewSizes,  \* sizes asked for: IBP_ALLOCATE, IBP_CHNG
    StableStorage,    \* rs->StableStorage
    VolStorage,       \* rs->VolStorage, the limit of all allocations
    Lifetime,         \* rs->MaxDuration, also the duration asked for
    MaxNow,           \* bound: the clock
    MaxRequests,      \* bound: requests
    MaxCrashes,       \* bound: crashes
    CrashInRecovery   \* a crash may interrupt recover()

Ops == {"allocate", "store", "load", "send", "incr", "decr", "chng"}

ASSUME StorageAssumption ==
    /\ NoArray \notin Arrays
    /\ IsFiniteSet(Arrays) /\ IsFiniteSet(Threads)
    /\ Does \in [Threads -> SUBSET Ops]
    /\ Sizes \subseteq Nat \ {0} /\ NewSizes \subseteq Nat \ {0}
    /\ Sizes # {} /\ IsFiniteSet(Sizes) /\ IsFiniteSet(NewSizes)
    /\ StableStorage \in Nat /\ VolStorage \in Nat /\ StableStorage <= VolStorage
    /\ Lifetime \in Nat /\ MaxNow \in Nat
    /\ MaxRequests \in Nat /\ MaxCrashes \in Nat /\ CrashInRecovery \in BOOLEAN

Phases == {"up", "down", "loading", "recovering", "undefined"}
\* Of an allocation that found no room and waits for it, for ServerSync seconds.
Asking == {"full", "queue", "protect", "refused", "again", "need", "cond", "late",
           "last", "let", "deny"}
Pcs == {"idle", "grant", "answer", "number", "record", "truncate", "leave", "decoded",
        "write", "wrote", "read", "release", "drop", "check", "resave", "jettison",
        "forget", "unlock", "manage", "apply", "save"} \cup Asking

VARIABLES
    phase, now, crashes, requests,
    mem,        \* of a byte array: "none", "live" (in the tree), "dying", "freed"
    file,       \* arrays whose file exists
    size, refs, ends,      \* maxSize, readRefCount, attrib.duration
    reference, deleted, wl,
    index,      \* BackupIndex
    used,       \* rs->StableStorageUsed
    next,       \* rs->NextIndexNumber
    known,      \* arrays whose capabilities a client has
    lss, old,   \* the recovery file, and the one that recover() still reads
    dirty,      \* arrays whose file has more data than their record says
    needed,     \* thread_glb.StorageNeeded
    alloc,      \* alloc_lock is locked
    woken,      \* threads that wait for room and have been signalled
    pc, op, arr,           \* per thread: where it is, its request and array
    tmp, inc,              \* locals: the size or reference read, ll_inc
    untested,   \* observed: sizes a signal let in since a test last granted more room
    lost, kept  \* observed: arrays that were freed; arrays a crash must spare

fields  == <<size, refs, ends, reference, deleted, wl, index>>
arrays  == <<mem, file, fields>>
files   == <<lss, old, dirty>>
locals  == <<pc, op, arr, tmp, inc>>
clock   == <<phase, now, crashes, requests>>
sync    == <<needed, alloc, woken, untested>>
seen    == <<lost, kept>>
vars == <<clock, arrays, used, next, known, files, locals, sync, seen>>

Tree == {a \in Arrays : mem[a] = "live"}

\* The values a byte array has in memory, and those of its record.
Record(a) == [key |-> a, size |-> size[a], refs |-> refs[a], ends |-> ends[a],
              valid |-> TRUE]

Init ==
    /\ phase = "up" /\ now = 0 /\ crashes = 0 /\ requests = 0
    /\ mem = [a \in Arrays |-> "none"] /\ file = {}
    /\ size = [a \in Arrays |-> 0] /\ refs = [a \in Arrays |-> 0]
    /\ ends = [a \in Arrays |-> 0]
    /\ reference = [a \in Arrays |-> 0]
    /\ deleted = [a \in Arrays |-> FALSE] /\ wl = [a \in Arrays |-> FALSE]
    /\ index = [a \in Arrays |-> 0]
    /\ used = 0 /\ next = 1 /\ known = {}
    /\ lss = << >> /\ old = << >> /\ dirty = {}
    /\ pc = [t \in Threads |-> "idle"] /\ op = [t \in Threads |-> "store"]
    /\ arr = [t \in Threads |-> NoArray]
    /\ tmp = [t \in Threads |-> 0] /\ inc = [t \in Threads |-> 0]
    /\ needed = 0 /\ alloc = FALSE /\ woken = {} /\ untested = 0
    /\ lost = {} /\ kept = {}

-----------------------------------------------------------------------------
(* Helpers                                                                 *)

Goto(t, p) == pc' = [pc EXCEPT ![t] = p]
Done(t) ==
    /\ Goto(t, "idle")
    /\ op' = [op EXCEPT ![t] = "store"] /\ arr' = [arr EXCEPT ![t] = NoArray]
    /\ tmp' = [tmp EXCEPT ![t] = 0] /\ inc' = [inc EXCEPT ![t] = 0]

\* A request comes.
Comes == requests < MaxRequests /\ requests' = requests + 1

Running == phase \in {"up", "recovering"}
At(t, p) == Running /\ pc[t] = p
Usable(t) == mem[arr[t]] \in {"live", "dying"}

\* SaveInfo2LSS(3): the rest of a record that is not valid is never read.
Invalidated(S) ==
    [i \in DOMAIN lss |->
        IF \E a \in S : index[a] = i
        THEN [key |-> lss[i].key, size |-> 0, refs |-> 0, ends |-> 0, valid |-> FALSE]
        ELSE lss[i]]

\* SaveInfo2LSS(2): the values go to the record that BackupIndex names.
Rewritten(a) ==
    [lss EXCEPT ![index[a]] = [@ EXCEPT !.size = size[a], !.refs = refs[a],
                                        !.ends = ends[a], !.valid = TRUE]]

\* BackupIndex is still 0, or no record is there yet: fseek fails or leaves a hole.
NoRecord(a) == index[a] \notin DOMAIN lss

\* readLock and writeLock of a.
Readers(a) == {t \in Threads : arr[t] = a /\ pc[t] = "read"}
Writers(a) == {t \in Threads : arr[t] = a /\ pc[t] \in {"write", "wrote"}}
Unlocked(a) == Readers(a) = {} /\ Writers(a) = {}

\* free: what the fields hold then is not looked at.
Erased(S) ==
    /\ mem' = [a \in Arrays |-> IF a \in S THEN "freed" ELSE mem[a]]
    /\ size' = [a \in Arrays |-> IF a \in S THEN 0 ELSE size[a]]
    /\ refs' = [a \in Arrays |-> IF a \in S THEN 0 ELSE refs[a]]
    /\ ends' = [a \in Arrays |-> IF a \in S THEN 0 ELSE ends[a]]
    /\ reference' = [a \in Arrays |-> IF a \in S THEN 0 ELSE reference[a]]
    /\ wl' = [a \in Arrays |-> wl[a] /\ a \notin S]
    /\ index' = [a \in Arrays |-> IF a \in S THEN 0 ELSE index[a]]

SizeOf(S) == MapThenSumSet(LAMBDA a : size[a], S)

\* pthread_cond_signal: one of the threads that wait is let go, if any waits.
Waiters(c) == {t \in Threads : pc[t] = c} \ woken
Signal(c) ==
    IF Waiters(c) = {} THEN UNCHANGED woken
    ELSE \E t \in Waiters(c) : woken' = woken \cup {t}

\* Whether a jettisoned array lets a waiting allocation go: the room that is left
\* of VolStorage, an unsigned number, is compared with StorageNeeded.
EnoughIn(u) == needed > 0 /\ (needed < VolStorage - u \/ u > VolStorage)

\* The threads that the removals of S, one after the other, let go.
LetGo(S) ==
    {W \in SUBSET Waiters("cond") :
        /\ Cardinality(W) <= Cardinality(S)
        /\ W # {} => \E R \in SUBSET S : R # {} /\ EnoughIn(used - SizeOf(R))
        /\ W = {} => Waiters("cond") = {} \/ S = {} \/ ~EnoughIn(used - SizeOf(S))}

\* truncatestorage(2): expired arrays that nobody uses go, those in use are
\* marked.
Expired == {a \in Tree : ends[a] < now}
Idle(a) == Unlocked(a) /\ reference[a] = 0
Unused == {a \in Expired : Idle(a)}
Shrunk(S) ==
    /\ Erased(S)
    /\ file' = file \ S
    /\ deleted' = [a \in Arrays |-> a \notin S /\ (deleted[a] \/ a \in Expired)]
    /\ used' = used - SizeOf(S)
    /\ \E W \in LetGo(S) : woken' = woken \cup W
    /\ lss' = Invalidated(S)
    /\ lost' = lost \cup S

\* check_size: no lock is held.  An excess of the stable limit truncates first.
Fits(n) == n + used <= VolStorage
Room(n, u) == n + u <= StableStorage

Tested(n) == untested' = IF n > 0 THEN 0 ELSE untested

Unchecked(n, Granted, Refused) ==
    Granted /\ Tested(n) /\ UNCHANGED <<arrays, used, lss, woken, lost>>
CheckSize(n, Granted, Refused) ==
    \/ /\ Fits(n) /\ Room(n, used)
       /\ Granted /\ Tested(n)
       /\ UNCHANGED <<arrays, used, lss, woken, lost>>
    \/ /\ ~Fits(n)
       /\ Refused /\ UNCHANGED untested
       /\ UNCHANGED <<arrays, used, lss, woken, lost>>
    \/ /\ Fits(n) /\ ~Room(n, used)
       /\ \A a \in Unused : ~NoRecord(a)
       /\ Shrunk(Unused)
       /\ \/ Room(n, used') /\ Granted /\ Tested(n)
          \/ ~Room(n, used') /\ Refused /\ UNCHANGED untested

-----------------------------------------------------------------------------
(* handle_allocate                                                         *)

Allocate(t) ==
    /\ phase = "up" /\ pc[t] = "idle" /\ "allocate" \in Does[t]
    /\ Comes
    /\ \E n \in Sizes :
          /\ CheckSize(n, Goto(t, "grant"), Goto(t, "full"))
          /\ tmp' = [tmp EXCEPT ![t] = n]
          /\ op' = [op EXCEPT ![t] = "allocate"]
    /\ UNCHANGED <<phase, now, crashes, next, known, old, dirty, arr, inc, needed, alloc,
                   kept>>

\* No room: the server sync.  One allocation at a time is to wait on Cond, the others
\* wait on Protect first.
Full(t) ==
    /\ At(t, "full")
    /\ Goto(t, IF needed # 0 THEN "queue" ELSE "again")
    /\ UNCHANGED <<clock, arrays, used, next, known, files, op, arr, tmp, inc, sync, seen>>

\* pthread_cond_timedwait unlocks alloc_lock, which is not locked anywhere else, and
\* locks it when it returns.  Nobody unlocks it after that but the next one to wait.
BeginWait(t) ==
    /\ \/ At(t, "queue") /\ Goto(t, "protect")
       \/ At(t, "need") /\ Goto(t, "cond")
    /\ alloc' = FALSE
    /\ UNCHANGED <<clock, arrays, used, next, known, files, op, arr, tmp, inc, needed,
                   woken, untested, seen>>

TimeOut(t) ==
    /\ t \notin woken
    /\ \/ At(t, "protect") /\ Goto(t, "refused")
       \/ At(t, "cond") /\ Goto(t, "late")
    /\ UNCHANGED <<clock, arrays, used, next, known, files, op, arr, tmp, inc, sync, seen>>

\* After a signal on Cond the room is taken as it is, untested.
EndWait(t) ==
    /\ ~alloc /\ alloc' = TRUE
    /\ \/ At(t, "refused") /\ Done(t) /\ UNCHANGED untested
       \/ At(t, "late") /\ Goto(t, "last") /\ UNCHANGED <<op, arr, tmp, inc, untested>>
       \/ /\ At(t, "protect") /\ t \in woken
          /\ Goto(t, "again") /\ UNCHANGED <<op, arr, tmp, inc, untested>>
       \/ /\ At(t, "cond") /\ t \in woken
          /\ Goto(t, "let") /\ untested' = untested + tmp[t]
          /\ UNCHANGED <<op, arr, tmp, inc>>
    /\ woken' = woken \ {t}
    /\ UNCHANGED <<clock, arrays, used, next, known, files, needed, seen>>

Claim(t) ==
    /\ At(t, "again")
    /\ CheckSize(tmp[t], Goto(t, "grant") /\ UNCHANGED needed,
                         Goto(t, "need") /\ needed' = tmp[t])
    /\ UNCHANGED <<clock, next, known, old, dirty, op, arr, tmp, inc, alloc, kept>>

Retest(t) ==
    /\ At(t, "last")
    /\ CheckSize(tmp[t], Goto(t, "let"), Goto(t, "deny"))
    /\ UNCHANGED <<clock, next, known, old, dirty, op, arr, tmp, inc, needed, alloc, kept>>

\* The next one may wait on Cond.
EndNeed(t) ==
    /\ \/ At(t, "let") /\ Goto(t, "grant") /\ UNCHANGED <<op, arr, tmp, inc>>
       \/ At(t, "deny") /\ Done(t)
    /\ needed' = 0
    /\ Signal("protect")
    /\ UNCHANGED <<clock, arrays, used, next, known, files, alloc, untested, seen>>

\* The key, the file and the byte array, and its place in the tree.
Fresh(a) == mem[a] = "none" /\ a \notin file \cup lost

Insert(t) ==
    /\ At(t, "grant")
    /\ \E a \in Arrays :
          /\ Fresh(a)
          /\ arr' = [arr EXCEPT ![t] = a]
          /\ mem' = [mem EXCEPT ![a] = "live"]
          /\ size' = [size EXCEPT ![a] = tmp[t]]
          /\ refs' = [refs EXCEPT ![a] = 1]
          /\ ends' = [ends EXCEPT ![a] = now + Lifetime]
          /\ file' = file \cup {a}
    /\ used' = used + tmp[t]
    /\ tmp' = [tmp EXCEPT ![t] = 0]
    /\ Goto(t, "answer")
    /\ UNCHANGED <<clock, reference, deleted, wl, index, next, known, files, op,
                   inc, sync, seen>>

\* The client gets the capabilities, or has gone.
Answer(t) ==
    /\ At(t, "answer")
    /\ \/ known' = known \cup {arr[t]} /\ Goto(t, "number") /\ UNCHANGED <<op, arr, tmp, inc>>
       \/ UNCHANGED known /\ Done(t)
    /\ UNCHANGED <<clock, arrays, used, next, files, sync, seen>>

Ahead == next + 1
Position == next

Number(t) ==
    /\ At(t, "number") /\ Usable(t)
    /\ index' = [index EXCEPT ![arr[t]] = Position]
    /\ next' = next + 1
    /\ Goto(t, "record")
    /\ UNCHANGED <<clock, mem, file, size, refs, ends, reference, deleted, wl, used,
                   known, files, op, arr, tmp, inc, sync, seen>>

\* SaveInfo2LSS(1) appends, whatever BackupIndex is.
AddRecord(t) ==
    /\ At(t, "record") /\ Usable(t)
    /\ lss' = Append(lss, Record(arr[t]))
    /\ Goto(t, "truncate")
    /\ UNCHANGED <<clock, arrays, used, next, known, old, dirty, op, arr, tmp, inc,
                   sync, seen>>

Truncate(t) ==
    /\ At(t, "truncate") /\ \A a \in Unused : ~NoRecord(a)
    /\ Shrunk(Unused)
    /\ Goto(t, "leave")
    /\ UNCHANGED <<clock, next, known, old, dirty, op, arr, tmp, inc, needed, alloc,
                   untested, kept>>

Leave(t) ==
    /\ At(t, "leave")
    /\ Signal("protect")
    /\ Done(t)
    /\ UNCHANGED <<clock, arrays, used, next, known, files, needed, alloc, untested,
                   seen>>

-----------------------------------------------------------------------------
(* decode_cmd and handle_request                                           *)

\* KEY: the array is looked up and held.
Decode(t) ==
    /\ Running /\ pc[t] = "idle"
    /\ Comes
    /\ \E a \in known, o \in Does[t] \ {"allocate"} :
          /\ mem[a] = "live" /\ ~deleted[a]
          /\ reference' = [reference EXCEPT ![a] = @ + 1]
          /\ arr' = [arr EXCEPT ![t] = a]
          /\ op' = [op EXCEPT ![t] = o]
    /\ Goto(t, "decoded")
    /\ UNCHANGED <<phase, now, crashes, mem, file, size, refs, ends, deleted, wl,
                   index, used, next, known, files, tmp, inc, sync, seen>>

\* The rest of the request is wrong.
Reject(t) ==
    /\ At(t, "decoded") /\ Usable(t)
    /\ reference' = [reference EXCEPT ![arr[t]] = @ - 1]
    /\ Done(t)
    /\ UNCHANGED <<clock, mem, file, size, refs, ends, deleted, wl, index, used,
                   next, known, files, sync, seen>>

\* IBP_E_SERVER_RECOVERING: the reference stays.
RefuseRecovering(t) ==
    /\ phase = "recovering" /\ pc[t] = "decoded" /\ op[t] # "send"
    /\ Done(t)
    /\ UNCHANGED <<clock, arrays, used, next, known, files, sync, seen>>

Manages(t) == op[t] \in {"incr", "decr", "chng"}
Accepted(t) == At(t, "decoded") /\ (phase = "up" \/ op[t] = "send")

\* One turn of the polling loop that gets the array: wl, then writeLock.
NoTest(a) == TRUE
Free(a) == ~wl[a]

BeginStore(t) ==
    /\ Accepted(t) /\ op[t] = "store" /\ Usable(t) /\ Free(arr[t])
    /\ wl' = [wl EXCEPT ![arr[t]] = TRUE]
    /\ Goto(t, "write")
    /\ UNCHANGED <<clock, mem, file, size, refs, ends, reference, deleted, index,
                   used, next, known, files, op, arr, tmp, inc, sync, seen>>

BeginRead(t) ==
    /\ Accepted(t) /\ op[t] \in {"load", "send"} /\ Usable(t)
    /\ Goto(t, "read")
    /\ UNCHANGED <<clock, arrays, used, next, known, files, op, arr, tmp, inc, sync,
                   seen>>

BeginManage(t) ==
    /\ Accepted(t) /\ Manages(t) /\ Usable(t)
    /\ Goto(t, "release")
    /\ UNCHANGED <<clock, arrays, used, next, known, files, op, arr, tmp, inc, sync,
                   seen>>

\* handle_store: the data, perhaps more than the array had, or an error.
Store(t) ==
    /\ At(t, "write") /\ Usable(t)
    /\ \/ dirty' \in {dirty, dirty \cup {arr[t]}} /\ Goto(t, "wrote")
       \/ UNCHANGED dirty /\ Goto(t, "release")
    /\ UNCHANGED <<clock, arrays, used, next, known, lss, old, op, arr, tmp, inc,
                   sync, seen>>

SaveStore(t) ==
    /\ At(t, "wrote") /\ Usable(t) /\ ~NoRecord(arr[t])
    /\ lss' = Rewritten(arr[t])
    /\ dirty' = dirty \ {arr[t]}
    /\ Goto(t, "release")
    /\ UNCHANGED <<clock, arrays, used, next, known, old, op, arr, tmp, inc, sync,
                   seen>>

EndRead(t) ==
    /\ At(t, "read") /\ Usable(t)
    /\ Goto(t, "release")
    /\ UNCHANGED <<clock, arrays, used, next, known, files, op, arr, tmp, inc, sync,
                   seen>>

\* reference--, without change_lock.
Release(t) ==
    /\ At(t, "release") /\ Usable(t)
    /\ tmp' = [tmp EXCEPT ![t] = reference[arr[t]]]
    /\ Goto(t, "drop")
    /\ UNCHANGED <<clock, arrays, used, next, known, files, op, arr, inc, sync,
                   seen>>

Drop(t) ==
    /\ At(t, "drop") /\ Usable(t)
    /\ reference' = [reference EXCEPT ![arr[t]] = tmp[t] - 1]
    /\ tmp' = [tmp EXCEPT ![t] = 0]
    /\ Goto(t, IF Manages(t) THEN "manage" ELSE "check")
    /\ UNCHANGED <<clock, mem, file, size, refs, ends, deleted, wl, index, used,
                   next, known, files, op, arr, inc, sync, seen>>

\* Has the array been deleted meanwhile?  A store has wl to clear.
NeverClears(t) == FALSE
Clears(t) == op[t] = "store"

Check(t) ==
    /\ At(t, "check") /\ Usable(t)
    /\ IF deleted[arr[t]] /\ Unlocked(arr[t])
         THEN Goto(t, "resave") /\ UNCHANGED <<op, arr, tmp, inc>>
         ELSE IF Clears(t) THEN Goto(t, "unlock") /\ UNCHANGED <<op, arr, tmp, inc>>
         ELSE Done(t)
    /\ UNCHANGED <<clock, arrays, used, next, known, files, sync, seen>>

Unlock(t) ==
    /\ At(t, "unlock") /\ Usable(t)
    /\ wl' = [wl EXCEPT ![arr[t]] = FALSE]
    /\ Done(t)
    /\ UNCHANGED <<clock, mem, file, size, refs, ends, reference, deleted, index,
                   used, next, known, files, sync, seen>>

\* SaveInfo2LSS(2) before the array goes; a load goes no further.
Resave(t) ==
    /\ At(t, "resave") /\ Usable(t) /\ ~NoRecord(arr[t])
    /\ lss' = Rewritten(arr[t])
    /\ IF op[t] = "load" THEN Done(t)
       ELSE Goto(t, "jettison") /\ UNCHANGED <<op, arr, tmp, inc>>
    /\ UNCHANGED <<clock, arrays, used, next, known, old, dirty, sync, seen>>

-----------------------------------------------------------------------------
(* jettisonByteArray                                                       *)

FilesLeft(a) == file
FilesWithout(a) == file \ {a}

Jettison(t) ==
    /\ At(t, "jettison") /\ mem[arr[t]] = "live"
    /\ deleted' = [deleted EXCEPT ![arr[t]] = TRUE]
    /\ IF reference[arr[t]] > 0
         THEN Done(t) /\ UNCHANGED <<mem, file, used, woken, lost>>
         ELSE /\ mem' = [mem EXCEPT ![arr[t]] = "dying"]
              /\ file' = FilesWithout(arr[t])
              /\ used' = used - size[arr[t]]
              /\ IF EnoughIn(used') THEN Signal("cond") ELSE UNCHANGED woken
              /\ lost' = lost \cup {arr[t]}
              /\ Goto(t, "forget")
              /\ UNCHANGED <<op, arr, tmp, inc>>
    /\ UNCHANGED <<clock, size, refs, ends, reference, wl, index, next, known,
                   files, needed, alloc, untested, kept>>

\* SaveInfo2LSS(3) and free.
Forget(t) ==
    /\ At(t, "forget") /\ mem[arr[t]] = "dying" /\ ~NoRecord(arr[t])
    /\ lss' = Invalidated({arr[t]})
    /\ Erased({arr[t]})
    /\ deleted' = [deleted EXCEPT ![arr[t]] = FALSE]
    /\ dirty' = dirty \ {arr[t]}
    /\ Done(t)
    /\ UNCHANGED <<clock, file, used, next, known, old, sync, seen>>

-----------------------------------------------------------------------------
(* handle_manage_disk, after its reference--                               *)

Incr(t) ==
    /\ At(t, "manage") /\ op[t] = "incr" /\ Usable(t)
    /\ refs' = [refs EXCEPT ![arr[t]] = @ + 1]
    /\ Goto(t, "save")
    /\ UNCHANGED <<clock, mem, file, size, ends, reference, deleted, wl, index,
                   used, next, known, files, op, arr, tmp, inc, sync, seen>>

\* The last one deletes the array, at once or when it is not used any more; the
\* others are not saved.
Decr(t) ==
    /\ At(t, "manage") /\ op[t] = "decr" /\ Usable(t)
    /\ refs' = [refs EXCEPT ![arr[t]] = @ - 1]
    /\ IF refs[arr[t]] = 1 /\ Unlocked(arr[t])
         THEN Goto(t, "resave") /\ UNCHANGED <<op, arr, tmp, inc, deleted>>
         ELSE /\ Done(t)
              /\ deleted' = [deleted EXCEPT ![arr[t]] = @ \/ refs[arr[t]] = 1]
    /\ UNCHANGED <<clock, mem, file, size, ends, reference, wl, index, used, next,
                   known, files, sync, seen>>

\* ll_inc is computed, and the room tested, before the lock is taken.
Chng(t) ==
    /\ At(t, "manage") /\ op[t] = "chng" /\ Usable(t)
    /\ \E n \in NewSizes :
          CheckSize(n - size[arr[t]],
                    /\ Goto(t, "apply")
                    /\ tmp' = [tmp EXCEPT ![t] = n]
                    /\ inc' = [inc EXCEPT ![t] = n - size[arr[t]]]
                    /\ UNCHANGED <<op, arr>>,
                    Done(t))
    /\ UNCHANGED <<clock, next, known, old, dirty, needed, alloc, kept>>

Apply(t) ==
    /\ At(t, "apply") /\ mem[arr[t]] = "live"
    /\ used' = used + inc[t]
    /\ size' = [size EXCEPT ![arr[t]] = tmp[t]]
    /\ ends' = [ends EXCEPT ![arr[t]] = now + Lifetime]
    /\ tmp' = [tmp EXCEPT ![t] = 0] /\ inc' = [inc EXCEPT ![t] = 0]
    /\ Goto(t, "save")
    /\ UNCHANGED <<clock, mem, file, refs, reference, deleted, wl, index, next,
                   known, files, op, arr, sync, seen>>

Save(t) ==
    /\ At(t, "save") /\ Usable(t) /\ ~NoRecord(arr[t])
    /\ lss' = Rewritten(arr[t])
    /\ Done(t)
    /\ UNCHANGED <<clock, arrays, used, next, known, old, dirty, sync, seen>>

\* The memory of the array, or of its tree entries, is used after it was freed;
\* or its record is written where none is: BackupIndex is still 0 (fseek fails),
\* because the request came before the record, because the file header could not
\* be written, or because the array expired meanwhile.
Undefined(t) ==
    /\ Running
    /\ \/ pc[t] \notin {"idle", "grant", "answer", "truncate", "leave"} \cup Asking
            /\ ~Usable(t)
       \/ pc[t] \in {"jettison", "apply"} /\ mem[arr[t]] = "dying"
       \/ pc[t] \in {"wrote", "resave", "forget", "save"} /\ NoRecord(arr[t])
       \/ pc[t] = "answer" /\ arr[t] \notin known
       \/ /\ \E a \in Unused : NoRecord(a)
          /\ \/ pc[t] \in {"truncate", "again", "last"}
             \/ pc[t] = "idle" /\ "allocate" \in Does[t]
             \/ pc[t] = "manage" /\ op[t] = "chng"
    /\ phase' = "undefined"
    /\ UNCHANGED <<now, crashes, requests, arrays, used, next, known, files, locals,
                   sync, seen>>

-----------------------------------------------------------------------------
(* A crash, and recover()                                                  *)

\* What the depot owes its clients after a crash: the arrays that have a record,
\* have not expired and are not being deleted.
BeingChanged(a) == \E t \in Threads :
    arr[t] = a /\ (pc[t] \in {"answer", "number", "record", "save"} \/ op[t] = "decr")
Owed == {a \in Tree : /\ a \in known /\ ~NoRecord(a) /\ ~BeingChanged(a)
                      /\ ~deleted[a] /\ ends[a] >= now}

Crash ==
    /\ crashes < MaxCrashes
    /\ Running \/ (CrashInRecovery /\ phase = "loading")
    /\ phase' = "down" /\ crashes' = crashes + 1
    /\ kept' = IF phase = "loading" THEN kept ELSE Owed
    /\ mem' = [a \in Arrays |-> "none"]
    /\ size' = [a \in Arrays |-> 0] /\ refs' = [a \in Arrays |-> 0]
    /\ ends' = [a \in Arrays |-> 0] /\ reference' = [a \in Arrays |-> 0]
    /\ deleted' = [a \in Arrays |-> FALSE] /\ wl' = [a \in Arrays |-> FALSE]
    /\ index' = [a \in Arrays |-> 0]
    /\ used' = 0 /\ next' = 1 /\ old' = << >>
    /\ pc' = [t \in Threads |-> "idle"] /\ op' = [t \in Threads |-> "store"]
    /\ arr' = [t \in Threads |-> NoArray]
    /\ tmp' = [t \in Threads |-> 0] /\ inc' = [t \in Threads |-> 0]
    /\ needed' = 0 /\ alloc' = FALSE /\ woken' = {} /\ untested' = 0
    /\ UNCHANGED <<now, requests, file, known, lss, dirty, lost>>

\* The file gets another name, and a new one is begun.
BeginRecovery ==
    /\ phase = "down"
    /\ phase' = "loading"
    /\ old' = lss /\ lss' = << >>
    /\ UNCHANGED <<now, crashes, requests, arrays, used, next, known, dirty, locals,
                   sync, seen>>

Later(r) == r.valid /\ r.ends > now /\ r.key \in file
Restorable(r) == r.valid /\ r.ends >= now /\ r.key \in file

SkipRecord ==
    /\ phase = "loading" /\ old # << >> /\ ~Restorable(Head(old))
    /\ old' = Tail(old)
    /\ UNCHANGED <<clock, arrays, used, next, known, lss, dirty, locals, sync,
                   seen>>

\* The clock stands still from the crash to the end of the recovery: lt_crashtime
\* is 0.  check_cap_file: an array whose file has another size than its record says is
\* taken for a fresh one.
NoCharge(r) == 0
Charge(r) == r.size

RestoreRecord ==
    /\ phase = "loading" /\ old # << >> /\ Restorable(Head(old))
    /\ LET r == Head(old)
           a == r.key
       IN  /\ mem' = [mem EXCEPT ![a] = "live"]
           /\ size' = [size EXCEPT ![a] = r.size]
           /\ refs' = [refs EXCEPT ![a] = IF a \in dirty THEN 1 ELSE r.refs]
           /\ ends' = [ends EXCEPT ![a] = IF a \in dirty THEN now + Lifetime ELSE r.ends]
           /\ index' = [index EXCEPT ![a] = next]
           /\ used' = used + Charge(r)
           /\ lss' = Append(lss, [r EXCEPT !.refs = refs'[a], !.ends = ends'[a]])
           /\ dirty' = dirty \ {a}
    /\ old' = Tail(old) /\ next' = next + 1
    /\ UNCHANGED <<clock, file, reference, deleted, wl, known, locals, sync, seen>>

\* Requests for the arrays that did not come back are refused from now on.
EndRecovery ==
    /\ phase = "loading" /\ old = << >>
    /\ phase' = "recovering"
    /\ known' = known \cap Tree /\ dirty' = {}
    /\ UNCHANGED <<now, crashes, requests, arrays, used, next, lss, old, locals,
                   sync, seen>>

\* gt_recoverstoptime is over.
RecoverFinish ==
    /\ phase = "recovering"
    /\ phase' = "up" /\ kept' = {}
    /\ UNCHANGED <<now, crashes, requests, arrays, used, next, known, files, locals,
                   sync, lost>>

Tick ==
    /\ phase = "up" /\ now < MaxNow
    /\ now' = now + 1
    /\ UNCHANGED <<phase, crashes, requests, arrays, used, next, known, files,
                   locals, sync, seen>>

-----------------------------------------------------------------------------

\* An allocation asks for room, and waits for it.
Asks(t) == Allocate(t) \/ Claim(t) \/ Retest(t)
Syncs(t) == Full(t) \/ BeginWait(t) \/ TimeOut(t) \/ EndWait(t) \/ EndNeed(t)

Serves(t) ==
    \/ Asks(t) \/ Syncs(t)
    \/ Insert(t) \/ Answer(t) \/ Number(t) \/ AddRecord(t) \/ Truncate(t) \/ Leave(t)
    \/ Decode(t) \/ Reject(t) \/ RefuseRecovering(t)
    \/ BeginStore(t) \/ BeginRead(t) \/ BeginManage(t) \/ Store(t) \/ SaveStore(t)
    \/ EndRead(t) \/ Release(t) \/ Drop(t) \/ Check(t) \/ Unlock(t) \/ Resave(t)
    \/ Jettison(t) \/ Forget(t) \/ Incr(t) \/ Decr(t) \/ Chng(t) \/ Apply(t) \/ Save(t)
    \/ Undefined(t)

\* Nothing to do: no request comes, or every request waits for a writer.
Waits == (phase = "undefined" \/ Running) /\ UNCHANGED vars

Next ==
    \/ \E t \in Threads : Serves(t)
    \/ Crash \/ BeginRecovery \/ SkipRecord \/ RestoreRecord \/ EndRecovery
    \/ RecoverFinish \/ Tick \/ Waits

Spec == Init /\ [][Next]_vars

-----------------------------------------------------------------------------
(* Properties                                                              *)

TypeOK ==
    /\ phase \in Phases /\ now \in 0..MaxNow /\ crashes \in 0..MaxCrashes
    /\ requests \in 0..MaxRequests
    /\ mem \in [Arrays -> {"none", "live", "dying", "freed"}] /\ file \subseteq Arrays
    /\ size \in [Arrays -> Sizes \cup NewSizes \cup {0}] /\ refs \in [Arrays -> Int]
    /\ ends \in [Arrays -> Nat] /\ reference \in [Arrays -> Int]
    /\ deleted \in [Arrays -> BOOLEAN] /\ wl \in [Arrays -> BOOLEAN]
    /\ next \in Nat \ {0} /\ index \in [Arrays -> 0..next - 1] /\ used \in Int
    /\ known \subseteq Arrays /\ dirty \subseteq Arrays
    /\ \A r \in Range(lss) \cup Range(old) :
          r.key \in Arrays /\ r.size \in Sizes \cup NewSizes \cup {0} /\ r.refs \in Int /\ r.ends \in Nat
            /\ r.valid \in BOOLEAN
    /\ pc \in [Threads -> Pcs] /\ op \in [Threads -> Ops]
    /\ arr \in [Threads -> Arrays \cup {NoArray}]
    /\ tmp \in [Threads -> Int] /\ inc \in [Threads -> Int]
    /\ needed \in Sizes \cup {0} /\ alloc \in BOOLEAN /\ woken \subseteq Threads
    /\ untested \in Nat
    /\ lost \subseteq Arrays /\ kept \subseteq Arrays

\* The space charged is that of the arrays in the tree, through allocations,
\* resizings, deferred deletions, truncation, crashes and recovery.
SpaceAccounted == phase # "undefined" => used = SizeOf(Tree)

\* The room is tested before it is taken, without a lock: each of the other
\* threads that may take room can exceed the limit once.  Nothing else passes it but
\* the allocations that a signal let in without a test, since the last test that
\* granted more room.
LargestGrowth == Max(Sizes \cup {n - m : n \in NewSizes, m \in Sizes \cup NewSizes})
Growers == {t \in Threads : Does[t] \cap {"allocate", "chng"} # {}}
OvershootBounded ==
    crashes = 0 =>
    used <= StableStorage + (Cardinality(Growers) - 1) * LargestGrowth + untested

\* Two stores never write one array at a time.
OneWriter == \A a \in Arrays : Cardinality(Writers(a)) <= 1

\* The flag writers poll is left behind on deleted arrays only: whoever waits
\* for another array waits for a thread that is at work on it.
FlagHasOwner ==
    phase # "undefined" =>
    \A a \in Tree : wl[a] =>
        \/ deleted[a]
        \/ \E t \in Threads : /\ arr[t] = a /\ op[t] = "store"
                              /\ pc[t] \in {"write", "wrote", "release", "drop", "check",
                                            "unlock"}

\* An array that was freed is not in the tree again after a crash, whatever the
\* order in which its record and its file went.
NoResurrection == Tree \cap lost = {}

\* Recovery brings back every array the depot owes its clients.
Durable == phase = "recovering" => kept \subseteq Tree
=============================================================================
