-------------------------- MODULE LorsDownloadFile --------------------------
(***************************************************************************)
(* lors_download (lorsDownloadFile in cmdtools/lors_file.c): the tool      *)
(* opens the output file, perhaps to go on where an earlier run was        *)
(* interrupted (--resume), and calls lorsSetRealTimeLoad for what is left  *)
(* until it has counted all of the bytes.                                  *)
(*                                                                         *)
(* A call is what OrderedStream says of it, on bytes: the nodes of its     *)
(* range are delivered in order up to one that is lost; it returns how     *)
(* many bytes it has written or, if none, an error.                        *)
(***************************************************************************)
EXTENDS LorsMappings, Sequences

CONSTANTS
    Exnodes,        \* the exnodes considered: sets of mappings
    Args,           \* the ranges asked for: [off, len], len 0 for all
    BlockSize,      \* data_blocksize
    MaxRuns, MaxFailures, MaxKills      \* bounds

ASSUME DownloadFileAssumption ==
    /\ \A S \in Exnodes :
          S # {} /\ IsFiniteSet(S) /\ S \subseteq Mappings({m.array : m \in S})
    /\ \A a \in Args : a.off \in Nat /\ a.len \in Nat
    /\ BlockSize \in Nat \ {0}
    /\ {MaxRuns, MaxFailures, MaxKills} \subseteq Nat

Stale == -1         \* a byte of an array that is not the mapping's any more

VARIABLES
    exnode, arg,
    out, created,               \* the output file; whether it exists
    pc, end,                    \* where the tool is; how its last run ended
    offset, length, written,    \* the locals of lorsDownloadFile
    cur,                        \* jp->dst_cur_point of the call
    runs, failures, kills,
    misread, misplaced          \* observed: an error was taken for a count; a run
                                \* went on at a place that is not the file's

input  == <<exnode, arg>>
output == <<out, created>>
locals == <<offset, length, written>>
counts == <<runs, failures, kills>>
seen   == <<misread, misplaced>>
vars == <<input, output, pc, end, locals, cur, counts, seen>>

Init ==
    /\ exnode \in Exnodes /\ arg \in Args
    /\ out = << >> /\ created = FALSE
    /\ pc = "idle" /\ end = "none"
    /\ offset = 0 /\ length = 0 /\ written = 0 /\ cur = 0
    /\ runs = 0 /\ failures = 0 /\ kills = 0
    /\ misread = FALSE /\ misplaced = FALSE

Fails == failures < MaxFailures /\ failures' = failures + 1

-----------------------------------------------------------------------------
(* The tool                                                                *)

\* mlength, or the logical length of the exnode.
Wanted == IF arg.len = 0 THEN FindMaxlength(exnode) ELSE arg.len

\* lseek(fd, 0, SEEK_END) gives the offset, and so much is done.
WholeAgain(done) == Wanted
Remaining(done) == Wanted - done

\* Without --resume, or when there is no file, the output starts anew.
Open ==
    /\ pc = "idle" /\ runs < MaxRuns
    /\ runs' = runs + 1
    /\ created' = TRUE /\ written' = 0 /\ pc' = "loop" /\ end' = "none"
    /\ \/ /\ out' = << >>
          /\ offset' = arg.off /\ length' = Wanted
          /\ misread' = FALSE /\ misplaced' = FALSE
       \/ /\ created
          /\ offset' = Len(out) /\ length' = Remaining(Len(out))
          /\ misplaced' = (misplaced \/ arg.off # 0)
          /\ UNCHANGED <<out, misread>>
    /\ UNCHANGED <<input, cur, failures, kills>>

Call ==
    /\ pc = "loop" /\ written < length
    /\ cur' = offset + written
    /\ pc' = "call"
    /\ UNCHANGED <<input, output, end, locals, counts, seen>>

Exit(how) ==
    /\ end' = how /\ pc' = "idle"
    /\ offset' = 0 /\ length' = 0 /\ written' = 0 /\ cur' = 0

Success ==
    /\ pc = "loop" /\ written >= length
    /\ Exit("success")
    /\ UNCHANGED <<input, output, counts, seen>>

-----------------------------------------------------------------------------
(* One call of lorsSetRealTimeLoad                                         *)

From == offset + written
Last == offset + length     \* the range ends before it

\* The end of the block of _lorsNewBlockArray that a position is in.
BlockEnd(pos) ==
    LET e == From + ((pos - From) \div BlockSize + 1) * BlockSize
    IN  IF e < Last THEN e ELSE Last

Node == NodeLength(exnode, cur, BlockEnd(cur) - cur)

\* Where a byte of the file is in the array of its mapping.
NoAllocOffset(m, p) == p - m.off
LoadOffset(m, p) == p - m.off + m.at

\* IBP_load of one byte.
Loaded(m, p) ==
    LET k == LoadOffset(m, p)
    IN  IF m.at <= k /\ k < m.at + m.len THEN m.off + k - m.at ELSE Stale

Written(m, n) == out \o [i \in 1 .. n |-> Loaded(m, cur + i - 1)]

\* Any replica of the node may be the one that is loaded.
Deliver ==
    /\ pc = "call" /\ cur < Last
    /\ \E m \in Holders(exnode, cur) : out' = Written(m, Node)
    /\ cur' = cur + Node
    /\ UNCHANGED <<input, created, pc, end, locals, counts, seen>>

\* write() fails in the middle of a node.
WriteFails ==
    /\ pc = "call" /\ cur < Last /\ Fails
    /\ \E m \in Holders(exnode, cur), n \in 0 .. Node - 1 :
          /\ out' = Written(m, n)
          /\ cur' = cur + n
    /\ pc' = "close"
    /\ UNCHANGED <<input, created, end, locals, runs, kills, seen>>

\* A hole, a node that no depot gives, or the deadline.
Lost ==
    /\ pc = "call" /\ cur < Last
    /\ IF Holders(exnode, cur) = {} THEN UNCHANGED failures ELSE Fails
    /\ pc' = "close"
    /\ UNCHANGED <<input, output, end, locals, cur, runs, kills, seen>>

AllDelivered ==
    /\ pc = "call" /\ cur = Last
    /\ pc' = "close"
    /\ UNCHANGED <<input, output, end, locals, cur, counts, seen>>

-----------------------------------------------------------------------------
(* What the call returns                                                   *)

ReturnBytes ==
    /\ pc = "close" /\ cur > From
    /\ written' = written + (cur - From)
    /\ pc' = "loop"
    /\ UNCHANGED <<input, output, end, offset, length, cur, counts, seen>>

ReturnError ==
    /\ pc = "close" /\ cur = From
    /\ Exit("failure")
    /\ UNCHANGED <<input, output, counts, seen>>

\* A worker held back by other blocks that wait for the output stores 1 in
\* jp->status after the error, and dret = 1 counts as one byte.
ReturnOne ==
    /\ pc = "close" /\ cur = From /\ cur + Node < Last
    /\ written' = written + 1
    /\ misread' = TRUE
    /\ pc' = "loop"
    /\ UNCHANGED <<input, output, end, offset, length, cur, counts, misplaced>>

-----------------------------------------------------------------------------
\* The tool is killed, maybe within a write().
Kill ==
    /\ pc # "idle" /\ kills < MaxKills
    /\ kills' = kills + 1
    /\ \/ UNCHANGED out
       \/ /\ pc = "call" /\ cur < Last
          /\ \E m \in Holders(exnode, cur), n \in 1 .. Node - 1 : out' = Written(m, n)
    /\ Exit("killed")
    /\ UNCHANGED <<input, created, runs, failures, seen>>

\* No tool runs any more.
Rest == pc = "idle" /\ UNCHANGED vars

Next ==
    \/ Open \/ Call \/ Success
    \/ Deliver \/ WriteFails \/ Lost \/ AllDelivered
    \/ ReturnBytes \/ ReturnError \/ ReturnOne
    \/ Kill \/ Rest

Spec == Init /\ [][Next]_vars

-----------------------------------------------------------------------------
(* Properties                                                              *)

TypeOK ==
    /\ exnode \in Exnodes /\ arg \in Args
    /\ out \in Seq(Nat \cup {Stale}) /\ created \in BOOLEAN
    /\ pc \in {"idle", "loop", "call", "close"}
    /\ end \in {"none", "success", "failure", "killed"}
    /\ offset \in Nat /\ length \in Int /\ written \in Nat
    /\ cur \in 0 .. IF length > 0 THEN Last ELSE 0
    /\ runs \in 0 .. MaxRuns /\ failures \in 0 .. MaxFailures /\ kills \in 0 .. MaxKills
    /\ {misread, misplaced} \subseteq BOOLEAN

\* The output file is a piece of the file from the offset asked for, after every
\* failed write, failed call, kill and resumed run, unless one of two things
\* happened: a failed call returned 1, or a run with an offset was resumed.
OutputTrue ==
    ~misread /\ ~misplaced => \A i \in DOMAIN out : out[i] = arg.off + i - 1

\* "End Success" (lors_file.c:1045): the output is as long as what was asked for.
SuccessWhole ==
    end = "success" /\ ~misread /\ ~misplaced => Len(out) = Wanted
=============================================================================
