--------------------------- MODULE MCDepotStorage ---------------------------
(* Model values and request sets for TLC.                                  *)
EXTENDS DepotStorage, TLC
CONSTANTS a1, a2, t1, t2

\* Both threads allocate; one of them resizes, transfers and deletes too.
Mixed ==
    t1 :> {"allocate", "store", "load"}
        @@ t2 :> {"allocate", "store", "send", "incr", "decr", "chng"}

\* Two allocations at a time, and one of the threads deletes.
TwoAllocators == t1 :> {"allocate", "decr"} @@ t2 :> {"allocate"}

\* Every array's BackupIndex names its own record, if there is one.  A crash in
\* another state may lose arrays: that is the run of TwoAllocators.
RecordsInOrder ==
    \A a \in Tree : index[a] \in DOMAIN lss => lss[index[a]].key = a
CrashInOrder == crashes' # crashes => RecordsInOrder

\* The names of the arrays are random keys.
AnyName == Permutations({a1, a2})
=============================================================================
