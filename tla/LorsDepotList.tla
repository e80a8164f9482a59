--------------------------- MODULE LorsDepotList ---------------------------
(***************************************************************************)
(* The list of depots that the workers of a store or a copy share          *)
(* (lors_depotpool.c): a rotating list of the depots in use, the ones that *)
(* failed, and the pool that refills it.                                   *)
(*                                                                         *)
(* lorsAddDepot never takes dpl->lock (the call is the body of two tests   *)
(* for NULL) but releases it, whoever holds it.  So two threads can be in  *)
(* the list together; each read or relinking of a node is one step.  A     *)
(* thread that takes the first node of a list another one has emptied uses *)
(* the list head as a node: the process crashes.                           *)
(***************************************************************************)
EXTENDS Integers, Sequences, SequencesExt

CONSTANTS
    Depots,
    Pool,        \* dpp->list: all depots, by ascending score
    ListLen      \* dpp->min_unique_depots / 2

ASSUME PoolAssumption ==
    /\ Pool \in Seq(Depots) /\ IsInjective(Pool)
    /\ ListLen \in Nat

VARIABLES
    list,        \* dpl->list
    badList,     \* dpl->bad_list
    count,       \* dpl->count
    locked,      \* dpl->lock is held
    poolLocked   \* dpp->lock is held by lorsRefillListFromPool

listVars == <<list, badList, count, locked, poolLocked>>

\* lorsCreateListFromPool: from the end of the pool, each one in front.
FirstDepots ==
    SubSeq(Pool, IF Len(Pool) > ListLen THEN Len(Pool) - ListLen + 1 ELSE 1, Len(Pool))

ListInit ==
    /\ list = FirstDepots /\ count = Len(FirstDepots)
    /\ badList = {}
    /\ locked = FALSE /\ poolLocked = FALSE

-----------------------------------------------------------------------------
(* lorsGetNextDepot: the first depot goes to the end.                      *)

TakeFirst(d) ==
    /\ ~locked /\ count > 0 /\ list # << >>
    /\ d = Head(list)
    /\ list' = Tail(list)
    /\ locked' = TRUE
    /\ UNCHANGED <<badList, count, poolLocked>>

PutLast(d) ==
    /\ list' = Append(list, d)
    /\ locked' = FALSE
    /\ UNCHANGED <<badList, count, poolLocked>>


NoDepotLeft == ~locked /\ count <= 0 /\ UNCHANGED listVars

TakesGarbage == ~locked /\ count > 0 /\ list = << >> /\ UNCHANGED listVars

-----------------------------------------------------------------------------
(* lorsRemoveDepot: to the list of bad depots.                             *)

Listed(d) == Contains(list, d)

Unlink(d) ==
    /\ ~locked /\ Listed(d)
    /\ list' = RemoveFirst(list, d)
    /\ locked' = TRUE
    /\ UNCHANGED <<badList, count, poolLocked>>

MarkBad(d) ==
    /\ badList' = badList \cup {d}
    /\ count' = count - 1
    /\ locked' = FALSE
    /\ UNCHANGED <<list, poolLocked>>

NothingToRemove(d) == ~locked /\ ~Listed(d) /\ UNCHANGED listVars

-----------------------------------------------------------------------------
(* lorsRefillListFromPool and lorsAddDepot.  added is sub_count, so an     *)
(* added depot counts twice.                                               *)

BeginRefill(wanted) ==
    /\ count < wanted /\ ~poolLocked
    /\ poolLocked' = TRUE
    /\ UNCHANGED <<list, badList, count, locked>>

NoRefill(wanted) == count >= wanted /\ UNCHANGED listVars

Missing(added, wanted) == added + count < wanted
Known(d) == d \in badList \/ Listed(d)

EndRefill ==
    /\ poolLocked' = FALSE
    /\ UNCHANGED <<list, badList, count, locked>>

\* The depot is bad or listed: nothing but the unlock.
SkipDepot ==
    /\ locked' = FALSE
    /\ UNCHANGED <<list, badList, count, poolLocked>>

InsertDepot(d) ==
    /\ list' = <<d>> \o list
    /\ count' = count + 1
    /\ locked' = FALSE
    /\ UNCHANGED <<badList, poolLocked>>
=============================================================================
