---------------------------- MODULE OrderedStream ----------------------------
(***************************************************************************)
(* What lorsSetRealTimeLoad() promises its caller: the N blocks of the     *)
(* range are fetched in any order and sent in ascending order, each once;  *)
(* a block is fetched or lost, never both, and nothing is sent past a lost *)
(* one; the call reports an error only if it has sent no block, and does   *)
(* no work once it has returned.                                           *)
(***************************************************************************)
EXTENDS Integers

CONSTANT N

VARIABLES
    fetched,   \* blocks that have been read from a depot
    lost,      \* blocks that no replica can provide
    sent,      \* the blocks 1..sent are in the output
    verdict    \* what the call has returned: "open" before it returns

vars == <<fetched, lost, sent, verdict>>

Init == fetched = {} /\ lost = {} /\ sent = 0 /\ verdict = "open"

Fetch(b) ==
    /\ verdict = "open" /\ b \notin fetched \cup lost
    /\ fetched' = fetched \cup {b}
    /\ UNCHANGED <<lost, sent, verdict>>

Lose(b) ==
    /\ verdict = "open" /\ b \notin fetched \cup lost
    /\ lost' = lost \cup {b}
    /\ UNCHANGED <<fetched, sent, verdict>>

Deliver ==
    /\ verdict = "open"
    /\ sent + 1 \in fetched
    /\ sent' = sent + 1
    /\ UNCHANGED <<fetched, lost, verdict>>

\* The call returns a count of bytes, or an error if it has sent no block.
Close(v) ==
    /\ verdict = "open"
    /\ v = "error" => sent = 0
    /\ verdict' = v
    /\ UNCHANGED <<fetched, lost, sent>>

Next ==
    \/ \E b \in 1..N : Fetch(b) \/ Lose(b)
    \/ Deliver
    \/ \E v \in {"bytes", "error"} : Close(v)

Spec == Init /\ [][Next]_vars
=============================================================================
