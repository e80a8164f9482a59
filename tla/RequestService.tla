--------------------------- MODULE RequestService ---------------------------
(***************************************************************************)
(* What the IBP depot promises the clients that are connected to it: a     *)
(* request that has been read completely is refused at once or served,     *)
(* once; while it waits or is served nothing more is read from its         *)
(* connection and the connection stays open; after a good reply the        *)
(* connection is used again, after a failure it is closed.                 *)
(***************************************************************************)
CONSTANT Conns

VARIABLE phase    \* where each connection is in its cycle

Phases == {"closed", "reading", "waiting", "serving", "replied", "failed"}

Init == phase = [c \in Conns |-> "closed"]

Move(c, from, to) == phase[c] = from /\ phase' = [phase EXCEPT ![c] = to]

Connect(c) == Move(c, "closed", "reading")

\* Idle for too long, a malformed request, a broken link or a full queue.
Drop(c)    == Move(c, "reading", "closed")
Submit(c)  == Move(c, "reading", "waiting")
Serve(c)   == Move(c, "waiting", "serving")
Reply(c)   == Move(c, "serving", "replied")
Fail(c)    == Move(c, "serving", "failed")
Reuse(c)   == Move(c, "replied", "reading")
Close(c)   == Move(c, "failed", "closed")

Next == \E c \in Conns :
    \/ Connect(c) \/ Drop(c) \/ Submit(c) \/ Serve(c)
    \/ Reply(c) \/ Fail(c) \/ Reuse(c) \/ Close(c)

Spec == Init /\ [][Next]_phase
=============================================================================
