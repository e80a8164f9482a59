---------------------------- MODULE DepotServer ----------------------------
(***************************************************************************)
(* How the IBP depot (lbone/ibp/src) gets requests from its sockets to its *)
(* threads and back: the main thread accepts connections, reads requests,  *)
(* puts them in a queue with two priority levels and takes the finished    *)
(* ones from a pipe (ibp_main.c, ibp_request.c, ibp_connection.c); the     *)
(* threads of a pool that grows and shrinks serve them                     *)
(* (ibp_request_queue.c, ibp_thread_pool.c).  One more thread serves only  *)
(* level 0, the status and manage calls.                                   *)
(*                                                                         *)
(* A connection stands for its fd, IBP_CONNECTION and IBP_REQUEST, which   *)
(* are created, passed around and freed together.  A region that holds the *)
(* lock of the queue or of the pool is one step.                           *)
(***************************************************************************)
EXTENDS Integers, FiniteSets, Sequences, Functions

CONSTANTS
    Conns,         \* connections
    NoConn,        \* request == NULL
    MaxThreads,    \* glb.IbpThreadMax
    ThreadNum,     \* glb.IbpThreadNum, the worker threads at the start
    QueueLen,      \* glb.queue_len; 0 means no limit
    MinIdle,       \* IBP_TPOOL_MIN_IDLE_THREAD
    GrowBy,        \* the threads added when more are needed (5)
    Sends,         \* the priority levels of the requests a connection sends
    Stalling,      \* connections whose level 1 requests may be served forever
    Shutdowns      \* the depot may be told to shut down

ASSUME DepotAssumption ==
    /\ IsFiniteSet(Conns) /\ NoConn \notin Conns
    /\ MaxThreads \in Nat \ {0} /\ ThreadNum \in Nat
    /\ QueueLen \in Nat /\ MinIdle \in Nat /\ GrowBy \in Nat
    /\ Sends \in [Conns -> SUBSET {0, 1}]
    /\ Stalling \subseteq Conns
    /\ Shutdowns \in BOOLEAN

Slots  == 1..MaxThreads
Levels == {0, 1}

Roles     == {"none", "worker", "status"}
ThreadPcs == {"top", "enter", "scan", "wait", "woken", "got", "null", "check",
              "exit", "handle"}
MainPcs   == {"loop", "signal", "grow", "cleanup", "exited"}

VARIABLES
    open,          \* connections whose socket is open
    cList,         \* connections in the list that main waits on
    failed,        \* connections whose request ended in REQ_ST_LINK_ERROR
    prio,          \* request->priority
    queue,         \* queue->subQueues, one FIFO per level
    pipe,          \* requests written to glbWrtPipe and not yet read
    role,          \* handles[i].status, and the function its thread runs
    tpc, held,     \* per thread: where it is and the request it serves
    idle,          \* pool->idle
    thdNum,        \* pool->thdNum
    main, num,     \* where main is, and num of append_request
    shutdown       \* glbDepotShutdown

connVars   == <<open, cList, failed, prio>>
threadVars == <<role, tpc, held, idle, thdNum>>
vars == <<open, cList, failed, prio, queue, pipe, role, tpc, held, idle, thdNum,
          main, num, shutdown>>

-----------------------------------------------------------------------------
(* ibp_thread_pool.c                                                       *)

Threads == {s \in Slots : role[s] # "none"}
Free    == Slots \ Threads

\* expand_thread_pool takes the first n empty handles.
FirstFree(n) == {s \in Free : Cardinality({k \in Free : k <= s}) <= n}

Expand(n) ==
    IF shutdown THEN UNCHANGED <<role, tpc, thdNum>>
    ELSE /\ role' = [s \in Slots |-> IF s \in FirstFree(n) THEN "worker" ELSE role[s]]
         /\ tpc' = [s \in Slots |-> IF s \in FirstFree(n) THEN "top" ELSE tpc[s]]
         /\ thdNum' = thdNum + Cardinality(FirstFree(n))

\* free_thread_handler.
HandlerLeft == thdNum
HandlerFreed == thdNum - 1

\* main: expand(thread_main, IbpThreadNum), then expand(handle_status_thread, 1).
InitialRole(s) ==
    IF s <= ThreadNum THEN "worker" ELSE IF s = ThreadNum + 1 THEN "status" ELSE "none"

Init ==
    /\ open = {} /\ cList = {} /\ failed = {}
    /\ prio = [c \in Conns |-> 0]
    /\ queue = [l \in Levels |-> << >>]
    /\ pipe = << >>
    /\ role = [s \in Slots |-> InitialRole(s)]
    /\ tpc = [s \in Slots |-> "top"]
    /\ held = [s \in Slots |-> NoConn]
    /\ idle = 0
    /\ thdNum = IF ThreadNum < MaxThreads THEN ThreadNum + 1 ELSE MaxThreads
    /\ main = "loop" /\ num = 0
    /\ shutdown = FALSE

-----------------------------------------------------------------------------
(* ibp_request_queue.c                                                     *)

Queued == Len(queue[0]) + Len(queue[1])    \* queue->requestsNum
Full == QueueLen > 0 /\ Queued >= QueueLen

\* pthread_cond_signal wakes one of the threads that wait, if there are any.
Sleepers(p) == {s \in Slots : p[s] = "wait"}
Ignored(p) == {p}
Signalled(p) ==
    IF Sleepers(p) = {} THEN {p} ELSE {[p EXCEPT ![s] = "woken"] : s \in Sleepers(p)}
NotBroadcast(p) == p
Broadcast(p) == [s \in Slots |-> IF p[s] = "wait" THEN "woken" ELSE p[s]]

\* The lowest level that has a request comes first; the status thread looks at
\* level 0 only.
AnyLevel(t) == {l \in Levels : queue[l] # << >>}
LevelsFor(t) ==
    {l \in Levels : queue[l] # << >> /\ (role[t] = "worker" \/ l = 0)}

\* thread_main and handle_status_thread: leave at shutdown, else ask for a
\* request; a worker counts itself idle until it gets one.
Top(t) ==
    /\ tpc[t] = "top"
    /\ IF shutdown
         THEN tpc' = [tpc EXCEPT ![t] = "exit"] /\ UNCHANGED idle
         ELSE /\ tpc' = [tpc EXCEPT ![t] = "enter"]
              /\ idle' = IF role[t] = "worker" THEN idle + 1 ELSE idle
    /\ UNCHANGED <<connVars, queue, pipe, role, held, thdNum, main, num, shutdown>>

\* get_request and get_status_request test glbDepotShutdown before the lock.
Enter(t) ==
    /\ tpc[t] = "enter"
    /\ tpc' = [tpc EXCEPT ![t] = IF shutdown THEN "null" ELSE "scan"]
    /\ UNCHANGED <<connVars, queue, pipe, role, held, idle, thdNum, main, num, shutdown>>

\* The locked part: at AGAIN, first or after a wakeup.
Looking(t) == tpc[t] = "scan" \/ (tpc[t] = "woken" /\ ~shutdown)

Take(t) ==
    /\ Looking(t)
    /\ \E l \in LevelsFor(t) :
          /\ \A k \in LevelsFor(t) : l <= k
          /\ held' = [held EXCEPT ![t] = Head(queue[l])]
          /\ queue' = [queue EXCEPT ![l] = Tail(@)]
    /\ LET p == [tpc EXCEPT ![t] = "got"]
       IN  IF Queued > 1 THEN tpc' \in Signalled(p) ELSE tpc' = p
    /\ UNCHANGED <<connVars, pipe, role, idle, thdNum, main, num, shutdown>>

\* Nothing for this thread: the status thread passes on a wakeup that was meant
\* for a worker, then waits.
Sleep(t) ==
    /\ Looking(t) /\ LevelsFor(t) = {}
    /\ tpc' = [(IF Queued > 0 THEN Broadcast(tpc) ELSE tpc) EXCEPT ![t] = "wait"]
    /\ UNCHANGED <<connVars, queue, pipe, role, held, idle, thdNum, main, num, shutdown>>

WokenToStop(t) ==
    /\ tpc[t] = "woken" /\ shutdown
    /\ tpc' = [tpc EXCEPT ![t] = "null"]
    /\ UNCHANGED <<connVars, queue, pipe, role, held, idle, thdNum, main, num, shutdown>>

\* IBP_THD_MAX_IDLE_TIME is over: NULL, whatever the queue holds.
TimeOut(t) ==
    /\ tpc[t] = "wait" /\ role[t] = "worker"
    /\ tpc' = [tpc EXCEPT ![t] = "null"]
    /\ UNCHANGED <<connVars, queue, pipe, role, held, idle, thdNum, main, num, shutdown>>

-----------------------------------------------------------------------------
(* ibp_main.c: the threads                                                 *)

\* inc_idle_thread and dec_idle_thread around get_request; the status thread
\* has neither.
EachCounted(t) == idle - 1
NotIdle(t) == IF role[t] = "worker" THEN idle - 1 ELSE idle

Leave(t) ==
    /\ tpc[t] \in {"got", "null"}
    /\ idle' = NotIdle(t)
    /\ tpc' = [tpc EXCEPT ![t] =
           IF @ = "got" THEN "handle" ELSE IF role[t] = "worker" THEN "check" ELSE "top"]
    /\ UNCHANGED <<connVars, queue, pipe, role, held, thdNum, main, num, shutdown>>

\* No request came: leave if enough other threads are idle.
IdleCheck(t) ==
    /\ tpc[t] = "check"
    /\ tpc' = [tpc EXCEPT ![t] = IF idle > MinIdle THEN "exit" ELSE "top"]
    /\ UNCHANGED <<connVars, queue, pipe, role, held, idle, thdNum, main, num, shutdown>>

Exit(t) ==
    /\ tpc[t] = "exit"
    /\ role' = [role EXCEPT ![t] = "none"]
    /\ tpc' = [tpc EXCEPT ![t] = "top"]
    /\ thdNum' = HandlerFreed
    /\ UNCHANGED <<connVars, queue, pipe, held, idle, main, num, shutdown>>

\* handle_request ends, its status is stored and the request goes in the pipe.
Finish(t, ok) ==
    /\ tpc[t] = "handle"
    /\ failed' = IF ok THEN failed ELSE failed \cup {held[t]}
    /\ pipe' = Append(pipe, held[t])
    /\ held' = [held EXCEPT ![t] = NoConn]
    /\ tpc' = [tpc EXCEPT ![t] = "top"]
    /\ UNCHANGED <<open, cList, prio, queue, role, idle, thdNum, main, num, shutdown>>

Thread(t) ==
    /\ role[t] # "none" /\ main # "exited"
    /\ \/ Top(t) \/ Enter(t) \/ Take(t) \/ Sleep(t) \/ WokenToStop(t) \/ TimeOut(t)
       \/ Leave(t) \/ IdleCheck(t) \/ Exit(t)
       \/ Finish(t, TRUE) \/ Finish(t, FALSE)

-----------------------------------------------------------------------------
(* ibp_main.c, ibp_request.c: the main thread.  One round of its loop      *)
(* handles the ready connections in the order of their descriptors.        *)

\* delete_conn_from_list.
KeepListed(c) == cList
Unlisted(c) == cList \ {c}

\* handle_new_connection.
Accept(c) ==
    /\ main = "loop" /\ ~shutdown /\ c \notin open
    /\ open' = open \cup {c}
    /\ cList' = cList \cup {c}
    /\ UNCHANGED <<failed, prio, queue, pipe, threadVars, main, num, shutdown>>

\* handle_ibp_request: idle for 15 s, broken link or bad message.
CloseListed(c) ==
    /\ main = "loop" /\ c \in cList
    /\ cList' = cList \ {c}
    /\ open' = open \ {c}
    /\ UNCHANGED <<failed, prio, queue, pipe, threadVars, main, num, shutdown>>

\* handle_ibp_request: a request of level l is complete; append_request.
Enqueue(c, l) ==
    /\ main = "loop" /\ c \in cList /\ ~Full
    /\ cList' = Unlisted(c)
    /\ prio' = [prio EXCEPT ![c] = l]
    /\ queue' = [queue EXCEPT ![l] = Append(@, c)]
    /\ num' = Queued + 1
    /\ main' = "signal"
    /\ UNCHANGED <<open, failed, pipe, threadVars, shutdown>>

\* The queue is full: an error goes back and the connection is closed.
Refuse(c) ==
    /\ main = "loop" /\ c \in cList /\ Full
    /\ cList' = cList \ {c}
    /\ open' = open \ {c}
    /\ UNCHANGED <<failed, prio, queue, pipe, threadVars, main, num, shutdown>>

\* The rest of append_request, after it has released the lock.
Signal ==
    /\ main = "signal"
    /\ tpc' \in Signalled(tpc)
    /\ main' = "grow"
    /\ UNCHANGED <<connVars, queue, pipe, role, held, idle, thdNum, num, shutdown>>

Grow ==
    /\ main = "grow"
    /\ IF num > thdNum THEN Expand(GrowBy) ELSE UNCHANGED <<role, tpc, thdNum>>
    /\ main' = "loop"
    /\ num' = 0
    /\ UNCHANGED <<connVars, queue, pipe, held, idle, shutdown>>

\* get_request_status(req) != REQ_ST_SUCCESS.
NeverBroken(c) == FALSE
Broken(c) == c \in failed

\* handle_finish_request: the connection is used again or closed.
ReadPipe ==
    /\ main = "loop" /\ pipe # << >>
    /\ pipe' = Tail(pipe)
    /\ LET c == Head(pipe)
       IN  /\ failed' = failed \ {c}
           /\ prio' = [prio EXCEPT ![c] = 0]
           /\ IF Broken(c)
                THEN open' = open \ {c} /\ UNCHANGED cList
                ELSE cList' = cList \cup {c} /\ UNCHANGED open
    /\ UNCHANGED <<queue, threadVars, main, num, shutdown>>

\* The end of a round.
CheckPool ==
    /\ main = "loop" /\ idle < MinIdle
    /\ Expand(GrowBy)
    /\ UNCHANGED <<connVars, queue, pipe, held, idle, main, num, shutdown>>

\* handle_new_connection at shutdown: broadcast without the lock, then clean_up
\* waits for the threads, for IBP_MAX_SHUTDOWN_WAIT_TIME at most.
StopServing ==
    /\ main = "loop" /\ shutdown
    /\ tpc' = Broadcast(tpc)
    /\ main' = "cleanup"
    /\ UNCHANGED <<connVars, queue, pipe, role, held, idle, thdNum, num, shutdown>>

CleanUp ==
    /\ main = "cleanup"
    /\ main' = "exited"
    /\ UNCHANGED <<connVars, queue, pipe, threadVars, num, shutdown>>

Main ==
    \/ \E c \in Conns : \/ Accept(c) \/ CloseListed(c) \/ Refuse(c)
                        \/ \E l \in Sends[c] : Enqueue(c, l)
    \/ Signal \/ Grow \/ ReadPipe \/ CheckPool \/ StopServing \/ CleanUp

\* ibp_signal_int.
Interrupt ==
    /\ Shutdowns /\ ~shutdown
    /\ shutdown' = TRUE
    /\ UNCHANGED <<connVars, queue, pipe, threadVars, main, num>>

Terminated == main = "exited" /\ UNCHANGED vars

Next == (\E t \in Slots : Thread(t)) \/ Main \/ Interrupt \/ Terminated

Spec == Init /\ [][Next]_vars

\* Threads that can run do run and main goes on with its rounds; serving a
\* request ends, except that of a stalling connection on level 1.  Neither the
\* clients nor the idle time-out are relied on.
Works(t) ==
    /\ role[t] # "none" /\ main # "exited"
    /\ \/ Top(t) \/ Enter(t) \/ Take(t) \/ Sleep(t) \/ WokenToStop(t)
       \/ Leave(t) \/ IdleCheck(t) \/ Exit(t)

Completes(t) ==
    /\ main # "exited" /\ held[t] # NoConn
    /\ held[t] \notin Stalling \/ prio[held[t]] = 0
    /\ Finish(t, TRUE) \/ Finish(t, FALSE)

FairSpec ==
    /\ Spec
    /\ \A t \in Slots : WF_vars(Works(t)) /\ WF_vars(Completes(t))
    /\ WF_vars(Signal) /\ WF_vars(Grow) /\ WF_vars(ReadPipe) /\ WF_vars(CheckPool)

-----------------------------------------------------------------------------
(* Properties                                                              *)

TypeOK ==
    /\ open \subseteq Conns /\ cList \subseteq Conns /\ failed \subseteq Conns
    /\ prio \in [Conns -> Levels]
    /\ queue \in [Levels -> Seq(Conns)] /\ pipe \in Seq(Conns)
    /\ role \in [Slots -> Roles] /\ tpc \in [Slots -> ThreadPcs]
    /\ held \in [Slots -> Conns \cup {NoConn}]
    /\ idle \in Nat /\ thdNum \in Nat
    /\ main \in MainPcs /\ num \in Nat /\ shutdown \in BOOLEAN

InQueue(l) == Range(queue[l])
InPipe     == Range(pipe)
InService  == {held[t] : t \in Slots} \ {NoConn}

\* An open connection is at every moment in exactly one place: main's list, one
\* of the queues, one thread or the pipe.  So no two threads touch its request,
\* and none is lost or freed while somebody has it.
OneOwner ==
    /\ open = cList \cup InQueue(0) \cup InQueue(1) \cup InService \cup InPipe
    /\ cList \cap (InQueue(0) \cup InQueue(1) \cup InService \cup InPipe) = {}
    /\ InQueue(0) \cap (InQueue(1) \cup InService \cup InPipe) = {}
    /\ InQueue(1) \cap (InService \cup InPipe) = {}
    /\ InService \cap InPipe = {}
    /\ IsInjective(queue[0]) /\ IsInjective(queue[1]) /\ IsInjective(pipe)
    /\ \A s, t \in Slots : held[s] = held[t] /\ held[s] # NoConn => s = t

\* pool->thdNum and pool->idle count the threads and the idle workers, in spite
\* of the threads that are created, time out and leave (the asserts of
\* inc_idle_thread and dec_idle_thread).
IdleWorkers ==
    {t \in Slots : role[t] = "worker" /\ tpc[t] \in {"enter", "scan", "wait", "woken", "got", "null"}}

PoolAccounting ==
    /\ thdNum = Cardinality(Threads)
    /\ idle = Cardinality(IdleWorkers)
    /\ idle <= thdNum

\* No lost wakeup: a thread does not sleep beside a request it could take,
\* unless another one is on its way to the queue.
WorkConserving ==
    (\E t \in Threads : tpc[t] = "wait" /\ LevelsFor(t) # {}) =>
        \/ main = "signal" \/ shutdown
        \/ \E t \in Threads : tpc[t] \in {"top", "enter", "scan", "woken"}

\* Where a connection is, as a client sees it.
Phase == [c \in Conns |->
    IF c \in cList THEN "reading"
    ELSE IF c \in InQueue(0) \cup InQueue(1) THEN "waiting"
    ELSE IF c \in InService THEN "serving"
    ELSE IF c \in InPipe THEN (IF c \in failed THEN "failed" ELSE "replied")
    ELSE "closed"]

\* The depot keeps its promise to every client until it exits.
Service == INSTANCE RequestService WITH phase <- Phase

ImplementsService == Service!Spec

\* Status and manage requests are served although every worker may be stuck in
\* a transfer: the status thread takes nothing else.
StatusServed == \A c \in Conns : c \in InQueue(0) ~> c \notin InQueue(0)

\* If the status requests cease and every transfer that is served ends, each
\* transfer that is queued gets served: no wakeup is lost to the status thread,
\* and a worker that times out does not leave one behind.
AllServed ==
    <>[](InQueue(0) = {}) /\ (\A d \in Stalling : []<>(d \notin InService))
        => \A c \in Conns : c \in InQueue(1) ~> c \notin InQueue(1)
=============================================================================
