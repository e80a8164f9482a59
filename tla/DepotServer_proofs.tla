------------------------ MODULE DepotServer_proofs ------------------------
(***************************************************************************)
(* Proofs about the depot's request service, for every number of           *)
(* connections and of threads, every bound of the queue and of the pool    *)
(* and whatever the clients send.                                          *)
(***************************************************************************)
EXTENDS DepotServer, FiniteSetTheorems, TLAPS

(* The inductive invariant. *)

\* A thread holds a request from the moment it takes it from the queue until it
\* puts it in the pipe; an empty handle is at the start of its loop; the
\* requests that failed are on their way back to main.
Shape ==
    /\ \A t \in Slots : held[t] # NoConn <=> tpc[t] \in {"got", "handle"}
    /\ \A t \in Slots : role[t] = "none" => tpc[t] = "top"
    /\ failed \subseteq InPipe

IInv ==
    /\ TypeOK
    /\ Shape
    /\ OneOwner
    /\ PoolAccounting
    /\ WorkConserving
-----------------------------------------------------------------------------
(* What the queues and the pipe hold after a request is put in or taken. *)

LEMMA AppendRange ==
    ASSUME NEW S, NEW s \in Seq(S), NEW e \in S
    PROVE  /\ Append(s, e) \in Seq(S)
           /\ Range(Append(s, e)) = Range(s) \cup {e}
           /\ IsInjective(s) /\ e \notin Range(s) => IsInjective(Append(s, e))
<1>. DEFINE q == Append(s, e)
<1>1. /\ q \in Seq(S) /\ Len(q) = Len(s) + 1 /\ Len(s) \in Nat
      /\ DOMAIN s = 1..Len(s) /\ DOMAIN q = 1..(Len(s) + 1)
      /\ \A i \in 1..Len(s) : q[i] = s[i]
      /\ q[Len(s) + 1] = e
  OBVIOUS
<1>2. Range(q) = Range(s) \cup {e}
  BY <1>1 DEF Range
<1>3. ASSUME IsInjective(s), e \notin Range(s)
      PROVE  IsInjective(q)
  BY <1>1, <1>3 DEF IsInjective, Range
<1>. QED  BY <1>1, <1>2, <1>3

LEMMA TailRange ==
    ASSUME NEW S, NEW s \in Seq(S), s # << >>
    PROVE  /\ Head(s) \in S /\ Tail(s) \in Seq(S)
           /\ Head(s) \in Range(s)
           /\ Range(s) = Range(Tail(s)) \cup {Head(s)}
           /\ IsInjective(s) => IsInjective(Tail(s)) /\ Head(s) \notin Range(Tail(s))
<1>. DEFINE q == Tail(s)
<1>1. /\ q \in Seq(S) /\ Len(s) \in Nat \ {0}
      /\ DOMAIN s = 1..Len(s) /\ DOMAIN q = 1..(Len(s) - 1)
      /\ \A i \in 1..(Len(s) - 1) : q[i] = s[i + 1]
      /\ Head(s) = s[1] /\ s[1] \in S
  OBVIOUS
<1>2. Range(s) = Range(q) \cup {s[1]}
  <2>1. ASSUME NEW i \in 1..Len(s) PROVE s[i] \in Range(q) \cup {s[1]}
    <3>1. CASE i = 1
      BY <3>1
    <3>2. CASE i # 1
      <4>1. i - 1 \in 1..(Len(s) - 1) /\ (i - 1) + 1 = i
        BY <3>2, <1>1
      <4>2. q[i - 1] = s[i] /\ i - 1 \in DOMAIN q
        BY <4>1, <1>1
      <4>3. q[i - 1] \in Range(q)
        BY <4>2 DEF Range
      <4>. QED  BY <4>2, <4>3
    <3>. QED  BY <3>1, <3>2
  <2>2. ASSUME NEW i \in 1..(Len(s) - 1) PROVE q[i] \in Range(s)
    BY <1>1 DEF Range
  <2>3. s[1] \in Range(s)
    BY <1>1 DEF Range
  <2>. QED  BY <2>1, <2>2, <2>3, <1>1 DEF Range
<1>3. ASSUME IsInjective(s)
      PROVE  IsInjective(q) /\ s[1] \notin Range(q)
  <2>1. ASSUME NEW i \in 1..(Len(s) - 1), NEW j \in 1..(Len(s) - 1), q[i] = q[j]
        PROVE  i = j
    <3>1. i + 1 \in DOMAIN s /\ j + 1 \in DOMAIN s /\ s[i + 1] = s[j + 1]
      BY <1>1, <2>1
    <3>2. i + 1 = j + 1
      BY <3>1, <1>3 DEF IsInjective
    <3>. QED  BY <3>2
  <2>2. ASSUME NEW i \in 1..(Len(s) - 1) PROVE q[i] # s[1]
    BY <1>1, <1>3 DEF IsInjective
  <2>. QED  BY <2>1, <2>2, <1>1 DEF IsInjective, Range
<1>4. s[1] \in Range(s)
  BY <1>1 DEF Range
<1>. QED  BY <1>1, <1>2, <1>3, <1>4
-----------------------------------------------------------------------------
(* Wakeups. *)

\* From p to q some of the threads that wait are woken and nothing else changes.
Wakes(p, q) ==
    /\ q \in [Slots -> ThreadPcs]
    /\ \A s \in Slots : q[s] = p[s] \/ (p[s] = "wait" /\ q[s] = "woken")

LEMMA SignalWakes ==
    ASSUME NEW p \in [Slots -> ThreadPcs], NEW q \in Signalled(p)
    PROVE  /\ Wakes(p, q)
           /\ (\E s \in Slots : p[s] = "wait") => \E s \in Slots : p[s] = "wait" /\ q[s] = "woken"
<1>1. CASE Sleepers(p) = {}
  BY <1>1 DEF Signalled, Sleepers, Wakes
<1>2. CASE Sleepers(p) # {}
  <2>1. PICK s \in Sleepers(p) : q = [p EXCEPT ![s] = "woken"]
    BY <1>2 DEF Signalled
  <2>2. s \in Slots /\ p[s] = "wait" /\ "woken" \in ThreadPcs
    BY <2>1 DEF Sleepers, ThreadPcs
  <2>. QED  BY <2>1, <2>2 DEF Wakes
<1>. QED  BY <1>1, <1>2

LEMMA BroadcastWakes ==
    ASSUME NEW p \in [Slots -> ThreadPcs]
    PROVE  Wakes(p, Broadcast(p)) /\ \A s \in Slots : Broadcast(p)[s] # "wait"
  BY DEF Wakes, Broadcast, ThreadPcs

\* A step of thread t that only moves it, after which it is at x, and wakes
\* some others.
Moves(t, x) ==
    /\ x \in ThreadPcs
    /\ tpc' \in [Slots -> ThreadPcs] /\ tpc'[t] = x
    /\ \A s \in Slots \ {t} : tpc'[s] = tpc[s] \/ (tpc[s] = "wait" /\ tpc'[s] = "woken")

LEMMA MoveFacts ==
    ASSUME TypeOK, NEW t \in Slots, NEW x \in ThreadPcs,
           tpc' = [tpc EXCEPT ![t] = x]
    PROVE  Moves(t, x) /\ \A s \in Slots \ {t} : tpc'[s] = tpc[s]
  BY DEF TypeOK, Moves

LEMMA TakeMoves ==
    ASSUME TypeOK, NEW t \in Slots, Take(t)
    PROVE  /\ Moves(t, "got")
           /\ Queued > 1 => \/ \A s \in Slots \ {t} : tpc[s] # "wait"
                            \/ \E s \in Slots \ {t} : tpc[s] = "wait" /\ tpc'[s] = "woken"
<1>. DEFINE p == [tpc EXCEPT ![t] = "got"]
<1>1. p \in [Slots -> ThreadPcs] /\ p[t] = "got" /\ \A s \in Slots \ {t} : p[s] = tpc[s]
  BY DEF TypeOK, ThreadPcs
<1>2. IF Queued > 1 THEN tpc' \in Signalled(p) ELSE tpc' = p
  BY DEF Take
<1>. HIDE DEF p
<1>. "got" \in ThreadPcs
  BY DEF ThreadPcs
<1>3. CASE Queued > 1
  <2>1. /\ Wakes(p, tpc')
        /\ (\E s \in Slots : p[s] = "wait") => \E s \in Slots : p[s] = "wait" /\ tpc'[s] = "woken"
    BY <1>1, <1>2, <1>3, SignalWakes
  <2>. QED  BY <2>1, <1>1 DEF Moves, Wakes
<1>4. CASE ~(Queued > 1)
  BY <1>1, <1>2, <1>4 DEF Moves
<1>. QED  BY <1>3, <1>4

LEMMA SleepMoves ==
    ASSUME TypeOK, NEW t \in Slots, Sleep(t)
    PROVE  /\ Moves(t, "wait")
           /\ Queued > 0 => \A s \in Slots \ {t} : tpc'[s] # "wait"
<1>. DEFINE p == IF Queued > 0 THEN Broadcast(tpc) ELSE tpc
<1>. "wait" \in ThreadPcs
  BY DEF ThreadPcs
<1>1. /\ Wakes(tpc, p)
      /\ Queued > 0 => \A s \in Slots : p[s] # "wait"
  <2>1. tpc \in [Slots -> ThreadPcs]
    BY DEF TypeOK
  <2>2. CASE Queued > 0
    BY <2>1, <2>2, BroadcastWakes
  <2>3. CASE ~(Queued > 0)
    BY <2>1, <2>3 DEF Wakes
  <2>. QED  BY <2>2, <2>3
<1>2. tpc' = [p EXCEPT ![t] = "wait"]
  BY DEF Sleep
<1>. HIDE DEF p
<1>. QED  BY <1>1, <1>2 DEF Moves, Wakes
-----------------------------------------------------------------------------
(* The pool's sets are finite, and how its counters follow them. *)

IdlePcs == {"enter", "scan", "wait", "woken", "got", "null"}

LEMMA PoolFinite ==
    ASSUME NEW T \in SUBSET Slots
    PROVE  IsFiniteSet(T) /\ Cardinality(T) \in Nat
<1>1. IsFiniteSet(Slots)
  BY FS_Interval, DepotAssumption DEF Slots
<1>. QED  BY <1>1, FS_Subset, FS_CardinalityType

LEMMA IdleWithinPool ==
    /\ IdleWorkers \in SUBSET Threads /\ Threads \in SUBSET Slots
    /\ Cardinality(IdleWorkers) <= Cardinality(Threads)
    /\ Cardinality(IdleWorkers) \in Nat /\ Cardinality(Threads) \in Nat
<1>1. IdleWorkers \in SUBSET Threads /\ Threads \in SUBSET Slots
  BY DEF IdleWorkers, Threads
<1>2. IsFiniteSet(Threads) /\ Cardinality(Threads) \in Nat
  BY <1>1, PoolFinite
<1>3. Cardinality(IdleWorkers) <= Cardinality(Threads)
  BY <1>1, <1>2, FS_Subset
<1>4. Cardinality(IdleWorkers) \in Nat
  BY <1>1, PoolFinite
<1>. QED  BY <1>1, <1>2, <1>3, <1>4

\* Both counters stand for the two sets; that idle <= thdNum follows.
LEMMA AccountingFromCounts ==
    ASSUME thdNum' = Cardinality(Threads'), idle' = Cardinality(IdleWorkers')
    PROVE  PoolAccounting' /\ idle' \in Nat /\ thdNum' \in Nat
<1>1. (Cardinality(IdleWorkers) <= Cardinality(Threads)
       /\ Cardinality(IdleWorkers) \in Nat /\ Cardinality(Threads) \in Nat)'
  BY IdleWithinPool, PTL
<1>. QED  BY <1>1 DEF PoolAccounting

LEMMA CountsKept ==
    ASSUME PoolAccounting, role' = role, idle' = idle, thdNum' = thdNum,
           \A s \in Slots : role[s] = "worker" => (tpc'[s] \in IdlePcs <=> tpc[s] \in IdlePcs)
    PROVE  PoolAccounting' /\ idle' \in Nat /\ thdNum' \in Nat
<1>1. Threads' = Threads
  BY DEF Threads
<1>2. IdleWorkers' = IdleWorkers
  BY DEF IdleWorkers, IdlePcs
<1>. QED  BY <1>1, <1>2, AccountingFromCounts DEF PoolAccounting

LEMMA ExpandCounts ==
    ASSUME TypeOK, Shape, PoolAccounting, NEW n \in Nat, Expand(n), idle' = idle
    PROVE  PoolAccounting' /\ idle' \in Nat /\ thdNum' \in Nat
<1>1. CASE shutdown
  BY <1>1, CountsKept DEF Expand
<1>2. CASE ~shutdown
  <2>. DEFINE F == FirstFree(n)
  <2>1. F \in SUBSET Slots /\ F \cap Threads = {}
    BY DEF FirstFree, Free
  <2>2. /\ role' = [s \in Slots |-> IF s \in F THEN "worker" ELSE role[s]]
        /\ tpc' = [s \in Slots |-> IF s \in F THEN "top" ELSE tpc[s]]
        /\ thdNum' = thdNum + Cardinality(F)
    BY <1>2 DEF Expand
  <2>. HIDE DEF F
  <2>3. Threads' = Threads \cup F
    BY <2>1, <2>2 DEF Threads
  <2>4. \A s \in F : tpc[s] = "top"
    BY <2>1 DEF Shape, Threads, TypeOK
  <2>5. IdleWorkers' = IdleWorkers
    BY <2>1, <2>2, <2>4 DEF IdleWorkers
  <2>6. IsFiniteSet(F) /\ IsFiniteSet(Threads) /\ Cardinality(F) \in Nat /\ Cardinality(Threads) \in Nat
    BY <2>1, PoolFinite DEF Threads
  <2>7. Cardinality(Threads \cap F) = 0
    <3>1. Threads \cap F = {}
      BY <2>1
    <3>. QED  BY <3>1, FS_EmptySet
  <2>8. Cardinality(Threads \cup F) = Cardinality(Threads) + Cardinality(F) - Cardinality(Threads \cap F)
    BY <2>6, FS_Union
  <2>9. thdNum = Cardinality(Threads)
    BY DEF PoolAccounting
  <2>10. Cardinality(Threads') = thdNum'
    BY <2>2, <2>3, <2>6, <2>7, <2>8, <2>9
  <2>. QED  BY <2>5, <2>10, AccountingFromCounts DEF PoolAccounting
<1>. QED  BY <1>1, <1>2

LEMMA ThreadCounts ==
    ASSUME TypeOK, Shape, PoolAccounting, NEW t \in Slots, Thread(t)
    PROVE  PoolAccounting' /\ idle' \in Nat /\ thdNum' \in Nat
<1>. role \in [Slots -> Roles] /\ tpc \in [Slots -> ThreadPcs]
  BY DEF TypeOK
<1>. role[t] # "none"
  BY DEF Thread
<1>a. IsFiniteSet(IdleWorkers) /\ IsFiniteSet(Threads) /\ Cardinality(IdleWorkers) \in Nat
  BY PoolFinite DEF IdleWorkers, Threads
<1>1. CASE Top(t) /\ ~shutdown /\ role[t] = "worker"
  <2>1. tpc[t] = "top" /\ tpc' = [tpc EXCEPT ![t] = "enter"] /\ idle' = idle + 1
        /\ role' = role /\ thdNum' = thdNum
    BY <1>1 DEF Top
  <2>2. IdleWorkers' = IdleWorkers \cup {t} /\ t \notin IdleWorkers /\ Threads' = Threads
    BY <1>1, <2>1 DEF IdleWorkers, Threads
  <2>3. Cardinality(IdleWorkers \cup {t}) = Cardinality(IdleWorkers) + 1
    BY <1>a, <2>2, FS_AddElement
  <2>. QED  BY <2>1, <2>2, <2>3, AccountingFromCounts DEF PoolAccounting
<1>2. CASE Leave(t) /\ role[t] = "worker"
  <2>1. /\ tpc[t] \in {"got", "null"} /\ tpc' \in [Slots -> ThreadPcs]
        /\ tpc'[t] \in {"handle", "check"}
        /\ \A s \in Slots \ {t} : tpc'[s] = tpc[s]
        /\ idle' = idle - 1 /\ role' = role /\ thdNum' = thdNum
    BY <1>2 DEF Leave, NotIdle, ThreadPcs
  <2>2. IdleWorkers' = IdleWorkers \ {t} /\ t \in IdleWorkers /\ Threads' = Threads
    BY <1>2, <2>1 DEF IdleWorkers, Threads
  <2>3. Cardinality(IdleWorkers \ {t}) = Cardinality(IdleWorkers) - 1
    BY <1>a, <2>2, FS_RemoveElement
  <2>. QED  BY <2>1, <2>2, <2>3, AccountingFromCounts DEF PoolAccounting
<1>3. CASE Exit(t)
  <2>1. /\ tpc[t] = "exit" /\ tpc' = [tpc EXCEPT ![t] = "top"] /\ idle' = idle
        /\ role' = [role EXCEPT ![t] = "none"] /\ thdNum' = thdNum - 1
    BY <1>3 DEF Exit, HandlerFreed
  <2>2. IdleWorkers' = IdleWorkers
    BY <2>1 DEF IdleWorkers
  <2>3. Threads' = Threads \ {t} /\ t \in Threads
    BY <2>1 DEF Threads
  <2>4. Cardinality(Threads \ {t}) = Cardinality(Threads) - 1
    BY <1>a, <2>3, FS_RemoveElement
  <2>. QED  BY <2>1, <2>2, <2>3, <2>4, AccountingFromCounts DEF PoolAccounting
<1>4. CASE Take(t)
  <2>1. Moves(t, "got") /\ tpc[t] \in {"scan", "woken"}
    BY <1>4, TakeMoves DEF Take, Looking
  <2>2. role' = role /\ idle' = idle /\ thdNum' = thdNum
    BY <1>4 DEF Take
  <2>. QED  BY <2>1, <2>2, CountsKept DEF Moves, IdlePcs
<1>5. CASE Sleep(t)
  <2>1. Moves(t, "wait") /\ tpc[t] \in {"scan", "woken"}
    BY <1>5, SleepMoves DEF Sleep, Looking
  <2>2. role' = role /\ idle' = idle /\ thdNum' = thdNum
    BY <1>5 DEF Sleep
  <2>. QED  BY <2>1, <2>2, CountsKept DEF Moves, IdlePcs
<1>6. CASE \/ Top(t) /\ (shutdown \/ role[t] # "worker")
           \/ Leave(t) /\ role[t] # "worker"
           \/ Enter(t) \/ WokenToStop(t) \/ TimeOut(t) \/ IdleCheck(t)
           \/ Finish(t, TRUE) \/ Finish(t, FALSE)
  <2>1. /\ role' = role /\ thdNum' = thdNum /\ idle' = idle
        /\ \A s \in Slots \ {t} : tpc'[s] = tpc[s]
    BY <1>6 DEF Top, Leave, Enter, WokenToStop, TimeOut, IdleCheck, Finish, NotIdle
  <2>2. role[t] = "worker" => (tpc'[t] \in IdlePcs <=> tpc[t] \in IdlePcs)
    BY <1>6 DEF Top, Leave, Enter, WokenToStop, TimeOut, IdleCheck, Finish, IdlePcs
  <2>. QED  BY <2>1, <2>2, CountsKept
<1>7. CASE Top(t)
  <2>1. shutdown \in BOOLEAN
    BY DEF TypeOK
  <2>2. CASE shutdown
    BY <1>6, <1>7, <2>2
  <2>3. CASE ~shutdown
    BY <1>1, <1>6, <1>7, <2>3
  <2>. QED  BY <2>2, <2>3
<1>8. CASE Leave(t)
  BY <1>2, <1>6, <1>8
<1>. QED  BY <1>3, <1>4, <1>5, <1>6, <1>7, <1>8 DEF Thread

LEMMA PoolStep ==
    ASSUME TypeOK, Shape, PoolAccounting, [Next]_vars
    PROVE  PoolAccounting' /\ idle' \in Nat /\ thdNum' \in Nat
<1>. tpc \in [Slots -> ThreadPcs] /\ GrowBy \in Nat
  BY DepotAssumption DEF TypeOK
<1>1. CASE \E t \in Slots : Thread(t)
  BY <1>1, ThreadCounts
<1>2. CASE Signal
  <2>1. role' = role /\ idle' = idle /\ thdNum' = thdNum /\ tpc' \in Signalled(tpc)
    BY <1>2 DEF Signal
  <2>2. Wakes(tpc, tpc')
    BY <2>1, SignalWakes
  <2>. QED  BY <2>1, <2>2, CountsKept DEF Wakes, IdlePcs
<1>3. CASE StopServing
  <2>1. role' = role /\ idle' = idle /\ thdNum' = thdNum /\ tpc' = Broadcast(tpc)
    BY <1>3 DEF StopServing
  <2>2. Wakes(tpc, tpc')
    BY <2>1, BroadcastWakes
  <2>. QED  BY <2>1, <2>2, CountsKept DEF Wakes, IdlePcs
<1>4. CASE Grow
  <2>1. idle' = idle /\ (Expand(GrowBy) \/ UNCHANGED <<role, tpc, thdNum>>)
    BY <1>4 DEF Grow
  <2>. QED  BY <2>1, ExpandCounts, CountsKept
<1>5. CASE CheckPool
  BY <1>5, ExpandCounts DEF CheckPool
<1>6. CASE UNCHANGED threadVars
  BY <1>6, CountsKept DEF threadVars
<1>7. ASSUME NEW c \in Conns,
             \/ Accept(c) \/ CloseListed(c) \/ Refuse(c) \/ \E l \in Sends[c] : Enqueue(c, l)
      PROVE  UNCHANGED threadVars
  BY <1>7 DEF Accept, CloseListed, Refuse, Enqueue
<1>8. ASSUME ReadPipe \/ CleanUp \/ Interrupt \/ Terminated \/ UNCHANGED vars
      PROVE  UNCHANGED threadVars
  BY <1>8 DEF ReadPipe, CleanUp, Interrupt, Terminated, vars, threadVars
<1>. QED  BY <1>1, <1>2, <1>3, <1>4, <1>5, <1>6, <1>7, <1>8 DEF Next, Main
-----------------------------------------------------------------------------
(* Where the requests are. *)

\* The steps by which a request changes place.  Any other step leaves them all
\* where they are.
Delivers(t) == Take(t) \/ Finish(t, TRUE) \/ Finish(t, FALSE)

LEMMA StaysPut ==
    ASSUME [Next]_vars
    PROVE  \/ \E t \in Slots : role[t] # "none" /\ Delivers(t)
           \/ \E c \in Conns : Accept(c) \/ CloseListed(c) \/ Refuse(c)
           \/ \E c \in Conns : \E l \in Sends[c] : Enqueue(c, l)
           \/ ReadPipe
           \/ UNCHANGED <<connVars, queue, pipe, held>>
<1>1. ASSUME NEW t \in Slots, Thread(t)
      PROVE  role[t] # "none" /\ (Delivers(t) \/ UNCHANGED <<connVars, queue, pipe, held>>)
  BY <1>1 DEF Thread, Delivers, Top, Enter, Sleep, WokenToStop, TimeOut, Leave, IdleCheck, Exit
<1>2. ASSUME Signal \/ Grow \/ CheckPool \/ StopServing \/ CleanUp \/ Interrupt \/ Terminated
             \/ UNCHANGED vars
      PROVE  UNCHANGED <<connVars, queue, pipe, held>>
  BY <1>2 DEF Signal, Grow, CheckPool, StopServing, CleanUp, Interrupt, Terminated, vars,
              connVars, threadVars
<1>. QED  BY <1>1, <1>2 DEF Next, Main

\* Thread t takes request c, the first of level l.
Takes(t, l, c) ==
    /\ l \in Levels /\ c \in Conns /\ c \in InQueue(l)
    /\ queue' \in [Levels -> Seq(Conns)]
    /\ InQueue(l) = InQueue(l)' \cup {c}
    /\ \A k \in Levels \ {l} : queue'[k] = queue[k] /\ InQueue(k)' = InQueue(k)
    /\ IsInjective(queue[l]) => IsInjective(queue'[l]) /\ c \notin InQueue(l)'
    /\ held[t] = NoConn /\ held' = [held EXCEPT ![t] = c]
    /\ InService' = InService \cup {c}

LEMMA TakePlaces ==
    ASSUME TypeOK, Shape, NEW t \in Slots, Take(t)
    PROVE  \E l \in Levels, c \in Conns : Takes(t, l, c)
<1>1. PICK l \in LevelsFor(t) :
          held' = [held EXCEPT ![t] = Head(queue[l])] /\ queue' = [queue EXCEPT ![l] = Tail(@)]
  BY DEF Take
<1>. DEFINE c == Head(queue[l])
<1>2. l \in Levels /\ queue[l] # << >> /\ queue[l] \in Seq(Conns) /\ queue \in [Levels -> Seq(Conns)]
  BY DEF LevelsFor, TypeOK
<1>3. /\ c \in Conns /\ Tail(queue[l]) \in Seq(Conns) /\ c \in Range(queue[l])
      /\ Range(queue[l]) = Range(Tail(queue[l])) \cup {c}
      /\ IsInjective(queue[l]) => IsInjective(Tail(queue[l])) /\ c \notin Range(Tail(queue[l]))
  BY <1>2, TailRange
<1>. HIDE DEF c
<1>4. /\ queue'[l] = Tail(queue[l]) /\ \A k \in Levels \ {l} : queue'[k] = queue[k]
      /\ queue' \in [Levels -> Seq(Conns)]
  BY <1>1, <1>2, <1>3
<1>5. c # NoConn
  BY <1>3, DepotAssumption
<1>6. held[t] = NoConn /\ held' = [held EXCEPT ![t] = c] /\ held \in [Slots -> Conns \cup {NoConn}]
  BY <1>1 DEF Take, Looking, Shape, TypeOK, c
<1>7. InService' = InService \cup {c}
  <2>1. held'[t] = c /\ \A s \in Slots \ {t} : held'[s] = held[s]
    BY <1>6
  <2>. QED  BY <2>1, <1>5, <1>6 DEF InService
<1>8. Takes(t, l, c)
  BY <1>1, <1>2, <1>3, <1>4, <1>6, <1>7 DEF InQueue, Takes
<1>. QED  BY <1>2, <1>3, <1>8

LEMMA FinishPlaces ==
    ASSUME TypeOK, Shape, OneOwner, NEW t \in Slots, NEW ok \in BOOLEAN, Finish(t, ok)
    PROVE  /\ held[t] \in Conns /\ held[t] \in InService
           /\ InService' = InService \ {held[t]}
           /\ pipe' \in Seq(Conns) /\ InPipe' = InPipe \cup {held[t]}
           /\ IsInjective(pipe')
           /\ held' = [held EXCEPT ![t] = NoConn]
           /\ UNCHANGED <<open, cList, queue>>
<1>1. /\ held[t] # NoConn /\ held \in [Slots -> Conns \cup {NoConn}] /\ pipe \in Seq(Conns)
      /\ held' = [held EXCEPT ![t] = NoConn] /\ pipe' = Append(pipe, held[t])
      /\ UNCHANGED <<open, cList, queue>>
  BY DEF Finish, Shape, TypeOK
<1>2. held[t] \in Conns /\ held[t] \in InService
  BY <1>1 DEF InService
<1>3. held[t] \notin Range(pipe) /\ IsInjective(pipe)
  BY <1>2 DEF OneOwner, InPipe
<1>4. pipe' \in Seq(Conns) /\ Range(pipe') = Range(pipe) \cup {held[t]} /\ IsInjective(pipe')
  BY <1>1, <1>2, <1>3, AppendRange
<1>5. InService' = InService \ {held[t]}
  <2>1. /\ held'[t] = NoConn /\ \A s \in Slots \ {t} : held'[s] = held[s]
        /\ \A s \in Slots \ {t} : held[s] # held[t]
    BY <1>1 DEF OneOwner
  <2>. QED  BY <2>1 DEF InService
<1>. QED  BY <1>1, <1>2, <1>4, <1>5 DEF InPipe

LEMMA EnqueuePlaces ==
    ASSUME TypeOK, OneOwner, NEW c \in Conns, NEW l \in Sends[c], Enqueue(c, l)
    PROVE  /\ l \in Levels /\ c \in cList /\ cList' = cList \ {c}
           /\ queue' \in [Levels -> Seq(Conns)]
           /\ InQueue(l)' = InQueue(l) \cup {c}
           /\ IsInjective(queue'[l])
           /\ \A k \in Levels \ {l} : queue'[k] = queue[k]
           /\ UNCHANGED <<open, pipe, held, failed>>
<1>1. /\ c \in cList /\ cList' = cList \ {c}
      /\ queue' = [queue EXCEPT ![l] = Append(@, c)]
      /\ UNCHANGED <<open, pipe, held, failed>>
  BY DEF Enqueue, Unlisted, threadVars
<1>2. l \in Levels
  BY DepotAssumption DEF Levels
<1>3. queue \in [Levels -> Seq(Conns)] /\ queue[l] \in Seq(Conns)
  BY <1>2 DEF TypeOK
<1>4. c \notin Range(queue[l]) /\ IsInjective(queue[l])
  BY <1>1, <1>2 DEF OneOwner, InQueue, Levels
<1>5. /\ Append(queue[l], c) \in Seq(Conns) /\ IsInjective(Append(queue[l], c))
      /\ Range(Append(queue[l], c)) = Range(queue[l]) \cup {c}
  BY <1>3, <1>4, AppendRange
<1>6. /\ queue'[l] = Append(queue[l], c) /\ queue' \in [Levels -> Seq(Conns)]
      /\ \A k \in Levels \ {l} : queue'[k] = queue[k]
  BY <1>1, <1>2, <1>3, <1>5
<1>. QED  BY <1>1, <1>2, <1>5, <1>6 DEF InQueue

LEMMA ReadPipePlaces ==
    ASSUME TypeOK, OneOwner, ReadPipe
    PROVE  \E c \in InPipe :
              /\ c = Head(pipe) /\ c \in Conns
              /\ pipe' \in Seq(Conns) /\ InPipe' = InPipe \ {c} /\ IsInjective(pipe')
              /\ failed' = failed \ {c} /\ prio' = [prio EXCEPT ![c] = 0]
              /\ \/ c \in failed /\ open' = open \ {c} /\ cList' = cList
                 \/ c \notin failed /\ open' = open /\ cList' = cList \cup {c}
              /\ UNCHANGED <<queue, held>>
<1>1. /\ pipe \in Seq(Conns) /\ pipe # << >> /\ pipe' = Tail(pipe) /\ IsInjective(pipe)
  BY DEF ReadPipe, TypeOK, OneOwner
<1>2. /\ Head(pipe) \in Conns /\ pipe' \in Seq(Conns) /\ Head(pipe) \in InPipe
      /\ InPipe' = InPipe \ {Head(pipe)} /\ IsInjective(pipe')
  BY <1>1, TailRange DEF InPipe
<1>. QED  BY <1>2 DEF ReadPipe, Broken, threadVars
-----------------------------------------------------------------------------
(* The step of each part of the invariant. *)

LEMMA OwnerStep ==
    ASSUME TypeOK, Shape, OneOwner, [Next]_vars
    PROVE  OneOwner'
<1>0. InPipe = Range(pipe) /\ \A l \in Levels : InQueue(l) = Range(queue[l])
  BY DEF InPipe, InQueue
<1>1. ASSUME NEW t \in Slots, Take(t)
      PROVE  OneOwner'
  <2>1. PICK l \in Levels, c \in Conns : Takes(t, l, c)
    BY <1>1, TakePlaces
  <2>2. UNCHANGED <<open, cList, pipe>> /\ InPipe' = InPipe
    BY <1>1 DEF Take, connVars, InPipe
  <2>3. IsInjective(queue'[0]) /\ IsInjective(queue'[1]) /\ IsInjective(pipe')
        /\ c \notin InQueue(l)'
    BY <2>1, <2>2 DEF OneOwner, Levels, Takes
  <2>4. c \notin InService
    BY <2>1 DEF OneOwner, Levels, Takes
  <2>5. \A s, u \in Slots : held'[s] = held'[u] /\ held'[s] # NoConn => s = u
    <3>1. \A s \in Slots : held[s] # c
      BY <2>1, <2>4, DepotAssumption DEF InService
    <3>2. held \in [Slots -> Conns \cup {NoConn}]
      BY DEF TypeOK
    <3>. QED  BY <2>1, <3>1, <3>2 DEF OneOwner, Takes
  <2>6. InService' = InService \cup {c}
    BY <2>1 DEF Takes
  <2>7. CASE l = 0
    <3>1. InQueue(1)' = InQueue(1) /\ InQueue(0) = InQueue(0)' \cup {c} /\ c \notin InQueue(0)'
      BY <2>1, <2>3, <2>7 DEF Levels, Takes
    <3>. QED  BY <3>1, <2>2, <2>3, <2>4, <2>5, <2>6 DEF OneOwner
  <2>8. CASE l = 1
    <3>1. InQueue(0)' = InQueue(0) /\ InQueue(1) = InQueue(1)' \cup {c} /\ c \notin InQueue(1)'
      BY <2>1, <2>3, <2>8 DEF Levels, Takes
    <3>. QED  BY <3>1, <2>2, <2>3, <2>4, <2>5, <2>6 DEF OneOwner
  <2>. QED  BY <2>7, <2>8 DEF Levels
<1>2. ASSUME NEW t \in Slots, NEW ok \in BOOLEAN, Finish(t, ok)
      PROVE  OneOwner'
  <2>1. /\ held[t] \in Conns /\ held[t] \in InService
        /\ InService' = InService \ {held[t]}
        /\ InPipe' = InPipe \cup {held[t]} /\ IsInjective(pipe')
        /\ held' = [held EXCEPT ![t] = NoConn]
        /\ UNCHANGED <<open, cList, queue>>
    BY <1>2, FinishPlaces
  <2>2. InQueue(0)' = InQueue(0) /\ InQueue(1)' = InQueue(1)
    BY <2>1 DEF InQueue
  <2>3. \A s, u \in Slots : held'[s] = held'[u] /\ held'[s] # NoConn => s = u
    BY <2>1 DEF OneOwner, TypeOK
  <2>. QED  BY <2>1, <2>2, <2>3 DEF OneOwner
<1>3. ASSUME NEW c \in Conns, Accept(c) \/ CloseListed(c) \/ Refuse(c)
      PROVE  OneOwner'
  <2>1. UNCHANGED <<queue, pipe, held>>
    BY <1>3 DEF Accept, CloseListed, Refuse, threadVars
  <2>2. UNCHANGED <<InQueue(0), InQueue(1), InService, InPipe>>
    BY <2>1 DEF InQueue, InService, InPipe
  <2>3. \/ c \notin open /\ open' = open \cup {c} /\ cList' = cList \cup {c}
        \/ c \in cList /\ open' = open \ {c} /\ cList' = cList \ {c}
    BY <1>3 DEF Accept, CloseListed, Refuse
  <2>. QED  BY <2>1, <2>2, <2>3 DEF OneOwner
<1>4. ASSUME NEW c \in Conns, NEW l \in Sends[c], Enqueue(c, l)
      PROVE  OneOwner'
  <2>1. /\ l \in Levels /\ c \in cList /\ cList' = cList \ {c}
        /\ InQueue(l)' = InQueue(l) \cup {c}
        /\ IsInjective(queue'[l])
        /\ \A k \in Levels \ {l} : queue'[k] = queue[k]
        /\ UNCHANGED <<open, pipe, held>>
    BY <1>4, EnqueuePlaces
  <2>2. UNCHANGED <<InService, InPipe>>
    BY <2>1 DEF InService, InPipe
  <2>3. \A k \in Levels \ {l} : InQueue(k)' = InQueue(k)
    BY <2>1 DEF InQueue
  <2>4. IsInjective(queue'[0]) /\ IsInjective(queue'[1])
    BY <2>1 DEF OneOwner, Levels
  <2>5. CASE l = 0
    <3>1. InQueue(1)' = InQueue(1) /\ InQueue(0)' = InQueue(0) \cup {c}
      BY <2>1, <2>3, <2>5 DEF Levels
    <3>. QED  BY <3>1, <2>1, <2>2, <2>4 DEF OneOwner
  <2>6. CASE l = 1
    <3>1. InQueue(0)' = InQueue(0) /\ InQueue(1)' = InQueue(1) \cup {c}
      BY <2>1, <2>3, <2>6 DEF Levels
    <3>. QED  BY <3>1, <2>1, <2>2, <2>4 DEF OneOwner
  <2>. QED  BY <2>1, <2>5, <2>6 DEF Levels
<1>5. CASE ReadPipe
  <2>1. PICK c \in InPipe :
            /\ InPipe' = InPipe \ {c} /\ IsInjective(pipe')
            /\ \/ open' = open \ {c} /\ cList' = cList
               \/ open' = open /\ cList' = cList \cup {c}
            /\ UNCHANGED <<queue, held>>
    BY <1>5, ReadPipePlaces
  <2>2. UNCHANGED <<InQueue(0), InQueue(1), InService>>
    BY <2>1 DEF InQueue, InService
  <2>. QED  BY <2>1, <2>2 DEF OneOwner
<1>6. CASE UNCHANGED <<connVars, queue, pipe, held>>
  <2>1. UNCHANGED <<open, cList, queue, pipe, held>>
    BY <1>6 DEF connVars
  <2>2. UNCHANGED <<InQueue(0), InQueue(1), InService, InPipe>>
    BY <2>1 DEF InQueue, InService, InPipe
  <2>. QED  BY <2>1, <2>2 DEF OneOwner
<1>. QED  BY <1>1, <1>2, <1>3, <1>4, <1>5, <1>6, StaysPut DEF Delivers

\* The part of TypeOK about connections.
ConnTypes ==
    /\ open \subseteq Conns /\ cList \subseteq Conns /\ failed \subseteq InPipe
    /\ prio \in [Conns -> Levels]
    /\ queue \in [Levels -> Seq(Conns)] /\ pipe \in Seq(Conns)
    /\ held \in [Slots -> Conns \cup {NoConn}]

LEMMA ConnStep ==
    ASSUME TypeOK, Shape, OneOwner, [Next]_vars
    PROVE  ConnTypes' /\ failed' \subseteq Conns
<1>1. ConnTypes
  BY DEF TypeOK, Shape, ConnTypes
<1>. 0 \in Levels
  BY DEF Levels
<1>2. ASSUME NEW t \in Slots, Take(t)
      PROVE  ConnTypes'
  <2>1. PICK l \in Levels, c \in Conns : Takes(t, l, c)
    BY <1>2, TakePlaces
  <2>2. UNCHANGED <<connVars, pipe, InPipe>>
    BY <1>2 DEF Take, InPipe
  <2>. QED  BY <1>1, <2>1, <2>2 DEF ConnTypes, Takes, connVars
<1>3. ASSUME NEW t \in Slots, NEW ok \in BOOLEAN, Finish(t, ok)
      PROVE  ConnTypes'
  <2>1. /\ held[t] \in Conns
        /\ pipe' \in Seq(Conns) /\ InPipe' = InPipe \cup {held[t]}
        /\ held' = [held EXCEPT ![t] = NoConn]
        /\ UNCHANGED <<open, cList, queue>>
    BY <1>3, FinishPlaces
  <2>2. prio' = prio /\ failed' \subseteq failed \cup {held[t]}
    BY <1>3 DEF Finish
  <2>. QED  BY <1>1, <2>1, <2>2 DEF ConnTypes
<1>4. ASSUME NEW c \in Conns, Accept(c) \/ CloseListed(c) \/ Refuse(c)
      PROVE  ConnTypes'
  <2>1. UNCHANGED <<queue, pipe, held, failed, prio, InPipe>>
    BY <1>4 DEF Accept, CloseListed, Refuse, threadVars, InPipe
  <2>2. \/ open' = open \cup {c} /\ cList' = cList \cup {c}
        \/ open' = open \ {c} /\ cList' = cList \ {c}
    BY <1>4 DEF Accept, CloseListed, Refuse
  <2>. QED  BY <1>1, <2>1, <2>2 DEF ConnTypes
<1>5. ASSUME NEW c \in Conns, NEW l \in Sends[c], Enqueue(c, l)
      PROVE  ConnTypes'
  <2>1. /\ l \in Levels /\ cList' = cList \ {c}
        /\ queue' \in [Levels -> Seq(Conns)]
        /\ UNCHANGED <<open, pipe, held, failed>>
    BY <1>5, EnqueuePlaces
  <2>2. prio' = [prio EXCEPT ![c] = l] /\ InPipe' = InPipe
    BY <1>5, <2>1 DEF Enqueue, InPipe
  <2>. QED  BY <1>1, <2>1, <2>2 DEF ConnTypes
<1>6. ASSUME ReadPipe
      PROVE  ConnTypes'
  <2>1. PICK c \in InPipe :
            /\ c \in Conns
            /\ pipe' \in Seq(Conns) /\ InPipe' = InPipe \ {c}
            /\ failed' = failed \ {c} /\ prio' = [prio EXCEPT ![c] = 0]
            /\ \/ open' = open \ {c} /\ cList' = cList
               \/ open' = open /\ cList' = cList \cup {c}
            /\ UNCHANGED <<queue, held>>
    BY <1>6, ReadPipePlaces
  <2>. QED  BY <1>1, <2>1 DEF ConnTypes
<1>7. ASSUME UNCHANGED <<connVars, queue, pipe, held>>
      PROVE  ConnTypes'
  <2>1. /\ open' = open /\ cList' = cList /\ failed' = failed /\ prio' = prio
        /\ queue' = queue /\ pipe' = pipe /\ held' = held /\ InPipe' = InPipe
    BY <1>7 DEF connVars, InPipe
  <2>. QED  BY <1>1, <2>1 DEF ConnTypes
<1>8. ConnTypes'
  BY <1>2, <1>3, <1>4, <1>5, <1>6, <1>7, StaysPut DEF Delivers
<1>9. ASSUME NEW s \in Seq(Conns) PROVE Range(s) \subseteq Conns
  BY DEF Range
<1>. QED  BY <1>8, <1>9 DEF ConnTypes, InPipe

\* The part of TypeOK and of Shape about threads.
ThreadTypes ==
    /\ role \in [Slots -> Roles] /\ tpc \in [Slots -> ThreadPcs]
    /\ \A t \in Slots : held[t] # NoConn <=> tpc[t] \in {"got", "handle"}
    /\ \A t \in Slots : role[t] = "none" => tpc[t] = "top"

\* A step that moves thread t to x, a place where it holds no request if it held
\* none before.
LEMMA MovesTypes ==
    ASSUME TypeOK, Shape, NEW t \in Slots, NEW x, Moves(t, x), role[t] # "none",
           role' = role, held' = held,
           x \in {"got", "handle"} <=> tpc[t] \in {"got", "handle"}
    PROVE  ThreadTypes'
<1>. /\ \A s \in Slots : held'[s] # NoConn <=> tpc[s] \in {"got", "handle"}
     /\ \A s \in Slots : role'[s] = "none" => tpc[s] = "top"
     /\ role' \in [Slots -> Roles]
  BY DEF Shape, TypeOK
<1>. QED  BY DEF Moves, ThreadTypes

LEMMA ThreadStep ==
    ASSUME TypeOK, Shape, NEW t \in Slots, Thread(t)
    PROVE  ThreadTypes'
<1>. /\ role \in [Slots -> Roles] /\ tpc \in [Slots -> ThreadPcs]
     /\ held \in [Slots -> Conns \cup {NoConn}]
     /\ \A s \in Slots : held[s] # NoConn <=> tpc[s] \in {"got", "handle"}
     /\ \A s \in Slots : role[s] = "none" => tpc[s] = "top"
     /\ role[t] # "none"
  BY DEF TypeOK, Shape, Thread
<1>1. CASE Take(t)
  <2>1. PICK l \in Levels, c \in Conns : Takes(t, l, c)
    BY <1>1, TakePlaces
  <2>2. Moves(t, "got") /\ role' = role
    BY <1>1, TakeMoves DEF Take
  <2>3. held' = [held EXCEPT ![t] = c] /\ c # NoConn
    BY <2>1, DepotAssumption DEF Takes
  <2>. QED  BY <2>2, <2>3 DEF Moves, ThreadTypes
<1>2. CASE Sleep(t)
  <2>1. Moves(t, "wait") /\ role' = role /\ held' = held /\ tpc[t] \in {"scan", "woken"}
    BY <1>2, SleepMoves DEF Sleep, Looking
  <2>. QED  BY <2>1, MovesTypes
<1>3. CASE Top(t) \/ Enter(t) \/ WokenToStop(t) \/ TimeOut(t) \/ Leave(t) \/ IdleCheck(t)
  <2>1. role' = role /\ held' = held
    BY <1>3 DEF Top, Enter, WokenToStop, TimeOut, Leave, IdleCheck
  <2>2. PICK x \in ThreadPcs :
            /\ tpc' = [tpc EXCEPT ![t] = x]
            /\ x \in {"got", "handle"} <=> tpc[t] \in {"got", "handle"}
    BY <1>3 DEF Top, Enter, WokenToStop, TimeOut, Leave, IdleCheck, ThreadPcs
  <2>. QED  BY <2>1, <2>2, MoveFacts, MovesTypes
<1>4. CASE Exit(t)
  <2>1. /\ role' = [role EXCEPT ![t] = "none"] /\ tpc' = [tpc EXCEPT ![t] = "top"]
        /\ held' = held /\ tpc[t] = "exit"
    BY <1>4 DEF Exit
  <2>. QED  BY <2>1 DEF ThreadTypes, Roles, ThreadPcs
<1>5. CASE Finish(t, TRUE) \/ Finish(t, FALSE)
  <2>1. /\ held' = [held EXCEPT ![t] = NoConn] /\ tpc' = [tpc EXCEPT ![t] = "top"]
        /\ role' = role
    BY <1>5 DEF Finish
  <2>. QED  BY <2>1 DEF ThreadTypes, ThreadPcs
<1>. QED  BY <1>1, <1>2, <1>3, <1>4, <1>5 DEF Thread

LEMMA ThreadTypesStep ==
    ASSUME TypeOK, Shape, [Next]_vars
    PROVE  ThreadTypes'
<1>. /\ role \in [Slots -> Roles] /\ tpc \in [Slots -> ThreadPcs]
     /\ \A s \in Slots : held[s] # NoConn <=> tpc[s] \in {"got", "handle"}
     /\ \A s \in Slots : role[s] = "none" => tpc[s] = "top"
  BY DEF TypeOK, Shape
<1>1. CASE \E t \in Slots : Thread(t)
  BY <1>1, ThreadStep
<1>2. CASE Signal \/ StopServing
  <2>1. role' = role /\ held' = held /\ (tpc' \in Signalled(tpc) \/ tpc' = Broadcast(tpc))
    BY <1>2 DEF Signal, StopServing
  <2>2. Wakes(tpc, tpc')
    BY <2>1, SignalWakes, BroadcastWakes
  <2>. QED  BY <2>1, <2>2 DEF Wakes, ThreadTypes
<1>3. CASE Grow \/ CheckPool
  <2>1. held' = held /\ (Expand(GrowBy) \/ UNCHANGED <<role, tpc>>)
    BY <1>3 DEF Grow, CheckPool
  <2>2. CASE UNCHANGED <<role, tpc>>
    BY <2>1, <2>2 DEF ThreadTypes
  <2>3. CASE ~shutdown /\ Expand(GrowBy)
    <3>. DEFINE F == FirstFree(GrowBy)
    <3>1. \A s \in F : s \in Slots /\ role[s] = "none"
      BY DEF FirstFree, Free, Threads
    <3>2. /\ role' = [s \in Slots |-> IF s \in F THEN "worker" ELSE role[s]]
          /\ tpc' = [s \in Slots |-> IF s \in F THEN "top" ELSE tpc[s]]
      BY <2>3 DEF Expand
    <3>. HIDE DEF F
    <3>3. "worker" \in Roles /\ "top" \in ThreadPcs
      BY DEF Roles, ThreadPcs
    <3>4. role' \in [Slots -> Roles] /\ tpc' \in [Slots -> ThreadPcs]
      BY <3>2, <3>3
    <3>5. \A s \in Slots : tpc'[s] = tpc[s] /\ (role'[s] = "none" => role[s] = "none")
      BY <3>1, <3>2
    <3>. QED  BY <2>1, <3>4, <3>5 DEF ThreadTypes
  <2>. QED  BY <2>1, <2>2, <2>3 DEF Expand
<1>4. ASSUME NEW c \in Conns,
             \/ Accept(c) \/ CloseListed(c) \/ Refuse(c) \/ \E l \in Sends[c] : Enqueue(c, l)
      PROVE  UNCHANGED threadVars
  BY <1>4 DEF Accept, CloseListed, Refuse, Enqueue
<1>5. ASSUME ReadPipe \/ CleanUp \/ Interrupt \/ Terminated \/ UNCHANGED vars
      PROVE  UNCHANGED threadVars
  BY <1>5 DEF ReadPipe, CleanUp, Interrupt, Terminated, vars, threadVars
<1>6. CASE UNCHANGED threadVars
  BY <1>6 DEF threadVars, ThreadTypes
<1>. QED  BY <1>1, <1>2, <1>3, <1>4, <1>5, <1>6 DEF Next, Main

LEMMA QueuedFacts ==
    ASSUME TypeOK
    PROVE  /\ queue[0] \in Seq(Conns) /\ queue[1] \in Seq(Conns)
           /\ Queued \in Nat
           /\ Queued = 0 => queue[0] = << >> /\ queue[1] = << >>
           /\ Queued = 1 => \/ queue[0] = << >> /\ Len(queue[1]) = 1
                            \/ queue[1] = << >> /\ Len(queue[0]) = 1
<1>1. queue[0] \in Seq(Conns) /\ queue[1] \in Seq(Conns)
  BY DEF TypeOK, Levels
<1>. DEFINE m == Len(queue[0])  n == Len(queue[1])
<1>2. m \in Nat /\ n \in Nat /\ (m = 0 => queue[0] = << >>) /\ (n = 0 => queue[1] = << >>)
  BY <1>1
<1>3. Queued = m + n
  BY DEF Queued
<1>. HIDE DEF m, n
<1>4. Queued \in Nat /\ (Queued = 0 => m = 0 /\ n = 0)
      /\ (Queued = 1 => (m = 0 /\ n = 1) \/ (m = 1 /\ n = 0))
  BY <1>2, <1>3
<1>. QED  BY <1>1, <1>2, <1>4 DEF m, n

LEMMA MainTypes ==
    ASSUME TypeOK, [Next]_vars
    PROVE  main' \in MainPcs /\ num' \in Nat /\ shutdown' \in BOOLEAN
<1>. main \in MainPcs /\ num \in Nat /\ shutdown \in BOOLEAN
  BY DEF TypeOK
<1>1. Queued + 1 \in Nat
  BY QueuedFacts
<1>2. ASSUME NEW t \in Slots, Thread(t)
      PROVE  UNCHANGED <<main, num, shutdown>>
  BY <1>2 DEF Thread, Top, Enter, Take, Sleep, WokenToStop, TimeOut, Leave, IdleCheck, Exit, Finish
<1>3. ASSUME NEW c \in Conns, NEW l \in Sends[c], Enqueue(c, l)
      PROVE  main' \in MainPcs /\ num' \in Nat /\ shutdown' \in BOOLEAN
  BY <1>1, <1>3 DEF Enqueue, MainPcs
<1>4. ASSUME NEW c \in Conns, Accept(c) \/ CloseListed(c) \/ Refuse(c)
      PROVE  UNCHANGED <<main, num, shutdown>>
  BY <1>4 DEF Accept, CloseListed, Refuse
<1>5. ASSUME ReadPipe \/ CheckPool \/ Terminated \/ UNCHANGED vars
      PROVE  UNCHANGED <<main, num, shutdown>>
  BY <1>5 DEF ReadPipe, CheckPool, Terminated, vars
<1>6. ASSUME Signal \/ Grow \/ StopServing \/ CleanUp \/ Interrupt
      PROVE  main' \in MainPcs /\ num' \in Nat /\ shutdown' \in BOOLEAN
  <2>1. main' \in MainPcs
    BY <1>6 DEF Signal, Grow, StopServing, CleanUp, Interrupt, MainPcs
  <2>2. num' = 0 \/ num' = num
    BY <1>6 DEF Signal, Grow, StopServing, CleanUp, Interrupt
  <2>3. shutdown' \in BOOLEAN
    BY <1>6 DEF Signal, Grow, StopServing, CleanUp, Interrupt
  <2>. QED  BY <2>1, <2>2, <2>3
<1>7. CASE UNCHANGED <<main, num, shutdown>>
  BY <1>7
<1>8. CASE Signal \/ Grow \/ StopServing \/ CleanUp \/ Interrupt
  BY <1>6, <1>8
<1>. QED  BY <1>2, <1>3, <1>4, <1>5, <1>7, <1>8 DEF Next, Main

LEMMA TypeAndShapeStep ==
    ASSUME TypeOK, Shape, OneOwner, PoolAccounting, [Next]_vars
    PROVE  TypeOK' /\ Shape'
<1>1. ConnTypes' /\ failed' \subseteq Conns
  BY ConnStep
<1>2. ThreadTypes'
  BY ThreadTypesStep
<1>3. idle' \in Nat /\ thdNum' \in Nat
  BY PoolStep
<1>4. main' \in MainPcs /\ num' \in Nat /\ shutdown' \in BOOLEAN
  BY MainTypes
<1>. QED  BY <1>1, <1>2, <1>3, <1>4 DEF ConnTypes, ThreadTypes, TypeOK, Shape

\* A thread that is on its way to the queue.
Coming == \E t \in Threads : tpc[t] \in {"top", "enter", "scan", "woken"}

LEMMA SleepersAreThreads ==
    ASSUME Shape, NEW t \in Slots, tpc[t] # "top"
    PROVE  t \in Threads
  BY DEF Shape, Threads

\* Whoever sleeps beside a request after a step that leaves the queues and the
\* roles alone did so before, and whoever was on its way still is, unless the
\* step is one of those below.
LEMMA StillConserving ==
    ASSUME WorkConserving, role' = role, queue' = queue,
           main = "signal" => main' = "signal", shutdown => shutdown',
           \A t \in Slots : tpc'[t] = "wait" => tpc[t] = "wait",
           \A t \in Slots : tpc[t] \in {"top", "enter", "scan", "woken"} =>
                               tpc'[t] \in {"top", "enter", "scan", "woken"} \/ shutdown'
    PROVE  WorkConserving'
<1>1. Threads' = Threads /\ Threads \subseteq Slots
  BY DEF Threads
<1>2. \A t \in Threads : LevelsFor(t)' = LevelsFor(t)
  BY DEF LevelsFor
<1>. QED  BY <1>1, <1>2 DEF WorkConserving

\* A thread has just been woken.
LEMMA WokenConserves ==
    ASSUME Shape, role' = role,
           \/ \A t \in Slots : tpc'[t] # "wait"
           \/ \E t \in Slots : tpc[t] = "wait" /\ tpc'[t] = "woken"
    PROVE  WorkConserving'
<1>1. Threads' = Threads /\ Threads \subseteq Slots
  BY DEF Threads
<1>2. CASE \A t \in Slots : tpc'[t] # "wait"
  BY <1>1, <1>2 DEF WorkConserving
<1>3. CASE \E t \in Slots : tpc[t] = "wait" /\ tpc'[t] = "woken"
  <2>1. PICK t \in Slots : tpc[t] = "wait" /\ tpc'[t] = "woken"
    BY <1>3
  <2>2. t \in Threads
    BY <2>1, SleepersAreThreads
  <2>. QED  BY <1>1, <2>1, <2>2 DEF WorkConserving
<1>. QED  BY <1>2, <1>3

LEMMA TakeConserves ==
    ASSUME TypeOK, Shape, NEW t \in Slots, Take(t)
    PROVE  WorkConserving'
<1>1. Moves(t, "got") /\ role' = role
  BY TakeMoves DEF Take
<1>2. CASE Queued > 1
  <2>1. \/ \A s \in Slots \ {t} : tpc[s] # "wait"
        \/ \E s \in Slots \ {t} : tpc[s] = "wait" /\ tpc'[s] = "woken"
    BY <1>2, TakeMoves
  <2>. QED  BY <1>1, <2>1, WokenConserves DEF Moves
<1>3. CASE ~(Queued > 1)
  <2>1. PICK l \in LevelsFor(t) : queue' = [queue EXCEPT ![l] = Tail(@)]
    BY DEF Take
  <2>2. /\ l \in Levels /\ queue[l] # << >> /\ queue \in [Levels -> Seq(Conns)]
        /\ queue[0] \in Seq(Conns) /\ queue[1] \in Seq(Conns)
    BY <2>1 DEF LevelsFor, TypeOK, Levels
  <2>3. queue'[0] = << >> /\ queue'[1] = << >>
    <3>. DEFINE k == 1 - l
    <3>1. k \in Levels /\ k # l /\ Levels = {k, l}
      BY <2>2 DEF Levels
    <3>2. Queued = 0 \/ Queued = 1
      BY <1>3, QueuedFacts
    <3>3. queue[k] = << >> /\ Len(queue[l]) = 1
      BY <2>2, <3>1, <3>2, QueuedFacts DEF Levels
    <3>4. Tail(queue[l]) = << >>
      <4>1. Tail(queue[l]) \in Seq(Conns) /\ Len(Tail(queue[l])) = Len(queue[l]) - 1
        BY <2>2
      <4>2. Len(Tail(queue[l])) = 0
        BY <4>1, <3>3
      <4>. DEFINE q == Tail(queue[l])
      <4>3. q \in Seq(Conns) /\ Len(q) = 0
        BY <4>1, <4>2
      <4>. HIDE DEF q
      <4>4. q = << >>
        BY <4>3
      <4>. QED  BY <4>4 DEF q
    <3>5. queue'[k] = << >> /\ queue'[l] = << >>
      BY <2>1, <2>2, <3>1, <3>3, <3>4
    <3>. QED  BY <3>1, <3>5 DEF Levels
  <2>4. \A s \in Threads' : LevelsFor(s)' = {}
    BY <2>3 DEF LevelsFor, Levels
  <2>. QED  BY <2>4 DEF WorkConserving
<1>. QED  BY <1>2, <1>3

LEMMA SleepConserves ==
    ASSUME TypeOK, Shape, NEW t \in Slots, Sleep(t)
    PROVE  WorkConserving'
<1>1. Moves(t, "wait") /\ role' = role /\ queue' = queue /\ LevelsFor(t) = {}
  BY SleepMoves DEF Sleep
<1>2. Threads' \subseteq Slots /\ \A s \in Slots : LevelsFor(s)' = LevelsFor(s)
  BY <1>1 DEF Threads, LevelsFor
<1>3. CASE Queued > 0
  <2>1. \A s \in Slots \ {t} : tpc'[s] # "wait"
    BY <1>3, SleepMoves
  <2>. QED  BY <1>1, <1>2, <2>1 DEF WorkConserving
<1>4. CASE ~(Queued > 0)
  <2>4. queue[0] = << >> /\ queue[1] = << >>
    BY <1>4, QueuedFacts
  <2>5. \A s \in Slots : LevelsFor(s) = {}
    BY <2>4 DEF LevelsFor, Levels
  <2>. QED  BY <1>2, <2>5 DEF WorkConserving
<1>. QED  BY <1>3, <1>4

LEMMA WorkStep ==
    ASSUME TypeOK, Shape, WorkConserving, [Next]_vars
    PROVE  WorkConserving'
<1>. tpc \in [Slots -> ThreadPcs] /\ role \in [Slots -> Roles]
  BY DEF TypeOK
<1>1. ASSUME NEW t \in Slots, role[t] # "none",
             \/ Top(t) \/ Enter(t) \/ WokenToStop(t) \/ TimeOut(t) \/ Leave(t) \/ IdleCheck(t)
             \/ Finish(t, TRUE) \/ Finish(t, FALSE)
      PROVE  WorkConserving'
  <2>1. /\ role' = role /\ queue' = queue /\ main' = main /\ shutdown' = shutdown
        /\ \A s \in Slots \ {t} : tpc'[s] = tpc[s]
        /\ tpc'[t] # "wait"
        /\ tpc[t] \in {"top", "enter", "scan", "woken"} =>
              tpc'[t] \in {"top", "enter", "scan", "woken"} \/ shutdown'
    BY <1>1 DEF Top, Enter, WokenToStop, TimeOut, Leave, IdleCheck, Finish, connVars
  <2>. QED  BY <2>1, StillConserving
<1>2. ASSUME NEW t \in Slots, Exit(t)
      PROVE  WorkConserving'
  <2>1. /\ tpc[t] = "exit" /\ tpc' = [tpc EXCEPT ![t] = "top"]
        /\ role' = [role EXCEPT ![t] = "none"]
        /\ queue' = queue /\ main' = main /\ shutdown' = shutdown
    BY <1>2 DEF Exit
  <2>2. Threads' = Threads \ {t}
    BY <2>1 DEF Threads
  <2>3. \A s \in Threads' : s \in Threads /\ tpc'[s] = tpc[s] /\ LevelsFor(s)' = LevelsFor(s)
    BY <2>1, <2>2 DEF LevelsFor, Threads
  <2>4. \A s \in Threads : tpc[s] \in {"top", "enter", "scan", "woken"} => s \in Threads'
    BY <2>1, <2>2
  <2>. QED  BY <2>1, <2>3, <2>4 DEF WorkConserving
<1>3. ASSUME NEW t \in Slots, Thread(t)
      PROVE  WorkConserving'
  BY <1>1, <1>2, <1>3, TakeConserves, SleepConserves DEF Thread
<1>4. CASE Signal
  <2>1. tpc' \in Signalled(tpc) /\ role' = role
    BY <1>4 DEF Signal
  <2>2. Wakes(tpc, tpc') /\ ((\E s \in Slots : tpc[s] = "wait") =>
                              \E s \in Slots : tpc[s] = "wait" /\ tpc'[s] = "woken")
    BY <2>1, SignalWakes
  <2>. QED  BY <2>1, <2>2, WokenConserves DEF Wakes
<1>5. CASE StopServing
  BY <1>5, BroadcastWakes, WokenConserves DEF StopServing
<1>6. ASSUME NEW n \in Nat, Expand(n), UNCHANGED <<queue, shutdown>>,
             main = "signal" => main' = "signal"
      PROVE  WorkConserving'
  <2>1. CASE shutdown
    BY <1>6, <2>1 DEF WorkConserving
  <2>2. CASE ~shutdown
    <3>. DEFINE F == FirstFree(n)
    <3>1. \A s \in F : s \in Slots /\ role[s] = "none" /\ tpc[s] = "top"
      BY DEF FirstFree, Free, Threads, Shape
    <3>2. /\ role' = [s \in Slots |-> IF s \in F THEN "worker" ELSE role[s]]
          /\ tpc' = [s \in Slots |-> IF s \in F THEN "top" ELSE tpc[s]]
      BY <2>2, <1>6 DEF Expand
    <3>. HIDE DEF F
    <3>3. \A s \in Slots : tpc'[s] = tpc[s] /\ (s \notin F => role'[s] = role[s])
      BY <3>1, <3>2
    <3>4. Threads \subseteq Threads' /\ Threads' \subseteq Slots
      BY <3>1, <3>3 DEF Threads
    <3>5. \A s \in Threads' : tpc[s] = "wait" => s \in Threads /\ LevelsFor(s)' = LevelsFor(s)
      BY <1>6, <3>1, <3>3, <3>4, SleepersAreThreads DEF LevelsFor
    <3>. QED  BY <1>6, <3>3, <3>4, <3>5 DEF WorkConserving
  <2>. QED  BY <2>1, <2>2
<1>7. CASE Grow
  <2>1. CASE num > thdNum
    BY <1>7, <2>1, <1>6, DepotAssumption DEF Grow
  <2>2. CASE ~(num > thdNum)
    <3>1. /\ role' = role /\ tpc' = tpc /\ queue' = queue /\ shutdown' = shutdown
          /\ main = "grow"
      BY <1>7, <2>2 DEF Grow
    <3>. QED  BY <3>1, StillConserving
  <2>. QED  BY <2>1, <2>2
<1>8. CASE CheckPool
  BY <1>8, <1>6, DepotAssumption DEF CheckPool
<1>9. ASSUME NEW c \in Conns, NEW l \in Sends[c], Enqueue(c, l)
      PROVE  WorkConserving'
  BY <1>9 DEF Enqueue, WorkConserving
<1>10. ASSUME NEW c \in Conns, Accept(c) \/ CloseListed(c) \/ Refuse(c)
      PROVE  WorkConserving'
  <2>1. role' = role /\ tpc' = tpc /\ queue' = queue /\ shutdown' = shutdown /\ main' = main
    BY <1>10 DEF Accept, CloseListed, Refuse, threadVars
  <2>. QED  BY <2>1, StillConserving
<1>11. CASE ReadPipe \/ CleanUp \/ Interrupt \/ Terminated \/ UNCHANGED vars
  <2>1. /\ role' = role /\ tpc' = tpc /\ queue' = queue
        /\ main = "signal" => main' = "signal"
        /\ shutdown => shutdown'
    BY <1>11 DEF ReadPipe, CleanUp, Interrupt, Terminated, vars, threadVars
  <2>. QED  BY <2>1, StillConserving
<1>. QED  BY <1>3, <1>4, <1>5, <1>7, <1>8, <1>9, <1>10, <1>11 DEF Next, Main
-----------------------------------------------------------------------------
(* The invariants. *)

LEMMA InitIInv == ASSUME Init PROVE IInv
<1>. /\ MaxThreads \in Nat \ {0} /\ ThreadNum \in Nat /\ NoConn \notin Conns
  BY DepotAssumption
<1>1. TypeOK
  <2>1. queue \in [Levels -> Seq(Conns)] /\ pipe \in Seq(Conns)
    <3>1. << >> \in Seq(Conns)
      OBVIOUS
    <3>. QED  BY <3>1 DEF Init
  <2>2. prio \in [Conns -> Levels] /\ held \in [Slots -> Conns \cup {NoConn}]
    BY DEF Init, Levels
  <2>3. role \in [Slots -> Roles] /\ tpc \in [Slots -> ThreadPcs]
    BY DEF Init, Roles, ThreadPcs, InitialRole
  <2>4. idle \in Nat /\ num \in Nat /\ main \in MainPcs /\ shutdown \in BOOLEAN
    <3>1. idle = 0 /\ num = 0
      BY DEF Init
    <3>2. main \in MainPcs /\ shutdown \in BOOLEAN
      BY DEF Init, MainPcs
    <3>. QED  BY <3>1, <3>2
  <2>6. thdNum \in Nat
    BY DEF Init
  <2>5. open \subseteq Conns /\ cList \subseteq Conns /\ failed \subseteq Conns
    BY DEF Init
  <2>. QED  BY <2>1, <2>2, <2>3, <2>4, <2>5, <2>6 DEF TypeOK
<1>2. Shape
  BY DEF Init, Shape, InPipe, Range
<1>3. OneOwner
  <2>1. /\ InQueue(0) = {} /\ InQueue(1) = {} /\ InPipe = {} /\ InService = {}
        /\ open = {} /\ cList = {}
    BY DEF Init, InQueue, InPipe, InService, Range, Levels
  <2>2. IsInjective(queue[0]) /\ IsInjective(queue[1]) /\ IsInjective(pipe)
    BY DEF Init, IsInjective, Levels
  <2>3. \A s \in Slots : held[s] = NoConn
    BY DEF Init
  <2>. QED  BY <2>1, <2>2, <2>3 DEF OneOwner
<1>4. PoolAccounting
  <2>. DEFINE k == IF ThreadNum < MaxThreads THEN ThreadNum + 1 ELSE MaxThreads
  <2>1. Threads = 1..k
    <3>1. Threads = {s \in Slots : InitialRole(s) # "none"}
      BY DEF Init, Threads
    <3>. QED  BY <3>1 DEF InitialRole, Slots
  <2>2. Cardinality(1..k) = k /\ k \in Nat
    BY FS_Interval
  <2>3. IdleWorkers = {} /\ Cardinality({}) = 0
    BY FS_EmptySet DEF Init, IdleWorkers
  <2>4. thdNum = k /\ idle = 0
    BY DEF Init
  <2>. QED  BY <2>1, <2>2, <2>3, <2>4 DEF PoolAccounting
<1>5. WorkConserving
  BY DEF Init, WorkConserving, Threads
<1>. QED  BY <1>1, <1>2, <1>3, <1>4, <1>5 DEF IInv

LEMMA NextIInv == ASSUME IInv, [Next]_vars PROVE IInv'
  BY TypeAndShapeStep, OwnerStep, PoolStep, WorkStep DEF IInv

\* The inductive invariant holds in every state of the depot.
THEOREM DepotInvariant == Spec => []IInv
  BY InitIInv, NextIInv, PTL DEF Spec

\* Type correctness: the counters of main and of the pool never go below zero
\* (ibp_main.c, ibp_thread_pool.c).
THEOREM DepotTypeOK == Spec => []TypeOK
<1>1. IInv => TypeOK
  BY DEF IInv
<1>. QED  BY <1>1, DepotInvariant, PTL

\* An open connection is in exactly one place: main's list, a queue, a thread or
\* the pipe (handle_ibp_request, append_request, get_request,
\* handle_finish_request).
THEOREM ConnectionsHaveOneOwner == Spec => []OneOwner
<1>1. IInv => OneOwner
  BY DEF IInv
<1>. QED  BY <1>1, DepotInvariant, PTL

\* pool->thdNum and pool->idle are the numbers of threads and of idle workers
\* (inc_idle_thread, dec_idle_thread, expand_thread_pool, free_thread_handler).
THEOREM PoolCountersAreRight == Spec => []PoolAccounting
<1>1. IInv => PoolAccounting
  BY DEF IInv
<1>. QED  BY <1>1, DepotInvariant, PTL

\* No wakeup is lost between append_request, get_request and get_status_request.
THEOREM NoLostWakeup == Spec => []WorkConserving
<1>1. IInv => WorkConserving
  BY DEF IInv
<1>. QED  BY <1>1, DepotInvariant, PTL
-----------------------------------------------------------------------------
(* The depot implements the service it promises. *)

\* What the places say about the phase.
PhaseOfPlace ==
    \A c \in Conns :
        /\ c \in cList => Phase[c] = "reading"
        /\ c \in InQueue(0) \cup InQueue(1) => Phase[c] = "waiting"
        /\ c \in InService => Phase[c] = "serving"
        /\ c \in InPipe => Phase[c] = IF c \in failed THEN "failed" ELSE "replied"
        /\ c \notin open => Phase[c] = "closed"

LEMMA PhaseFacts == OneOwner => PhaseOfPlace
  BY DEF OneOwner, PhaseOfPlace, Phase

LEMMA PhaseFactsNext == OneOwner' => PhaseOfPlace'
  BY PhaseFacts, PTL

\* Connection c moves and no other one does.
SamePlace(d) ==
    /\ d \in cList' <=> d \in cList
    /\ d \in InQueue(0)' \cup InQueue(1)' <=> d \in InQueue(0) \cup InQueue(1)
    /\ d \in InService' <=> d \in InService
    /\ d \in InPipe' <=> d \in InPipe
    /\ d \in failed' <=> d \in failed

LEMMA PhaseMoves ==
    ASSUME NEW c \in Conns, NEW from, NEW to, Phase[c] = from, Phase'[c] = to,
           \A d \in Conns \ {c} : SamePlace(d)
    PROVE  Service!Move(c, from, to)
<1>1. \A d \in Conns \ {c} : Phase'[d] = Phase[d]
  BY DEF Phase, SamePlace
<1>2. Phase = [d \in Conns |-> Phase[d]] /\ Phase' = [d \in Conns |-> Phase'[d]]
  BY DEF Phase
<1>. HIDE DEF Phase
<1>3. Phase' = [Phase EXCEPT ![c] = to]
  BY <1>1, <1>2
<1>. QED  BY <1>3 DEF Service!Move

LEMMA ServiceStep ==
    ASSUME IInv, IInv', [Next]_vars
    PROVE  [Service!Next]_Phase
<1>. TypeOK /\ Shape /\ OneOwner /\ OneOwner'
  BY DEF IInv
<1>. PhaseOfPlace /\ PhaseOfPlace'
  BY PhaseFacts, PhaseFactsNext
<1>1. ASSUME NEW t \in Slots, Take(t)
      PROVE  Service!Next
  <2>1. PICK l \in Levels, c \in Conns : Takes(t, l, c)
    BY <1>1, TakePlaces
  <2>2. UNCHANGED <<cList, InPipe, failed>>
    BY <1>1 DEF Take, connVars, InPipe
  <2>3. c \in InQueue(0) \cup InQueue(1) /\ c \in InService'
    BY <2>1 DEF Takes, Levels
  <2>4. Phase[c] = "waiting" /\ Phase'[c] = "serving"
    BY <2>3 DEF PhaseOfPlace
  <2>5. ASSUME NEW d \in Conns \ {c} PROVE SamePlace(d)
    BY <2>1, <2>2 DEF Takes, Levels, SamePlace
  <2>6. Service!Serve(c)
    BY <2>4, <2>5, PhaseMoves DEF Service!Serve
  <2>. QED  BY <2>6 DEF Service!Next
<1>2. ASSUME NEW t \in Slots, NEW ok \in BOOLEAN, Finish(t, ok)
      PROVE  Service!Next
  <2>. DEFINE c == held[t]
  <2>1. /\ c \in Conns /\ c \in InService
        /\ InService' = InService \ {c}
        /\ InPipe' = InPipe \cup {c}
        /\ UNCHANGED <<cList, queue>>
    BY <1>2, FinishPlaces
  <2>2. failed' = IF ok THEN failed ELSE failed \cup {c}
    BY <1>2 DEF Finish
  <2>. HIDE DEF c
  <2>3. UNCHANGED <<InQueue(0), InQueue(1)>>
    BY <2>1 DEF InQueue
  <2>4. c \notin failed
    BY <2>1 DEF Shape, OneOwner
  <2>5. Phase[c] = "serving" /\ Phase'[c] = IF ok THEN "replied" ELSE "failed"
    BY <2>1, <2>2, <2>4 DEF PhaseOfPlace
  <2>6. ASSUME NEW d \in Conns \ {c} PROVE SamePlace(d)
    BY <2>1, <2>2, <2>3 DEF SamePlace
  <2>7. CASE ok
    <3>1. Service!Reply(c)
      BY <2>1, <2>5, <2>6, <2>7, PhaseMoves DEF Service!Reply
    <3>. QED  BY <3>1, <2>1 DEF Service!Next
  <2>8. CASE ~ok
    <3>1. Service!Fail(c)
      BY <2>1, <2>5, <2>6, <2>8, PhaseMoves DEF Service!Fail
    <3>. QED  BY <3>1, <2>1 DEF Service!Next
  <2>. QED  BY <2>7, <2>8
<1>3. ASSUME NEW c \in Conns, Accept(c) \/ CloseListed(c) \/ Refuse(c)
      PROVE  Service!Next
  <2>1. UNCHANGED <<InQueue(0), InQueue(1), InService, InPipe, failed>>
    BY <1>3 DEF Accept, CloseListed, Refuse, threadVars, InQueue, InService, InPipe
  <2>2. CASE c \notin open /\ cList' = cList \cup {c}
    <3>1. Phase[c] = "closed" /\ Phase'[c] = "reading"
      BY <2>2 DEF PhaseOfPlace
    <3>2. ASSUME NEW d \in Conns \ {c} PROVE SamePlace(d)
      BY <2>1, <2>2 DEF SamePlace
    <3>3. Service!Connect(c)
      BY <3>1, <3>2, PhaseMoves DEF Service!Connect
    <3>. QED  BY <3>3 DEF Service!Next
  <2>3. CASE c \in cList /\ open' = open \ {c} /\ cList' = cList \ {c}
    <3>1. Phase[c] = "reading" /\ Phase'[c] = "closed"
      BY <2>3 DEF PhaseOfPlace
    <3>2. ASSUME NEW d \in Conns \ {c} PROVE SamePlace(d)
      BY <2>1, <2>3 DEF SamePlace
    <3>3. Service!Drop(c)
      BY <3>1, <3>2, PhaseMoves DEF Service!Drop
    <3>. QED  BY <3>3 DEF Service!Next
  <2>. QED  BY <1>3, <2>2, <2>3 DEF Accept, CloseListed, Refuse
<1>4. ASSUME NEW c \in Conns, NEW l \in Sends[c], Enqueue(c, l)
      PROVE  Service!Next
  <2>1. /\ l \in Levels /\ c \in cList /\ cList' = cList \ {c}
        /\ InQueue(l)' = InQueue(l) \cup {c}
        /\ \A k \in Levels \ {l} : queue'[k] = queue[k]
        /\ UNCHANGED <<pipe, held, failed>>
    BY <1>4, EnqueuePlaces
  <2>2. UNCHANGED <<InService, InPipe>>
    BY <2>1 DEF InService, InPipe
  <2>3. InQueue(0)' \cup InQueue(1)' = InQueue(0) \cup InQueue(1) \cup {c}
    <3>1. \A k \in Levels \ {l} : InQueue(k)' = InQueue(k)
      BY <2>1 DEF InQueue
    <3>. QED  BY <2>1, <3>1 DEF Levels
  <2>4. Phase[c] = "reading" /\ Phase'[c] = "waiting"
    BY <2>1, <2>3 DEF PhaseOfPlace
  <2>5. ASSUME NEW d \in Conns \ {c} PROVE SamePlace(d)
    BY <2>1, <2>2, <2>3 DEF SamePlace
  <2>6. Service!Submit(c)
    BY <2>4, <2>5, PhaseMoves DEF Service!Submit
  <2>. QED  BY <2>6 DEF Service!Next
<1>5. CASE ReadPipe
  <2>1. PICK c \in InPipe :
            /\ c \in Conns
            /\ InPipe' = InPipe \ {c}
            /\ failed' = failed \ {c}
            /\ \/ c \in failed /\ open' = open \ {c} /\ cList' = cList
               \/ c \notin failed /\ open' = open /\ cList' = cList \cup {c}
            /\ UNCHANGED <<queue, held>>
    BY <1>5, ReadPipePlaces
  <2>2. UNCHANGED <<InQueue(0), InQueue(1), InService>>
    BY <2>1 DEF InQueue, InService
  <2>3. ASSUME NEW d \in Conns \ {c} PROVE SamePlace(d)
    BY <2>1, <2>2 DEF SamePlace
  <2>4. CASE c \in failed
    <3>1. Phase[c] = "failed" /\ Phase'[c] = "closed"
      BY <2>1, <2>4 DEF PhaseOfPlace
    <3>2. Service!Close(c)
      BY <2>1, <2>3, <3>1, PhaseMoves DEF Service!Close
    <3>. QED  BY <2>1, <3>2 DEF Service!Next
  <2>5. CASE c \notin failed
    <3>1. Phase[c] = "replied" /\ Phase'[c] = "reading"
      BY <2>1, <2>5 DEF PhaseOfPlace
    <3>2. Service!Reuse(c)
      BY <2>1, <2>3, <3>1, PhaseMoves DEF Service!Reuse
    <3>. QED  BY <2>1, <3>2 DEF Service!Next
  <2>. QED  BY <2>4, <2>5
<1>6. CASE UNCHANGED <<connVars, queue, pipe, held>>
  <2>1. UNCHANGED <<cList, failed, InQueue(0), InQueue(1), InService, InPipe>>
    BY <1>6 DEF connVars, InQueue, InService, InPipe
  <2>2. Phase' = Phase
    BY <2>1 DEF Phase
  <2>. QED  BY <2>2
<1>. QED  BY <1>1, <1>2, <1>3, <1>4, <1>5, <1>6, StaysPut DEF Delivers

\* A request that was read is refused at once or served once, and its connection
\* is used again only after a good reply: every step of the depot is a step of
\* RequestService or leaves all phases as they are.
THEOREM DepotImplementsService == Spec => ImplementsService
<1>1. ASSUME Init PROVE Service!Init
  <2>1. /\ cList = {} /\ InQueue(0) = {} /\ InQueue(1) = {} /\ InPipe = {} /\ InService = {}
    BY <1>1 DEF Init, InQueue, InPipe, InService, Range, Levels
  <2>. QED  BY <2>1 DEF Phase, Service!Init
<1>. QED  BY <1>1, ServiceStep, DepotInvariant, PTL DEF Spec, ImplementsService, Service!Spec
=============================================================================
