---------------------- MODULE LorsDownloadFile_proofs ----------------------
(***************************************************************************)
(* Proofs about lors_download, for every exnode, every range and block     *)
(* size and any number of runs, failures and kills.                        *)
(***************************************************************************)
EXTENDS LorsDownloadFile, LorsMappings_proofs

(* The inductive invariant. *)

\* A call is made for a range that is not empty, and stays in it.
CallShape ==
    /\ pc = "idle" => cur = 0
    /\ pc \in {"call", "close"} => written < length /\ From <= cur /\ cur <= Last

\* As long as no error was taken for a count and no run went on at a wrong
\* place, the length of the output says how far the tool has come in the range.
Progress ==
    ~misread /\ ~misplaced =>
        /\ Len(out) <= Wanted
        /\ pc # "idle" => Last = arg.off + Wanted
        /\ pc = "loop" => arg.off + Len(out) = From
        /\ pc \in {"call", "close"} => arg.off + Len(out) = cur
        /\ end = "success" => pc = "idle" /\ Len(out) = Wanted

IInv == TypeOK /\ CallShape /\ OutputTrue /\ Progress
-----------------------------------------------------------------------------
LEMMA DivBound ==
    ASSUME NEW x \in Nat, NEW b \in Nat \ {0}
    PROVE  (x \div b + 1) * b \in Nat /\ x < (x \div b + 1) * b
  OBVIOUS

\* What the call may rely on in every state: the mappings of the exnode are
\* well-formed, and what was asked for is not negative.
LEMMA ExnodeType ==
    ASSUME exnode \in Exnodes, arg \in Args
    PROVE  /\ exnode \in SUBSET Mappings({m.array : m \in exnode})
           /\ Wanted \in Nat /\ arg.off \in Nat
<1>1. /\ exnode # {} /\ IsFiniteSet(exnode)
      /\ exnode \in SUBSET Mappings({m.array : m \in exnode})
      /\ arg.off \in Nat /\ arg.len \in Nat
  BY DownloadFileAssumption
<1>2. FindMaxlength(exnode) \in Nat
  BY <1>1, MaxlengthIsLast
<1> QED BY <1>1, <1>2 DEF Wanted

\* Where a node starts in the range of a call, as the invariants have it.
InCall ==
    /\ TypeOK /\ From <= cur /\ cur < Last

\* The node at the position is not empty, ends in the range, and all of its bytes
\* have the same replicas.
LEMMA NodeInRange ==
    ASSUME InCall
    PROVE  /\ Node \in Nat \ {0} /\ cur + Node <= Last
           /\ \A p \in cur .. cur + Node - 1 : Holders(exnode, p) = Holders(exnode, cur)
<1> DEFINE x == cur - From
           L == BlockEnd(cur) - cur
<1>1. cur \in Nat /\ From \in Nat /\ Last \in Int /\ BlockSize \in Nat \ {0} /\ x \in Nat
  BY DownloadFileAssumption DEF InCall, TypeOK, From, Last
<1>2. (x \div BlockSize + 1) * BlockSize \in Nat /\ x < (x \div BlockSize + 1) * BlockSize
  BY <1>1, DivBound
<1>3. L \in Nat \ {0} /\ cur + L <= Last
  <2> DEFINE d == (x \div BlockSize + 1) * BlockSize
  <2>1. L = (IF From + d < Last THEN From + d ELSE Last) - cur
    BY DEF BlockEnd
  <2>2. d \in Nat /\ cur - From < d
    BY <1>2
  <2>3. cur < Last
    BY DEF InCall
  <2> HIDE DEF d, L
  <2> QED BY <1>1, <2>1, <2>2, <2>3
<1>4. exnode \in SUBSET Mappings({m.array : m \in exnode})
  BY ExnodeType DEF InCall, TypeOK
<1>5. Node = NodeLength(exnode, cur, L)
  BY DEF Node
<1> HIDE DEF L
<1>6. /\ Node \in 1 .. L
      /\ \A p \in cur .. cur + Node - 1 : Holders(exnode, p) = Holders(exnode, cur)
  BY <1>1, <1>3, <1>4, <1>5, NodeSound
<1> QED BY <1>1, <1>3, <1>6

\* A replica that holds a byte gives that byte: LoadOffset undoes what the
\* mapping's two offsets do.
LEMMA LoadedTrue ==
    ASSUME exnode \in Exnodes, arg \in Args, NEW m \in exnode, NEW p \in Positions(m)
    PROVE  Loaded(m, p) = p /\ p \in Nat
<1>1. m.off \in Nat /\ m.len \in Nat /\ m.at \in Nat
  BY ExnodeType DEF Mappings
<1>2. p \in Int /\ m.off <= p /\ p < m.off + m.len
  BY <1>1 DEF Positions, End
<1> QED BY <1>1, <1>2 DEF Loaded, LoadOffset

\* Whatever replica is loaded, what is written of a node are the bytes of the
\* file from the position on.
LEMMA WrittenTrue ==
    ASSUME InCall, NEW m \in Holders(exnode, cur), NEW n \in 0 .. Node
    PROVE  /\ Written(m, n) \in Seq(Nat \cup {Stale})
           /\ Len(Written(m, n)) = Len(out) + n
           /\ \A i \in 1 .. Len(out) : Written(m, n)[i] = out[i]
           /\ \A i \in 1 .. n : Written(m, n)[Len(out) + i] = cur + i - 1
<1>1. cur \in Nat /\ Node \in Nat /\ out \in Seq(Nat \cup {Stale})
  BY NodeInRange DEF InCall, TypeOK
<1>2. ASSUME NEW i \in 1 .. n
      PROVE  Loaded(m, cur + i - 1) = cur + i - 1 /\ cur + i - 1 \in Nat
  <2>1. cur + i - 1 \in cur .. cur + Node - 1
    BY <1>1
  <2>2. m \in exnode /\ cur + i - 1 \in Positions(m)
    BY <2>1, NodeInRange DEF Holders
  <2> QED BY <2>2, LoadedTrue DEF InCall, TypeOK
<1> DEFINE s == [i \in 1 .. n |-> Loaded(m, cur + i - 1)]
<1>3. s \in Seq(Nat \cup {Stale}) /\ Len(s) = n /\ \A i \in 1 .. n : s[i] = cur + i - 1
  <2>1. n \in Nat
    BY <1>1
  <2>2. s \in [1 .. n -> Nat \cup {Stale}]
    BY <1>2
  <2>3. \A i \in 1 .. n : s[i] = cur + i - 1
    BY <1>2
  <2> HIDE DEF s
  <2> QED BY <2>1, <2>2, <2>3
<1>4. Written(m, n) = out \o s
  BY DEF Written
<1> HIDE DEF s
<1>5. /\ Len(out) \in Nat /\ out \o s \in Seq(Nat \cup {Stale})
      /\ Len(out \o s) = Len(out) + n
  BY SMTT(30), <1>1, <1>3
<1>6. \A i \in 1 .. Len(out) : (out \o s)[i] = out[i]
  BY <1>1, <1>3
<1>7. \A i \in 1 .. n : (out \o s)[Len(out) + i] = s[i]
  BY <1>1, <1>3
<1> QED BY <1>3, <1>4, <1>5, <1>6, <1>7

-----------------------------------------------------------------------------
(* The steps                                                               *)

\* The output after part of a node: as true as it was, and longer by that part.
LEMMA GrownTrue ==
    ASSUME InCall, OutputTrue, ~misread, ~misplaced, arg.off + Len(out) = cur,
           NEW m \in Holders(exnode, cur), NEW n \in 0 .. Node, out' = Written(m, n)
    PROVE  \A i \in DOMAIN out' : out'[i] = arg.off + i - 1
<1>1. /\ out \in Seq(Nat \cup {Stale}) /\ cur \in Nat /\ Node \in Nat
      /\ arg.off \in Nat /\ n \in Nat
  BY ExnodeType, NodeInRange DEF InCall, TypeOK
<1>2. /\ out' \in Seq(Nat \cup {Stale}) /\ Len(out') = Len(out) + n
      /\ \A i \in 1 .. Len(out) : out'[i] = out[i]
      /\ \A i \in 1 .. n : out'[Len(out) + i] = cur + i - 1
  BY WrittenTrue
<1> SUFFICES ASSUME NEW i \in 1 .. Len(out) + n
             PROVE  out'[i] = arg.off + i - 1
  BY <1>1, <1>2
<1>3. CASE i <= Len(out)
  <2>1. i \in 1 .. Len(out) /\ i \in DOMAIN out
    BY <1>1, <1>3
  <2>2. out[i] = arg.off + i - 1
    BY <2>1 DEF OutputTrue
  <2> QED BY <2>1, <2>2, <1>2
<1>4. CASE i > Len(out)
  <2> DEFINE j == i - Len(out)
  <2>1. j \in 1 .. n /\ i = Len(out) + j
    BY <1>1, <1>4
  <2>2. out'[Len(out) + j] = cur + j - 1
    BY <1>2, <2>1
  <2> HIDE DEF j
  <2> QED BY <1>1, <2>1, <2>2
<1> QED BY <1>1, <1>3, <1>4

\* The state after a part of a node has been written, whatever comes next.
LEMMA WrittenInv ==
    ASSUME IInv, pc = "call", cur < Last,
           NEW m \in Holders(exnode, cur), NEW n \in 0 .. Node, out' = Written(m, n)
    PROVE  /\ InCall
           /\ cur + n \in Nat /\ From <= cur + n /\ cur + n <= Last
           /\ out' \in Seq(Nat \cup {Stale})
           /\ ~misread /\ ~misplaced =>
                 /\ arg.off + Len(out') = cur + n /\ Len(out') <= Wanted
                 /\ \A i \in DOMAIN out' : out'[i] = arg.off + i - 1
<1>1. InCall
  BY DEF IInv, CallShape, InCall
<1>2. /\ out \in Seq(Nat \cup {Stale}) /\ cur \in Nat /\ Node \in Nat /\ From \in Nat
      /\ Last \in Int /\ arg.off \in Nat /\ Wanted \in Nat /\ n \in Nat /\ n <= Node
      /\ cur + Node <= Last /\ From <= cur
  BY <1>1, ExnodeType, NodeInRange DEF InCall, TypeOK, From, Last
<1>3. out' \in Seq(Nat \cup {Stale}) /\ Len(out') = Len(out) + n
  BY <1>1, WrittenTrue
<1>4. ASSUME ~misread, ~misplaced
      PROVE  Last = arg.off + Wanted /\ arg.off + Len(out) = cur
  BY <1>4 DEF IInv, Progress
<1>5. ASSUME ~misread, ~misplaced
      PROVE  \A i \in DOMAIN out' : out'[i] = arg.off + i - 1
  BY <1>1, <1>4, <1>5, GrownTrue DEF IInv
<1>6. Len(out) \in Nat
  BY <1>2
<1>7. ASSUME ~misread, ~misplaced
      PROVE  arg.off + Len(out') = cur + n /\ Len(out') <= Wanted
  <2> DEFINE o == arg.off
             W == Wanted
             l == Len(out)
             k == Len(out')
  <2>1. /\ o \in Nat /\ W \in Nat /\ l \in Nat /\ n \in Nat /\ cur \in Nat
        /\ Node \in Nat /\ Last \in Int
    BY <1>2, <1>6
  <2>2. k = l + n /\ o + l = cur /\ Last = o + W /\ n <= Node /\ cur + Node <= Last
    BY <1>2, <1>3, <1>4, <1>7
  <2> HIDE DEF o, W, l, k
  <2>3. o + k = cur + n /\ k <= W
    BY <2>1, <2>2
  <2> QED BY <2>3 DEF o, W, l, k
<1>8. cur + n \in Nat /\ From <= cur + n /\ cur + n <= Last
  BY <1>2
<1> QED BY <1>1, <1>3, <1>5, <1>7, <1>8

\* An empty output is an output.
LEMMA EmptyOut == << >> \in Seq(Nat \cup {Stale}) /\ Len(<< >>) = 0
  OBVIOUS

\* Init, and each action, one after another.
LEMMA InitInv == Init => IInv
<1> SUFFICES ASSUME Init PROVE IInv
  OBVIOUS
<1>1. exnode \in Exnodes /\ arg \in Args
  BY DEF Init
<1>2. TypeOK
  <2>1. MaxRuns \in Nat /\ MaxFailures \in Nat /\ MaxKills \in Nat
    BY DownloadFileAssumption
  <2>2. out \in Seq(Nat \cup {Stale}) /\ {misread, misplaced} \subseteq BOOLEAN
    BY EmptyOut DEF Init
  <2>3. runs \in 0 .. MaxRuns /\ failures \in 0 .. MaxFailures /\ kills \in 0 .. MaxKills
    BY <2>1 DEF Init
  <2>4. cur \in 0 .. IF length > 0 THEN Last ELSE 0
    BY DEF Init
  <2>5. offset \in Nat /\ length \in Int /\ written \in Nat
    BY DEF Init
  <2>6. pc \in {"idle", "loop", "call", "close"} /\ end \in {"none", "success", "failure", "killed"}
    BY DEF Init
  <2>7. created \in BOOLEAN
    BY DEF Init
  <2> QED BY <1>1, <2>2, <2>3, <2>4, <2>5, <2>6, <2>7 DEF TypeOK
<1>3. CallShape
  BY DEF Init, CallShape
<1>4. OutputTrue
  BY DEF Init, OutputTrue
<1>5. Progress
  BY <1>1, ExnodeType DEF Init, Progress
<1> QED BY <1>2, <1>3, <1>4, <1>5 DEF IInv

LEMMA OpenInv == ASSUME IInv, Open PROVE IInv'
<1>1. exnode' = exnode /\ arg' = arg /\ Wanted' = Wanted /\ cur' = cur /\ cur = 0
  BY DEF Open, input, Wanted, IInv, CallShape
<1>2. /\ Wanted \in Nat /\ arg.off \in Nat
      /\ out \in Seq(Nat \cup {Stale}) /\ Len(out) \in Nat
  BY ExnodeType DEF IInv, TypeOK
<1>3. /\ runs' \in 0 .. MaxRuns /\ created' = TRUE /\ written' = 0 /\ pc' = "loop"
      /\ end' = "none" /\ failures' = failures /\ kills' = kills
  BY DownloadFileAssumption DEF Open, IInv, TypeOK
<1> DEFINE Anew ==
             /\ out' = << >> /\ offset' = arg.off /\ length' = Wanted
             /\ misread' = FALSE /\ misplaced' = FALSE
           Resumed ==
             /\ offset' = Len(out) /\ length' = Wanted - Len(out)
             /\ misplaced' = (misplaced \/ arg.off # 0)
             /\ out' = out /\ misread' = misread
<1>4. Anew \/ Resumed
  BY DEF Open, Remaining
<1>5. CASE Anew
  <2>1. From' = arg.off /\ Last' = arg.off + Wanted
    BY <1>1, <1>2, <1>3, <1>5 DEF From, Last
  <2>2. TypeOK'
    <3>1. out' \in Seq(Nat \cup {Stale})
      BY <1>5, EmptyOut
    <3>2. cur' \in 0 .. IF length' > 0 THEN Last' ELSE 0
      BY <1>1, <1>2, <1>5, <2>1
    <3>3. {misread', misplaced'} \subseteq BOOLEAN
      BY <1>5
    <3> QED BY <1>1, <1>2, <1>3, <1>5, <3>1, <3>2, <3>3 DEF IInv, TypeOK
  <2>3. CallShape' /\ OutputTrue'
    BY <1>1, <1>3, <1>5 DEF CallShape, OutputTrue
  <2>4. Progress'
    BY <1>1, <1>2, <1>3, <1>5, <2>1 DEF Progress
  <2> QED BY <2>2, <2>3, <2>4 DEF IInv
<1>6. CASE Resumed
  <2>1. From' = Len(out) /\ Last' = Wanted
    BY <1>2, <1>3, <1>6 DEF From, Last
  <2>2. misplaced \in BOOLEAN /\ misplaced' \in BOOLEAN /\ misread' \in BOOLEAN
    BY <1>6 DEF IInv, TypeOK
  <2>3. TypeOK'
    BY <1>1, <1>2, <1>3, <1>6, <2>1, <2>2 DEF IInv, TypeOK
  <2>4. CallShape'
    BY <1>1, <1>3 DEF CallShape
  <2>5. ASSUME ~misread', ~misplaced'
        PROVE  ~misread /\ ~misplaced /\ arg.off = 0
    BY <1>6, <2>2, <2>5
  <2>6. OutputTrue'
    BY <1>1, <1>6, <2>5 DEF IInv, OutputTrue
  <2>7. Progress'
    <3>1. ASSUME ~misread', ~misplaced'
          PROVE  Len(out) <= Wanted
      BY <2>5, <3>1 DEF IInv, Progress
    <3> QED BY <1>1, <1>2, <1>3, <1>6, <2>1, <2>5, <3>1 DEF Progress
  <2> QED BY <2>3, <2>4, <2>6, <2>7 DEF IInv
<1> QED BY <1>4, <1>5, <1>6

LEMMA CallInv == ASSUME IInv, Call PROVE IInv'
<1>1. /\ exnode' = exnode /\ arg' = arg /\ out' = out /\ created' = created /\ end' = end
      /\ offset' = offset /\ length' = length /\ written' = written
      /\ runs' = runs /\ failures' = failures /\ kills' = kills
      /\ misread' = misread /\ misplaced' = misplaced
      /\ pc = "loop" /\ pc' = "call" /\ cur' = From /\ written < length
  BY DEF Call, input, output, locals, counts, seen, From
<1>2. Wanted' = Wanted /\ From' = From /\ Last' = Last
  BY <1>1 DEF Wanted, From, Last
<1>3. /\ offset \in Nat /\ length \in Int /\ written \in Nat
      /\ From \in Nat /\ Last \in Nat /\ From < Last /\ 0 < length
  BY <1>1 DEF IInv, TypeOK, From, Last
<1>4. TypeOK'
  BY <1>1, <1>2, <1>3 DEF IInv, TypeOK
<1>5. CallShape'
  BY <1>1, <1>2, <1>3 DEF CallShape
<1>6. OutputTrue'
  BY <1>1 DEF IInv, OutputTrue
<1>7. Progress'
  BY <1>1, <1>2 DEF IInv, Progress
<1> QED BY <1>4, <1>5, <1>6, <1>7 DEF IInv

\* What no step but Open changes.
LEMMA SameRange ==
    ASSUME exnode' = exnode, arg' = arg, offset' = offset, length' = length
    PROVE  Wanted' = Wanted /\ Last' = Last
BY DEF Wanted, Last

LEMMA DeliverInv == ASSUME IInv, Deliver PROVE IInv'
<1>1. /\ exnode' = exnode /\ arg' = arg /\ created' = created /\ end' = end
      /\ offset' = offset /\ length' = length /\ written' = written
      /\ runs' = runs /\ failures' = failures /\ kills' = kills
      /\ misread' = misread /\ misplaced' = misplaced
      /\ pc = "call" /\ pc' = pc /\ cur < Last /\ cur' = cur + Node
  BY DEF Deliver, input, locals, counts, seen
<1>2. PICK m \in Holders(exnode, cur) : out' = Written(m, Node)
  BY DEF Deliver
<1>3. Wanted' = Wanted /\ Last' = Last /\ From' = From
  BY <1>1, SameRange DEF From
<1>4. Node \in 0 .. Node
  BY <1>1, NodeInRange DEF IInv, CallShape, InCall
<1>5. /\ InCall /\ cur' \in Nat /\ From <= cur' /\ cur' <= Last
      /\ out' \in Seq(Nat \cup {Stale})
      /\ ~misread /\ ~misplaced =>
            /\ arg.off + Len(out') = cur' /\ Len(out') <= Wanted
            /\ \A i \in DOMAIN out' : out'[i] = arg.off + i - 1
  BY <1>1, <1>2, <1>4, WrittenInv
<1>6. 0 < length /\ Last \in Int
  BY <1>1 DEF IInv, CallShape, TypeOK, Last
<1>7. TypeOK'
  BY <1>1, <1>3, <1>5, <1>6 DEF IInv, TypeOK
<1>8. CallShape'
  BY <1>1, <1>3, <1>5 DEF IInv, CallShape
<1>9. OutputTrue'
  BY <1>1, <1>5 DEF OutputTrue
<1>10. Progress'
  BY <1>1, <1>3, <1>5 DEF IInv, Progress
<1> QED BY <1>7, <1>8, <1>9, <1>10 DEF IInv

LEMMA WriteFailsInv == ASSUME IInv, WriteFails PROVE IInv'
<1>1. /\ exnode' = exnode /\ arg' = arg /\ created' = created /\ end' = end
      /\ offset' = offset /\ length' = length /\ written' = written
      /\ runs' = runs /\ failures < MaxFailures /\ failures' = failures + 1 /\ kills' = kills
      /\ misread' = misread /\ misplaced' = misplaced
      /\ pc = "call" /\ pc' = "close" /\ cur < Last
  BY DEF WriteFails, Fails, input, locals, seen
<1>2. PICK m \in Holders(exnode, cur), n \in 0 .. Node - 1 :
          out' = Written(m, n) /\ cur' = cur + n
  BY DEF WriteFails
<1>3. Wanted' = Wanted /\ Last' = Last /\ From' = From
  BY <1>1, SameRange DEF From
<1>4. n \in 0 .. Node
  BY <1>1, NodeInRange DEF IInv, CallShape, InCall
<1>5. /\ InCall /\ cur' \in Nat /\ From <= cur' /\ cur' <= Last
      /\ out' \in Seq(Nat \cup {Stale})
      /\ ~misread /\ ~misplaced =>
            /\ arg.off + Len(out') = cur' /\ Len(out') <= Wanted
            /\ \A i \in DOMAIN out' : out'[i] = arg.off + i - 1
  BY <1>1, <1>2, <1>4, WrittenInv
<1>6. 0 < length /\ Last \in Int /\ failures' \in 0 .. MaxFailures
  <2>1. MaxFailures \in Nat
    BY DownloadFileAssumption
  <2> QED BY <1>1, <2>1 DEF IInv, CallShape, TypeOK, Last
<1>7. TypeOK'
  BY <1>1, <1>3, <1>5, <1>6 DEF IInv, TypeOK
<1>8. CallShape'
  BY <1>1, <1>3, <1>5 DEF IInv, CallShape
<1>9. OutputTrue'
  BY <1>1, <1>5 DEF OutputTrue
<1>10. Progress'
  BY <1>1, <1>3, <1>5 DEF IInv, Progress
<1> QED BY <1>7, <1>8, <1>9, <1>10 DEF IInv

\* Lost and AllDelivered end the call and change nothing else.
LEMMA ClosedInv ==
    ASSUME IInv, pc = "call", pc' = "close", failures' \in 0 .. MaxFailures,
           UNCHANGED <<input, output, end, locals, cur, runs, kills, seen>>
    PROVE  IInv'
<1>1. /\ exnode' = exnode /\ arg' = arg /\ created' = created /\ end' = end /\ out' = out
      /\ offset' = offset /\ length' = length /\ written' = written
      /\ runs' = runs /\ kills' = kills /\ cur' = cur
      /\ misread' = misread /\ misplaced' = misplaced
  BY DEF input, output, locals, seen
<1>2. Wanted' = Wanted /\ Last' = Last /\ From' = From
  BY <1>1, SameRange DEF From
<1>3. TypeOK'
  BY <1>1, <1>2 DEF IInv, TypeOK
<1>4. CallShape' /\ OutputTrue' /\ Progress'
  BY <1>1, <1>2 DEF IInv, CallShape, OutputTrue, Progress
<1> QED BY <1>3, <1>4 DEF IInv

LEMMA LostInv == ASSUME IInv, Lost PROVE IInv'
<1>1. failures \in 0 .. MaxFailures /\ MaxFailures \in Nat
  BY DownloadFileAssumption DEF IInv, TypeOK
<1>2. failures' \in 0 .. MaxFailures
  BY <1>1 DEF Lost, Fails
<1> QED BY <1>2, ClosedInv DEF Lost

LEMMA AllDeliveredInv == ASSUME IInv, AllDelivered PROVE IInv'
<1>1. failures' \in 0 .. MaxFailures
  BY DEF AllDelivered, counts, IInv, TypeOK
<1> QED BY <1>1, ClosedInv DEF AllDelivered, counts

LEMMA ReturnBytesInv == ASSUME IInv, ReturnBytes PROVE IInv'
<1>1. /\ exnode' = exnode /\ arg' = arg /\ created' = created /\ end' = end /\ out' = out
      /\ offset' = offset /\ length' = length /\ cur' = cur
      /\ runs' = runs /\ failures' = failures /\ kills' = kills
      /\ misread' = misread /\ misplaced' = misplaced
      /\ pc = "close" /\ pc' = "loop" /\ From < cur /\ written' = written + (cur - From)
  BY DEF ReturnBytes, input, output, counts, seen
<1>2. Wanted' = Wanted /\ Last' = Last
  BY <1>1, SameRange
<1>3. /\ offset \in Nat /\ written \in Nat /\ From = offset + written /\ cur \in Nat
      /\ From' = offset + written'
  BY <1>1 DEF IInv, TypeOK, From, Last
<1>4. written' \in Nat /\ From' = cur
  BY <1>1, <1>3
<1>5. TypeOK'
  BY <1>1, <1>2, <1>4 DEF IInv, TypeOK
<1>6. CallShape' /\ OutputTrue' /\ Progress'
  BY <1>1, <1>2, <1>4 DEF IInv, CallShape, OutputTrue, Progress
<1> QED BY <1>5, <1>6 DEF IInv

LEMMA ReturnOneInv == ASSUME IInv, ReturnOne PROVE IInv'
<1>1. /\ exnode' = exnode /\ arg' = arg /\ created' = created /\ end' = end /\ out' = out
      /\ offset' = offset /\ length' = length /\ cur' = cur
      /\ runs' = runs /\ failures' = failures /\ kills' = kills
      /\ misread' = TRUE /\ misplaced' = misplaced
      /\ pc' = "loop" /\ written' = written + 1
  BY DEF ReturnOne, input, output, counts
<1>2. Wanted' = Wanted /\ Last' = Last /\ written' \in Nat
  BY <1>1, SameRange DEF IInv, TypeOK
<1>3. TypeOK'
  BY <1>1, <1>2 DEF IInv, TypeOK
<1>4. CallShape' /\ OutputTrue' /\ Progress'
  BY <1>1 DEF CallShape, OutputTrue, Progress
<1> QED BY <1>3, <1>4 DEF IInv

\* A run ends, with an output that is a piece of the file and not too long.
LEMMA ExitInv ==
    ASSUME IInv, NEW how \in {"success", "failure", "killed"}, Exit(how),
           exnode' = exnode, arg' = arg, created' = created,
           misread' = misread, misplaced' = misplaced, runs' = runs,
           failures' = failures, kills' \in 0 .. MaxKills,
           out' \in Seq(Nat \cup {Stale}),
           ~misread /\ ~misplaced =>
              /\ \A i \in DOMAIN out' : out'[i] = arg.off + i - 1
              /\ Len(out') <= Wanted
              /\ how = "success" => Len(out') = Wanted
    PROVE  IInv'
<1>1. /\ end' = how /\ pc' = "idle" /\ offset' = 0 /\ length' = 0 /\ written' = 0
      /\ cur' = 0 /\ Wanted' = Wanted
  BY DEF Exit, Wanted
<1>2. TypeOK'
  BY <1>1 DEF IInv, TypeOK
<1>3. CallShape' /\ OutputTrue'
  BY <1>1 DEF CallShape, OutputTrue
<1>4. Progress'
  BY <1>1 DEF Progress
<1> QED BY <1>2, <1>3, <1>4 DEF IInv

LEMMA SuccessInv == ASSUME IInv, Success PROVE IInv'
<1>1. /\ exnode' = exnode /\ arg' = arg /\ created' = created /\ out' = out
      /\ runs' = runs /\ failures' = failures /\ kills' = kills
      /\ misread' = misread /\ misplaced' = misplaced
      /\ pc = "loop" /\ written >= length /\ Exit("success")
  BY DEF Success, input, output, counts, seen
<1>2. /\ offset \in Nat /\ length \in Int /\ written \in Nat
      /\ From = offset + written /\ Last = offset + length
      /\ arg.off \in Nat /\ Wanted \in Nat /\ Len(out) \in Nat
  BY ExnodeType DEF IInv, TypeOK, From, Last
<1>3. ASSUME ~misread, ~misplaced
      PROVE  Len(out) = Wanted
  <2>1. Len(out) <= Wanted /\ Last = arg.off + Wanted /\ arg.off + Len(out) = From
    BY <1>1, <1>3 DEF IInv, Progress
  <2> DEFINE o == arg.off
             W == Wanted
             l == Len(out)
  <2>2. o \in Nat /\ W \in Nat /\ l \in Nat /\ l <= W /\ Last = o + W /\ o + l = From
    BY <1>2, <2>1
  <2> HIDE DEF o, W, l
  <2>3. l = W
    BY <1>1, <1>2, <2>2
  <2> QED BY <2>3 DEF W, l
<1>4. ASSUME ~misread, ~misplaced
      PROVE  \A i \in DOMAIN out : out[i] = arg.off + i - 1
  BY <1>4 DEF IInv, OutputTrue
<1>5. Len(out) = Wanted => Len(out) <= Wanted
  BY <1>2
<1>6. kills' \in 0 .. MaxKills /\ out' \in Seq(Nat \cup {Stale})
  BY <1>1 DEF IInv, TypeOK
<1> QED BY <1>1, <1>3, <1>4, <1>5, <1>6, ExitInv

LEMMA ReturnErrorInv == ASSUME IInv, ReturnError PROVE IInv'
<1>1. /\ exnode' = exnode /\ arg' = arg /\ created' = created /\ out' = out
      /\ runs' = runs /\ failures' = failures /\ kills' = kills
      /\ misread' = misread /\ misplaced' = misplaced
      /\ Exit("failure")
  BY DEF ReturnError, input, output, counts, seen
<1>2. kills' \in 0 .. MaxKills /\ out' \in Seq(Nat \cup {Stale})
  BY <1>1 DEF IInv, TypeOK
<1>3. ~misread /\ ~misplaced =>
        /\ \A i \in DOMAIN out : out[i] = arg.off + i - 1
        /\ Len(out) <= Wanted
  BY DEF IInv, OutputTrue, Progress
<1> QED BY <1>1, <1>2, <1>3, ExitInv

LEMMA KillInv == ASSUME IInv, Kill PROVE IInv'
<1>1. /\ exnode' = exnode /\ arg' = arg /\ created' = created
      /\ runs' = runs /\ failures' = failures /\ kills < MaxKills /\ kills' = kills + 1
      /\ misread' = misread /\ misplaced' = misplaced
      /\ Exit("killed")
  BY DEF Kill, input, seen
<1>2. kills' \in 0 .. MaxKills
  <2>1. MaxKills \in Nat
    BY DownloadFileAssumption
  <2> QED BY <1>1, <2>1 DEF IInv, TypeOK
<1>3. /\ out' \in Seq(Nat \cup {Stale})
      /\ ~misread /\ ~misplaced =>
            /\ \A i \in DOMAIN out' : out'[i] = arg.off + i - 1
            /\ Len(out') <= Wanted
  <2>1. CASE out' = out
    BY <2>1 DEF IInv, TypeOK, OutputTrue, Progress
  <2>2. CASE /\ pc = "call" /\ cur < Last
             /\ \E m \in Holders(exnode, cur), n \in 1 .. Node - 1 : out' = Written(m, n)
    <3>1. PICK m \in Holders(exnode, cur), n \in 1 .. Node - 1 : out' = Written(m, n)
      BY <2>2
    <3>2. n \in 0 .. Node
      BY <2>2, NodeInRange DEF IInv, CallShape, InCall
    <3> QED BY <2>2, <3>1, <3>2, WrittenInv
  <2> QED BY <2>1, <2>2 DEF Kill
<1> QED BY <1>1, <1>2, <1>3, ExitInv

LEMMA RestInv == ASSUME IInv, UNCHANGED vars PROVE IInv'
<1>1. /\ exnode' = exnode /\ arg' = arg /\ created' = created /\ end' = end /\ out' = out
      /\ offset' = offset /\ length' = length /\ written' = written /\ cur' = cur
      /\ runs' = runs /\ failures' = failures /\ kills' = kills /\ pc' = pc
      /\ misread' = misread /\ misplaced' = misplaced
  BY DEF vars, input, output, locals, counts, seen
<1>2. Wanted' = Wanted /\ Last' = Last /\ From' = From
  BY <1>1, SameRange DEF From
<1> QED BY <1>1, <1>2 DEF IInv, TypeOK, CallShape, OutputTrue, Progress

-----------------------------------------------------------------------------
(* The theorems                                                            *)

\* Every state that lors_download can reach is in the inductive invariant.
THEOREM DownloadFileInvariant == Spec => []IInv
<1>1. Init => IInv
  BY InitInv
<1>2. IInv /\ [Next]_vars => IInv'
  BY OpenInv, CallInv, SuccessInv, DeliverInv, WriteFailsInv, LostInv, AllDeliveredInv,
     ReturnBytesInv, ReturnErrorInv, ReturnOneInv, KillInv, RestInv DEF Next, Rest
<1> QED BY <1>1, <1>2, PTL DEF Spec

\* The locals of lorsDownloadFile and the output keep their types: the position of
\* a call never leaves the range that the run is for.
THEOREM DownloadFileTypeOK == Spec => []TypeOK
<1>1. IInv => TypeOK
  BY DEF IInv
<1> QED BY <1>1, DownloadFileInvariant, PTL

\* The output file is a piece of the file, whatever replicas are loaded, and
\* wherever the runs fail, are killed and go on.
THEOREM OutputIsTrue == Spec => []OutputTrue
<1>1. IInv => OutputTrue
  BY DEF IInv
<1> QED BY <1>1, DownloadFileInvariant, PTL

\* When lors_download says that it succeeded, the output is whole.
THEOREM SuccessIsWhole == Spec => []SuccessWhole
<1>1. IInv => SuccessWhole
  BY DEF IInv, Progress, SuccessWhole
<1> QED BY <1>1, DownloadFileInvariant, PTL
=============================================================================
