------------------------- MODULE MultiWorkerManager -------------------------
(***************************************************************************)
(* Type correctness of the multi-worker executor, facts on sequences that its *)
(* proofs share, and the steps of the manager, which keep the invariant.   *)
(***************************************************************************)
EXTENDS MultiWorkerInv, TLAPS

(* The time for a step that names no prover.                               *)
USE SMTT(45), ZenonT(20)

-----------------------------------------------------------------------------
(***************************************************************************)
(* Sequences and the set of their elements.                                *)
(***************************************************************************)

LEMMA EmptySeq ==
  ASSUME NEW S, NEW q \in Seq(S)
  PROVE  q = <<>> <=> Len(q) = 0
OBVIOUS

LEMMA ElementOfSeq ==
  ASSUME NEW S, NEW q \in Seq(S), NEW n \in 1 .. Len(q)
  PROVE  q[n] \in S
OBVIOUS

(* An empty batch holds nothing.                                           *)
LEMMA ElemsEmpty == Elems(<<>>) = {} /\ Distinct(<<>>)
BY DEF Elems, Distinct

(* Taking a transaction into a batch, or its result into the results.      *)
LEMMA ElemsAppend ==
  ASSUME NEW S, NEW q \in Seq(S), NEW x \in S
  PROVE  /\ Append(q, x) \in Seq(S) /\ Append(q, x) # <<>>
         /\ Elems(Append(q, x)) = Elems(q) \cup {x}
         /\ Distinct(q) /\ x \notin Elems(q) => Distinct(Append(q, x))
<1>1. /\ Append(q, x) \in Seq(S) /\ Len(Append(q, x)) = Len(q) + 1 /\ Len(q) \in Nat
      /\ \A n \in 1 .. Len(q) : Append(q, x)[n] = q[n]
      /\ Append(q, x)[Len(q) + 1] = x
  OBVIOUS
<1>2. Elems(Append(q, x)) = Elems(q) \cup {x}
  BY <1>1 DEF Elems
<1>3. Distinct(q) /\ x \notin Elems(q) => Distinct(Append(q, x))
  BY <1>1 DEF Elems, Distinct
<1>4. QED
  BY <1>1, <1>2, <1>3

(* Executing the first transaction of a batch.                             *)
LEMMA ElemsTail ==
  ASSUME NEW S, NEW q \in Seq(S), q # <<>>
  PROVE  /\ Head(q) \in S /\ Tail(q) \in Seq(S)
         /\ Elems(q) = {Head(q)} \cup Elems(Tail(q))
         /\ Distinct(q) => Head(q) \notin Elems(Tail(q)) /\ Distinct(Tail(q))
<1>1. /\ Len(q) \in Nat \ {0} /\ Head(q) = q[1] /\ Head(q) \in S
      /\ Tail(q) \in Seq(S) /\ Len(Tail(q)) = Len(q) - 1
      /\ \A n \in 1 .. Len(q) - 1 : Tail(q)[n] = q[n + 1]
  OBVIOUS
<1>2. \A n \in 2 .. Len(q) : n - 1 \in 1 .. Len(Tail(q)) /\ Tail(q)[n - 1] = q[n]
  BY <1>1
<1>3. Elems(q) = {Head(q)} \cup Elems(Tail(q))
  <2>1. Elems(q) \subseteq {Head(q)} \cup Elems(Tail(q))
    <3>1. SUFFICES ASSUME NEW n \in 1 .. Len(q)
                   PROVE  q[n] = Head(q) \/ q[n] \in Elems(Tail(q))
      BY Zenon DEF Elems
    <3>2. CASE n = 1  BY Zenon, <3>2, <1>1
    <3>3. CASE n \in 2 .. Len(q)  BY <3>3, <1>2, Zenon DEF Elems
    <3>4. QED  BY <3>2, <3>3, <1>1
  <2>2. {Head(q)} \cup Elems(Tail(q)) \subseteq Elems(q)
    <3>1. 1 \in 1 .. Len(q)  BY <1>1
    <3>2. \A n \in 1 .. Len(Tail(q)) : n + 1 \in 1 .. Len(q)  BY <1>1
    <3>3. QED  BY <3>1, <3>2, <1>1 DEF Elems
  <2>3. QED  BY Zenon, <2>1, <2>2
<1>4. Distinct(q) => Head(q) \notin Elems(Tail(q)) /\ Distinct(Tail(q))
  <2>1. \A n \in 1 .. Len(Tail(q)) : n + 1 \in 1 .. Len(q) /\ n + 1 # 1  BY <1>1
  <2>2. 1 \in 1 .. Len(q)  BY <1>1
  <2>3. Distinct(q) => Head(q) \notin Elems(Tail(q))
    BY <2>1, <2>2, <1>1 DEF Elems, Distinct
  <2>4. Distinct(q) => Distinct(Tail(q))
    BY <2>1, <1>1 DEF Distinct
  <2>5. QED  BY Zenon, <2>3, <2>4
<1>5. QED
  BY Zenon, <1>1, <1>3, <1>4

(* A channel that holds one batch.                                         *)
LEMMA AtMostOne ==
  ASSUME NEW S, NEW q \in Seq(S), q # <<>>, Len(q) <= 1
  PROVE  Len(q) = 1
<1>1. Len(q) \in Nat \ {0}
  BY EmptySeq
<1>2. QED
  BY <1>1

LEMMA Singleton ==
  ASSUME NEW S, NEW q \in Seq(S), Len(q) = 1
  PROVE  Tail(q) = <<>> /\ Head(q) = q[1]
<1>1. q # <<>> /\ Head(q) = q[1]
  OBVIOUS
<1>2. Tail(q) \in Seq(S) /\ Len(Tail(q)) = 0
  BY <1>1
<1>3. QED
  BY <1>1, <1>2, EmptySeq, Zenon

(* Receiving the results of a worker.                                      *)
LEMMA ElemsConcat ==
  ASSUME NEW S, NEW p \in Seq(S), NEW q \in Seq(S)
  PROVE  /\ p \o q \in Seq(S) /\ Len(p \o q) = Len(p) + Len(q)
         /\ Elems(p \o q) = Elems(p) \cup Elems(q)
         /\ Distinct(p) /\ Distinct(q) /\ Elems(p) \cap Elems(q) = {} =>
              Distinct(p \o q)
<1>1. /\ p \o q \in Seq(S) /\ Len(p \o q) = Len(p) + Len(q)
      /\ Len(p) \in Nat /\ Len(q) \in Nat
      /\ \A n \in 1 .. Len(p) : (p \o q)[n] = p[n]
      /\ \A n \in 1 .. Len(q) : (p \o q)[Len(p) + n] = q[n]
  OBVIOUS
<1>2. \A n \in 1 .. Len(p \o q) :
        \/ n \in 1 .. Len(p) /\ (p \o q)[n] = p[n]
        \/ n - Len(p) \in 1 .. Len(q) /\ (p \o q)[n] = q[n - Len(p)]
  <2>1. TAKE n \in 1 .. Len(p \o q)
  <2>2. CASE n <= Len(p)  BY <2>2, <1>1
  <2>3. CASE n > Len(p)
    <3>1. n - Len(p) \in 1 .. Len(q) /\ n = Len(p) + (n - Len(p))  BY <2>3, <1>1
    <3>2. QED  BY Zenon, <3>1, <1>1
  <2>4. QED  BY <2>2, <2>3, <1>1
<1>3. Elems(p \o q) = Elems(p) \cup Elems(q)
  <2>1. Elems(p \o q) \subseteq Elems(p) \cup Elems(q)
    BY Zenon, <1>2 DEF Elems
  <2>2. Elems(p) \subseteq Elems(p \o q)
    BY <1>1 DEF Elems
  <2>3. \A n \in 1 .. Len(q) : Len(p) + n \in 1 .. Len(p \o q)
    BY <1>1
  <2>4. Elems(q) \subseteq Elems(p \o q)
    BY Zenon, <2>3, <1>1 DEF Elems
  <2>5. QED  BY Zenon, <2>1, <2>2, <2>4
<1>4. ASSUME Distinct(p), Distinct(q), Elems(p) \cap Elems(q) = {}
      PROVE  Distinct(p \o q)
  <2>1. SUFFICES ASSUME NEW m \in 1 .. Len(p \o q), NEW n \in 1 .. Len(p \o q),
                        (p \o q)[m] = (p \o q)[n]
                 PROVE  m = n
    BY Zenon DEF Distinct
  <2>2. \A a \in 1 .. Len(p), b \in 1 .. Len(q) : p[a] # q[b]
    BY <1>4, Zenon DEF Elems
  <2>3. QED  BY <2>1, <2>2, <1>1, <1>2, <1>4 DEF Distinct
<1>5. QED
  BY Zenon, <1>1, <1>3, <1>4

(* The elements of a sequence over S are in S; a sequence with elements in *)
(* T is a sequence over T.                                                 *)
LEMMA ElemsType ==
  ASSUME NEW S, NEW q \in Seq(S)
  PROVE  /\ Elems(q) \subseteq S
         /\ \A T : Elems(q) \subseteq T => q \in Seq(T)
<1>1. Len(q) \in Nat /\ q \in [1 .. Len(q) -> S]
  OBVIOUS
<1>2. Elems(q) \subseteq S
  BY Zenon, <1>1 DEF Elems
<1>3. ASSUME NEW T, Elems(q) \subseteq T
      PROVE  q \in Seq(T)
  <2>1. q \in [1 .. Len(q) -> T]
    BY Zenon, <1>1, <1>3 DEF Elems
  <2>2. QED
    BY <2>1, <1>1
<1>4. QED
  BY Zenon, <1>2, <1>3

-----------------------------------------------------------------------------
(***************************************************************************)
(* Type correctness.                                                       *)
(***************************************************************************)

(* The block is a non-empty sequence of transactions.                      *)
LEMMA BlockType ==
  ASSUME start \in Starts
  PROVE  /\ Len(block) \in Nat \ {0}
         /\ \A i \in Index : block[i] \in Tx /\ block[i].sender \in Senders
                             /\ block[i].nonce \in Nat
         /\ start.prevNonce \in [Senders -> Nat \cup {NoNonce}]
         /\ start.seqNo \in [Senders -> Nat]
<1>1. block \in Seq(Tx) /\ Len(block) > 0
  BY Zenon, StartsType DEF block
<1>2. Len(block) \in Nat \ {0} /\ \A i \in Index : block[i] \in Tx
  BY <1>1 DEF Index
<1>3. \A tx \in Tx : tx.sender \in Senders /\ tx.nonce \in Nat
  BY Zenon DEF Tx
<1>4. QED
  BY Zenon, <1>2, <1>3, StartsType

(* A call starts with values of the right types.                           *)
LEMMA InitType == Init => TypeOK
<1>1. SUFFICES ASSUME Init PROVE TypeOK
  BY Zenon
<1>2. Len(block) \in Nat \ {0}
  BY Zenon, <1>1, BlockType DEF Init
<1>3. 0 \in 0 .. Len(block) /\ 1 \in 1 .. Len(block) + 1
  BY <1>2
<1>4. Clean \in Seen /\ NotRun \in [kept : BOOLEAN, run : BOOLEAN, read : Seen]
  BY Zenon DEF Clean, NotRun, Seen
<1>5. /\ prevNonce \in [Senders -> Nat \cup {NoNonce}]
      /\ seqNo \in [Senders -> Nat]
  BY Zenon, <1>1, BlockType DEF Init
<1>6. outcome \in [Index -> [kept : BOOLEAN, run : BOOLEAN, read : Seen]]
  BY Zenon, <1>1, <1>4 DEF Init, Index, block
<1>7. QED
  BY <1>1, <1>3, <1>4, <1>5, <1>6 DEF Init, TypeOK, Worker, Batch

(* The block, and with it the types, are fixed for the call.               *)
LEMMA SameBlock ==
  [Next]_vars => /\ start' = start /\ block' = block /\ Index' = Index
                 /\ Batch' = Batch /\ Reply' = Reply /\ Seen' = Seen
<1>1. [Next]_vars => start' = start
  BY Zenon DEF Next, Manager, WorkerStep, Terminated, vars,
         ScanPanic, ScanTake, ScanSkip, ScanWait, ScanEnd, SendTxnsToWorker,
         TryRecvResults, TryRecvNothing, ReceiveContext, PrologueAccept,
         PrologueDiscard, GetStateValue, ApplyWrites, DropView, SendReply
<1>2. QED
  BY <1>1, Zenon DEF block, Index, Batch, Reply, Seen

(* The end of an iteration moves on to the next pointer, or returns.       *)
LEMMA EndIterationType ==
  ASSUME cur \in Worker, NEW d, EndIteration(d)
  PROVE  cur' \in Worker /\ mpc' \in {"returned", "scan"}
BY DEF EndIteration, NextPointer, Worker

(* A step of the manager keeps the types.                                  *)
LEMMA ManagerType ==
  ASSUME Inv, Manager
  PROVE  TypeOK'
<1>1. TypeOK /\ Index = 1 .. Len(block) /\ Batch = Seq(Index)
  BY Zenon DEF Inv, Index, Batch
<1>0. /\ start' = start /\ block' = block /\ Index' = Index
      /\ Batch' = Batch /\ Reply' = Reply /\ Seen' = Seen
  BY Zenon, SameBlock DEF Next
<1>2. Len(block) \in Nat \ {0} /\ \A i \in Index : block[i].sender \in Senders
                                                  /\ block[i].nonce \in Nat
  BY Zenon, <1>1, BlockType DEF TypeOK
<1>3. CASE ScanPanic
  BY <1>0, <1>1, <1>3, Zenon DEF ScanPanic, TypeOK, workerVars, stateVars
<1>4. CASE ScanTake
  <2>1. ptr[cur] \in Index /\ ptr[cur] + 1 \in 1 .. Len(block) + 1
    BY <1>1, <1>2, <1>4, SMTT(30) DEF ScanTake, Scanning, TypeOK
  <2>2. batch' \in Batch
    BY Zenon, <2>1, <1>1, <1>4, ElemsAppend DEF ScanTake, TypeOK
  <2>3. prevNonce' \in [Senders -> Nat \cup {NoNonce}]
    BY <2>1, <1>1, <1>2, <1>4, Zenon DEF ScanTake, Scanned, TypeOK
  <2>4. QED
    BY <2>1, <2>2, <2>3, <1>0, <1>1, <1>4, Zenon DEF ScanTake, TypeOK, workerVars, stateVars
<1>5. CASE ScanSkip
  <2>1. ptr[cur] + 1 \in 1 .. Len(block) + 1
    BY <1>1, <1>2, <1>5 DEF ScanSkip, Scanning, TypeOK
  <2>2. QED
    BY <2>1, <1>0, <1>1, <1>5, Zenon DEF ScanSkip, TypeOK, workerVars, stateVars
<1>6. CASE ScanWait
  BY <1>0, <1>1, <1>6, Zenon DEF ScanWait, TypeOK, workerVars, stateVars
<1>7. CASE ScanEnd
  BY <1>0, <1>1, <1>7, Zenon DEF ScanEnd, TypeOK, workerVars, stateVars
<1>8. CASE SendTxnsToWorker
  <2>1. req' \in [Worker -> Seq(Batch)]
    <3>1. Append(req[cur], batch) \in Seq(Batch)
      BY Zenon, <1>1, ElemsAppend DEF TypeOK
    <3>2. QED
      BY <3>1, <1>1, <1>8, Zenon DEF SendTxnsToWorker, TypeOK
  <2>2. loaded' \in [Worker -> BOOLEAN]
    BY <1>1, <1>8, Zenon DEF SendTxnsToWorker, TypeOK
  <2>3. batch' \in Batch /\ mpc' = "recv"
    BY <1>1, <1>8 DEF SendTxnsToWorker
  <2>4. UNCHANGED <<start, cur, ptr, prevNonce, ret, reply, workerVars, stateVars>>
    BY Zenon, <1>8 DEF SendTxnsToWorker
  <2>5. QED
    BY <2>1, <2>2, <2>3, <2>4, <1>0, <1>1, Zenon DEF TypeOK, workerVars, stateVars
<1>9. CASE TryRecvResults
  <2>1. /\ Head(reply) \in Reply /\ reply' \in Seq(Reply)
        /\ ret' = ret \o Head(reply).results
    BY Zenon, <1>1, <1>9, ElemsTail DEF TryRecvResults, TypeOK
  <2>2. ret' \in Batch
    BY <2>1, <1>1, ElemsConcat, Zenon DEF TypeOK, Reply
  <2>3. loaded' \in [Worker -> BOOLEAN]
    BY <1>1, <1>9, Zenon DEF TryRecvResults, TypeOK
  <2>4. cur' \in Worker /\ mpc' \in {"returned", "scan"}
    BY Zenon, <1>1, <1>9, EndIterationType DEF TryRecvResults, TypeOK
  <2>5. QED
    BY <2>1, <2>2, <2>3, <2>4, <1>0, <1>1, <1>9, Zenon DEF TryRecvResults, TypeOK, workerVars, stateVars
<1>10. CASE TryRecvNothing
  <2>1. cur' \in Worker /\ mpc' \in {"returned", "scan"}
    BY Zenon, <1>1, <1>10, EndIterationType DEF TryRecvNothing, TypeOK
  <2>2. QED
    BY <2>1, <1>0, <1>1, <1>10, Zenon DEF TryRecvNothing, TypeOK, workerVars, stateVars
<1>11. QED
  BY Zenon, <1>3, <1>4, <1>5, <1>6, <1>7, <1>8, <1>9, <1>10 DEF Manager

(* A step of a worker keeps the types.                                     *)
LEMMA WorkerType ==
  ASSUME Inv, NEW w \in Worker, WorkerStep(w)
  PROVE  TypeOK'
<1>1. TypeOK /\ Index = 1 .. Len(block) /\ Batch = Seq(Index)
  BY Zenon DEF Inv, Index, Batch
<1>0. /\ start' = start /\ block' = block /\ Index' = Index
      /\ Batch' = Batch /\ Reply' = Reply /\ Seen' = Seen
  BY Zenon, SameBlock DEF Next
<1>2. Len(block) \in Nat \ {0} /\ \A i \in Index : block[i].sender \in Senders
                                                  /\ block[i].nonce \in Nat
  BY <1>1, BlockType, Zenon DEF TypeOK
<1>3. wpc[w] \in {"prologue", "read"} => job[w] # <<>>
  BY Zenon DEF Inv, WorkerHolds
<1>4. ASSUME job[w] # <<>>
      PROVE  Head(job[w]) \in Index /\ Tail(job[w]) \in Batch
  BY <1>1, <1>4, ElemsTail, Zenon DEF TypeOK
<1>5. Clean \in Seen
  BY Zenon DEF Clean, Seen
<1>6. ASSUME FinishTxn(w), job[w] # <<>>
      PROVE  /\ res' \in [Worker -> Batch] /\ job' \in [Worker -> Batch]
             /\ snap' \in [Worker -> Seen]
             /\ wpc' \in [Worker -> {"idle", "prologue", "read", "drop", "reply"}]
  <2>1. Append(res[w], Head(job[w])) \in Batch
    BY Zenon, <1>1, <1>4, <1>6, ElemsAppend DEF TypeOK
  <2>2. QED
    BY <2>1, <1>1, <1>4, <1>5, <1>6, Zenon DEF FinishTxn, TypeOK
<1>7. CASE ReceiveContext(w)
  <2>1. Head(req[w]) \in Batch /\ Tail(req[w]) \in Seq(Batch)
    BY <1>1, <1>7, ElemsTail, Zenon DEF ReceiveContext, TypeOK
  <2>2. QED
    BY <2>1, <1>0, <1>1, <1>7, Zenon DEF ReceiveContext, TypeOK, managerVars, stateVars
<1>8. CASE PrologueAccept(w)
  BY <1>0, <1>1, <1>8, Zenon DEF PrologueAccept, TypeOK, managerVars, stateVars
<1>9. CASE PrologueDiscard(w)
  <2>1. job[w] # <<>> /\ FinishTxn(w)
    BY Zenon, <1>3, <1>9 DEF PrologueDiscard
  <2>2. outcome' \in [Index -> [kept : BOOLEAN, run : BOOLEAN, read : Seen]]
    BY Zenon, <2>1, <1>1, <1>4, <1>5, <1>9 DEF PrologueDiscard, TypeOK
  <2>3. QED
    BY <2>1, <2>2, <1>0, <1>1, <1>6, <1>9, Zenon DEF PrologueDiscard, TypeOK, managerVars
<1>10. CASE \E k \in Keys : GetStateValue(w, k)
  <2>1. PICK k \in Keys : GetStateValue(w, k)
    BY Zenon, <1>10
  <2>2. [snap[w] EXCEPT ![k] = @ \cup {cache[k]}] \in Seen
    <3>1. ASSUME NEW V, NEW f \in [Keys -> SUBSET V], NEW v \in V
          PROVE  [f EXCEPT ![k] = @ \cup {v}] \in [Keys -> SUBSET V]
      BY Zenon
    <3>2. snap[w] \in [Keys -> SUBSET (0 .. Len(block))] /\ cache[k] \in 0 .. Len(block)
      BY Zenon, <1>1 DEF TypeOK, Seen
    <3>3. QED
      BY Zenon, <3>1, <3>2 DEF Seen
  <2>3. snap' \in [Worker -> Seen]
    <3>1. snap' = [snap EXCEPT ![w] = [snap[w] EXCEPT ![k] = @ \cup {cache[k]}]]
      BY Zenon, <2>1 DEF GetStateValue
    <3>2. snap \in [Worker -> Seen]
      BY Zenon, <1>1 DEF TypeOK
    <3>3. QED
      BY Zenon, <3>1, <3>2, <2>2
  <2>4. QED
    BY <2>1, <2>3, <1>0, <1>1, Zenon DEF GetStateValue, TypeOK, managerVars, stateVars
<1>11. CASE ApplyWrites(w)
  <2>1. job[w] # <<>> /\ FinishTxn(w)
    BY <1>3, <1>11, Zenon DEF ApplyWrites
  <2>2. cache' \in [Keys -> 0 .. Len(block)]
    <3>1. Head(job[w]) \in 0 .. Len(block)
      BY Zenon, <2>1, <1>1, <1>2, <1>4, SMTT(30)
    <3>2. QED
      BY Zenon, <3>1, <1>1, <1>11 DEF ApplyWrites, TypeOK
  <2>3. seqNo' \in [Senders -> Nat]
    <3>1. Executing(w).sender \in Senders /\ Executing(w).nonce + 1 \in Nat
      BY <2>1, <1>2, <1>4 DEF Executing
    <3>2. QED
      BY <3>1, <1>1, <1>11, Zenon DEF ApplyWrites, TypeOK
  <2>4. outcome' \in [Index -> [kept : BOOLEAN, run : BOOLEAN, read : Seen]]
    BY <2>1, <1>1, <1>4, <1>11, Zenon DEF ApplyWrites, TypeOK
  <2>5. QED
    BY <2>1, <2>2, <2>3, <2>4, <1>0, <1>1, <1>6, <1>11, Zenon DEF ApplyWrites, TypeOK, managerVars
<1>12. CASE DropView(w)
  BY <1>0, <1>1, <1>12, Zenon DEF DropView, TypeOK, managerVars, stateVars
<1>13. CASE SendReply(w)
  <2>1. [worker |-> w, results |-> res[w]] \in Reply
    BY Zenon, <1>1 DEF Reply, TypeOK
  <2>2. reply' \in Seq(Reply)
    BY Zenon, <2>1, <1>1, <1>13, ElemsAppend DEF SendReply, TypeOK
  <2>3. QED
    BY <2>2, <1>0, <1>1, <1>13, SMTT(30) DEF SendReply, TypeOK, managerVars, stateVars
<1>14. QED
  BY Zenon, <1>7, <1>8, <1>9, <1>10, <1>11, <1>12, <1>13 DEF WorkerStep

(* Batches hold indices of the block.                                      *)
LEMMA BatchElems ==
  ASSUME batch \in Seq(Index), job \in [Worker -> Seq(Index)],
         req \in [Worker -> Seq(Seq(Index))]
  PROVE  /\ Elems(batch) \subseteq Index
         /\ \A w \in Worker : /\ Elems(job[w]) \subseteq Index
                              /\ req[w] # <<>> => /\ req[w][1] \in Seq(Index)
                                                  /\ Elems(req[w][1]) \subseteq Index
<1>1. Elems(batch) \subseteq Index /\ \A w \in Worker : Elems(job[w]) \subseteq Index
  BY Zenon, ElemsType
<1>2. ASSUME NEW w \in Worker, req[w] # <<>>
      PROVE  req[w][1] \in Seq(Index)
  <2>1. req[w] \in Seq(Seq(Index))
    BY Zenon
  <2>2. Head(req[w]) \in Seq(Index) /\ Head(req[w]) = req[w][1]
    BY <2>1, <1>2, ElemsTail
  <2>3. QED
    BY Zenon, <2>2
<1>3. QED
  BY Zenon, <1>1, <1>2, ElemsType

-----------------------------------------------------------------------------
(***************************************************************************)
(* Control: one batch per worker, and flags that tell the truth.           *)
(***************************************************************************)

(* Receiving an answer takes out the only one of its worker.               *)
LEMMA ReplyTail ==
  ASSUME reply \in Seq(Reply), reply # <<>>, reply' = Tail(reply), OneAnswer
  PROVE  /\ OneAnswer'
         /\ \A w \in Worker : Answered(w)' <=> Answered(w) /\ w # Head(reply).worker
         /\ \A n \in 1 .. Len(reply') : n + 1 \in 1 .. Len(reply) /\ reply'[n] = reply[n + 1]
<1>1. /\ Len(reply) \in Nat \ {0} /\ Head(reply) = reply[1]
      /\ Len(reply') = Len(reply) - 1
      /\ \A n \in 1 .. Len(reply) - 1 : reply'[n] = reply[n + 1]
  OBVIOUS
<1>2. \A n \in 1 .. Len(reply') : n + 1 \in 1 .. Len(reply) /\ n + 1 # 1
                                  /\ reply'[n] = reply[n + 1]
  BY <1>1
<1>3. OneAnswer'
  BY <1>1, <1>2 DEF OneAnswer
<1>4. ASSUME NEW w \in Worker
      PROVE  Answered(w)' <=> Answered(w) /\ w # Head(reply).worker
  <2>1. ASSUME Answered(w)'
        PROVE  Answered(w) /\ w # Head(reply).worker
    <3>1. PICK n \in 1 .. Len(reply') : reply'[n].worker = w
      BY Zenon, <2>1 DEF Answered
    <3>2. n + 1 \in 1 .. Len(reply) /\ reply[n + 1].worker = w /\ n + 1 # 1
          /\ 1 \in 1 .. Len(reply)
      BY <3>1, <1>1, <1>2
    <3>3. QED
      BY Zenon, <3>2, <1>1 DEF Answered, OneAnswer
  <2>2. ASSUME Answered(w), w # Head(reply).worker
        PROVE  Answered(w)'
    <3>1. PICK n \in 1 .. Len(reply) : reply[n].worker = w
      BY Zenon, <2>2 DEF Answered
    <3>2. n # 1
      BY Zenon, <3>1, <2>2, <1>1
    <3>3. n - 1 \in 1 .. Len(reply') /\ reply'[n - 1] = reply[n]
      BY <3>1, <3>2, <1>1
    <3>4. QED
      BY <3>1, <3>3, Zenon DEF Answered
  <2>3. QED
    BY Zenon, <2>1, <2>2
<1>5. QED
  BY Zenon, <1>2, <1>3, <1>4

(* A pointer takes a transaction only when its worker may have a batch.    *)
LEMMA TakeWhenFree ==
  ASSUME cur \in Worker, CanTake(cur, Scanned)
  PROVE  /\ ~loaded[cur] /\ ~loaded["Cross"]
         /\ cur = "Cross" => \A w \in Worker : ~loaded[w]
BY Zenon DEF CanTake, Available, Busy, MustBeFree, ScanningPointer, NativeTypes, Worker

(* A step of the manager keeps control of the batches.                     *)
LEMMA ManagerControl ==
  ASSUME Inv, Manager
  PROVE  WorkerHolds' /\ OneBatch' /\ Flags'
<1>1. TypeOK /\ WorkerHolds /\ OneBatch /\ Flags
  BY Zenon DEF Inv
<1>2. cur \in Worker /\ loaded \in [Worker -> BOOLEAN] /\ reply \in Seq(Reply)
      /\ req \in [Worker -> Seq(Batch)] /\ batch \in Batch
  BY Zenon, <1>1 DEF TypeOK
<1>3. UNCHANGED <<wpc, job, snap, res>> => WorkerHolds'
  BY <1>1 DEF WorkerHolds
<1>4. UNCHANGED workerVars
  BY Zenon DEF Manager, ScanPanic, ScanTake, ScanSkip, ScanWait, ScanEnd,
         SendTxnsToWorker, TryRecvResults, TryRecvNothing
<1>5. ASSUME UNCHANGED <<cur, batch, loaded, req, reply>>,
             mpc' \in {"panicked", "send"}
      PROVE  OneBatch' /\ Flags'
  BY <1>1, <1>4, <1>5, Zenon DEF OneBatch, OneAnswer, Flags, AtWork, Answered, workerVars
<1>6. CASE ScanPanic
  BY Zenon, <1>3, <1>4, <1>5, <1>6 DEF ScanPanic, workerVars
<1>7. CASE ScanTake
  <2>1. /\ ~loaded[cur] /\ ~loaded["Cross"]
        /\ cur = "Cross" => \A w \in Worker : ~loaded[w]
    BY Zenon, <1>2, <1>7, TakeWhenFree DEF ScanTake
  <2>2. UNCHANGED <<mpc, cur, loaded, req, reply>> /\ mpc = "scan"
    BY Zenon, <1>7 DEF ScanTake, Scanning
  <2>3. QED
    BY Zenon, <2>1, <2>2, <1>1, <1>3, <1>4
       DEF OneBatch, OneAnswer, Flags, AtWork, Answered, workerVars
<1>8. CASE ScanSkip
  BY Zenon, <1>3, <1>4, <1>5, <1>8 DEF ScanSkip, workerVars
<1>9. CASE ScanWait
  BY Zenon, <1>3, <1>4, <1>5, <1>9 DEF ScanWait, workerVars
<1>10. CASE ScanEnd
  BY Zenon, <1>3, <1>4, <1>5, <1>10 DEF ScanEnd, workerVars
<1>11. CASE SendTxnsToWorker
  <2>1. UNCHANGED <<cur, reply>> /\ batch' = <<>> /\ mpc' = "recv"
    BY Zenon, <1>11 DEF SendTxnsToWorker
  <2>2. CASE batch = <<>>
    <3>1. UNCHANGED <<req, loaded>>
      BY Zenon, <2>2, <1>11 DEF SendTxnsToWorker
    <3>2. QED
      BY Zenon, <2>1, <3>1, <1>1, <1>3, <1>4
         DEF OneBatch, OneAnswer, Flags, AtWork, Answered, workerVars
  <2>3. CASE batch # <<>>
    <3>1. /\ req' = [req EXCEPT ![cur] = Append(@, batch)]
          /\ loaded' = [loaded EXCEPT ![cur] = TRUE]
      BY Zenon, <2>3, <1>11 DEF SendTxnsToWorker
    <3>2. /\ req[cur] = <<>> /\ wpc[cur] = "idle" /\ ~Answered(cur)
          /\ ~loaded[cur] /\ ~loaded["Cross"]
          /\ cur = "Cross" => \A w \in Worker : ~loaded[w]
      BY Zenon, <2>3, <1>1, <1>2 DEF Flags, AtWork
    <3>3. req'[cur] = <<batch>> /\ \A w \in Worker \ {cur} : req'[w] = req[w]
      BY <3>1, <3>2, <1>2
    <3>4. loaded'[cur] /\ \A w \in Worker \ {cur} : loaded'[w] = loaded[w]
      BY Zenon, <3>1, <1>2
    <3>5. \A w : Answered(w)' <=> Answered(w)
      BY Zenon, <2>1 DEF Answered
    <3>6. OneBatch'
      <4>1. Len(req'[cur]) <= 1 /\ req'[cur][1] # <<>>
        BY <2>3, <3>3
      <4>2. UNCHANGED wpc
        BY Zenon, <1>4 DEF workerVars
      <4>3. ASSUME NEW w \in Worker
            PROVE  /\ Len(req'[w]) <= 1
                   /\ req'[w] # <<>> =>
                        req'[w][1] # <<>> /\ wpc'[w] = "idle" /\ ~Answered(w)'
                   /\ wpc'[w] # "idle" => ~Answered(w)'
        <5>1. CASE w = cur
          BY Zenon, <5>1, <4>1, <4>2, <3>2, <3>5
        <5>2. CASE w # cur
          BY Zenon, <5>2, <4>2, <3>3, <3>5, <1>1 DEF OneBatch
        <5>3. QED
          BY Zenon, <5>1, <5>2
      <4>4. OneAnswer' /\ \A n \in 1 .. Len(reply') : reply'[n].results # <<>>
        BY Zenon, <2>1, <1>1 DEF OneBatch, OneAnswer
      <4>5. QED
        BY Zenon, <4>3, <4>4 DEF OneBatch
    <3>7. Flags'
      BY Zenon, <2>1, <3>2, <3>3, <3>4, <3>5, <1>1, <1>2, <1>4 DEF Flags, AtWork, workerVars, Worker
    <3>8. QED
      BY Zenon, <3>6, <3>7, <1>3, <1>4 DEF workerVars
  <2>4. QED
    BY Zenon, <2>2, <2>3
<1>12. CASE TryRecvResults
  <2> DEFINE msg == Head(reply)
  <2>1. /\ reply # <<>> /\ reply' = Tail(reply) /\ mpc = "recv"
        /\ loaded' = [loaded EXCEPT ![msg.worker] = @ /\ msg.results = <<>>]
        /\ EndIteration(Len(ret) + Len(msg.results))
        /\ UNCHANGED <<batch, req>>
    BY Zenon, <1>12 DEF TryRecvResults
  <2>2. msg \in Reply /\ msg = reply[1] /\ 1 \in 1 .. Len(reply)
    BY <2>1, <1>2
  <2>3. msg.worker \in Worker /\ msg.results # <<>> /\ Answered(msg.worker)
    BY Zenon, <2>2, <1>1 DEF Reply, OneBatch, Answered
  <2>4. /\ OneAnswer'
        /\ \A w \in Worker : Answered(w)' <=> Answered(w) /\ w # msg.worker
        /\ \A n \in 1 .. Len(reply') : n + 1 \in 1 .. Len(reply) /\ reply'[n] = reply[n + 1]
    BY Zenon, <2>1, <1>1, <1>2, ReplyTail DEF OneBatch
  <2>5. ~loaded'[msg.worker] /\ \A w \in Worker \ {msg.worker} : loaded'[w] = loaded[w]
    BY <2>1, <2>3, <1>2, Zenon
  <2>6. OneBatch'
    BY <2>1, <2>4, <1>1, <1>4 DEF OneBatch, workerVars
  <2>7. cur' \in Worker /\ mpc' \in {"returned", "scan"} /\ batch' = <<>>
    BY Zenon, <2>1, <1>1, <1>2, EndIterationType DEF Flags
  <2>8. req[msg.worker] = <<>> /\ wpc[msg.worker] = "idle"
    BY Zenon, <2>3, <1>1 DEF OneBatch
  <2>9. Flags'
    BY <2>1, <2>3, <2>4, <2>5, <2>7, <2>8, <1>1, <1>4 DEF Flags, AtWork, workerVars, Worker
  <2>10. QED
    BY Zenon, <2>6, <2>9, <1>3, <1>4 DEF workerVars
<1>13. CASE TryRecvNothing
  <2>1. UNCHANGED <<batch, loaded, req, reply>> /\ mpc = "recv" /\ EndIteration(Len(ret))
    BY Zenon, <1>13 DEF TryRecvNothing
  <2>2. cur' \in Worker /\ mpc' \in {"returned", "scan"} /\ batch' = <<>>
    BY Zenon, <2>1, <1>1, <1>2, EndIterationType DEF Flags
  <2>3. QED
    BY Zenon, <2>1, <2>2, <1>1, <1>3, <1>4
       DEF OneBatch, OneAnswer, Flags, AtWork, Answered, workerVars
<1>14. QED
  BY Zenon, <1>6, <1>7, <1>8, <1>9, <1>10, <1>11, <1>12, <1>13 DEF Manager

-----------------------------------------------------------------------------
(***************************************************************************)
(* Data: each transaction is in one place and runs once.                   *)
(***************************************************************************)

(* When all outputs but one are in, every transaction but one has run.     *)
OthersRun ==
  \A i \in Index : ~outcome[i].run /\ Len(ret) >= Len(block) - 1 =>
                     \A j \in Index \ {i} : outcome[j].run

(* A step of the manager keeps track of the transactions.                  *)
LEMMA ManagerData ==
  ASSUME Inv, OthersRun, Manager
  PROVE  Batches' /\ Results' /\ Unscanned' /\ Snapshots' /\ Finished'
<1>1. TypeOK /\ WorkerHolds /\ OneBatch /\ Flags /\ Batches /\ Results
      /\ Unscanned /\ Snapshots /\ Finished
  BY Zenon DEF Inv
<1>2. /\ cur \in Worker /\ ptr \in [Worker -> 1 .. Len(block) + 1]
      /\ batch \in Seq(Index) /\ ret \in Seq(Index) /\ reply \in Seq(Reply)
      /\ req \in [Worker -> Seq(Batch)] /\ job \in [Worker -> Batch]
      /\ Len(block) \in Nat \ {0} /\ Index = 1 .. Len(block) /\ Batch = Seq(Index)
  BY <1>1, BlockType, Zenon DEF TypeOK, Batch, Index
<1>3. start' = start /\ block' = block /\ Index' = Index
  BY Zenon, SameBlock DEF Next
<1>4. UNCHANGED <<wpc, job, snap, res, cache, seqNo, outcome>>
  BY Zenon DEF Manager, ScanPanic, ScanTake, ScanSkip, ScanWait, ScanEnd, workerVars,
         stateVars, SendTxnsToWorker, TryRecvResults, TryRecvNothing
<1>5. Snapshots'
  <2>1. \A w : Executing(w)' = Executing(w)
    BY Zenon, <1>3, <1>4 DEF Executing
  <2>2. QED
    BY <2>1, <1>1, <1>4, Zenon DEF Snapshots, Clean
<1>6. ASSUME NEW w \in Worker, NEW i \in Index, IsTaken(w, i), ptr'[w] >= ptr[w],
             ptr'[w] \in Int
      PROVE  IsTaken(w, i)'
  <2>1. i < ptr'[w]
    BY <1>2, <1>6, SMTT(30) DEF IsTaken
  <2>2. QED
    BY Zenon, <2>1, <1>3, <1>4, <1>6 DEF IsTaken
<1>7. ASSUME UNCHANGED ret
      PROVE  /\ \A w \in Worker : \A i \in Index : IsUnreceived(w, i)' <=> IsUnreceived(w, i)
             /\ reply' = reply => Results'
  <2>1. \A w, i : IsUnreceived(w, i)' <=> IsUnreceived(w, i)
    BY Zenon, <1>3, <1>4, <1>7 DEF IsUnreceived
  <2>2. QED
    BY Zenon, <2>1, <1>1, <1>4, <1>7 DEF Results, Unreceived
<1>8. ASSUME UNCHANGED <<ptr, req>>, batch' = <<>> \/ UNCHANGED <<cur, batch>>
      PROVE  Batches' /\ Unscanned'
  <2>1. \A w, i : IsTaken(w, i)' <=> IsTaken(w, i)
    BY <1>3, <1>4, <1>8, Zenon DEF IsTaken
  <2>2. Batches'
    BY Zenon, <2>1, <1>1, <1>4, <1>8, ElemsEmpty DEF Batches, Taken
  <2>3. Unscanned'
    BY Zenon, <1>1, <1>3, <1>4, <1>8 DEF Unscanned
  <2>4. QED
    BY Zenon, <2>2, <2>3
<1>9. CASE ScanPanic
  BY <1>1, <1>5, <1>7, <1>8, <1>9, Zenon DEF ScanPanic, Finished
<1>10. CASE ScanTake
  <2>1. PICK c \in Worker : c = cur
    BY Zenon, <1>2
  <2>2. PICK i0 \in Index : i0 = ptr[c]
    BY <2>1, <1>2, <1>10, SMTT(30) DEF ScanTake, Scanning
  <2>3. /\ batch' = Append(batch, i0) /\ ptr' = [ptr EXCEPT ![c] = i0 + 1]
        /\ ~MustPanic(c, block[i0]) /\ CanTake(c, block[i0]) /\ mpc = "scan"
        /\ UNCHANGED <<mpc, cur, ret, req, reply>>
    BY <2>1, <2>2, <1>10, Zenon DEF ScanTake, Scanning, Scanned
  <2>4. ScanningPointer(block[i0]) = c /\ block[i0].type # "InvalidSignature"
    BY Zenon, <2>3 DEF CanTake, Available, MustPanic
  <2>5. ~outcome[i0].run
    BY <2>2, <2>4, <1>1, <1>2, SMTT(30) DEF Unscanned
  <2>6. block[i0].type = "StateCheckpoint" => \A j \in Index \ {i0} : outcome[j].run
    <3>1. ASSUME block[i0].type = "StateCheckpoint"
          PROVE  Len(ret) >= Len(block) - 1
      BY <2>3, <3>1, <1>2 DEF CanTake, IsUser, UserTypes, NativeTypes, CrossTypes
    <3>2. QED
      BY Zenon, <2>5, <3>1, <1>1 DEF OthersRun
  <2>7. \A w \in Worker : ptr'[w] \in Int /\ ptr'[w] >= ptr[w]
    <3>1. ptr'[c] = ptr[c] + 1 /\ \A w \in Worker \ {c} : ptr'[w] = ptr[w]
      BY Zenon, <2>2, <2>3, <1>2
    <3>2. \A w \in Worker : ptr[w] \in Int
      BY <1>2
    <3>3. QED
      BY <3>1, <3>2
  <2>8. IsTaken(c, i0)'
    <3>1. i0 < ptr'[c]
      BY Zenon, <2>3, <1>2, SMTT(30)
    <3>2. QED
      BY Zenon, <2>4, <2>5, <2>6, <3>1, <1>3, <1>4 DEF IsTaken
  <2>9. i0 \notin Elems(batch)
    BY <2>1, <2>2, <1>1, <1>2, SMTT(30) DEF Batches, Taken, IsTaken
  <2>10. Elems(batch') = Elems(batch) \cup {i0} /\ Distinct(batch')
    BY <2>1, <2>3, <2>9, <1>1, <1>2, ElemsAppend, ZenonT(40) DEF Batches, Taken
  <2>11. \A w \in Worker : \A i \in Index : IsTaken(w, i) => IsTaken(w, i)'
    BY Zenon, <2>7, <1>6
  <2>12. Elems(batch) \subseteq Index
         /\ \A w \in Worker : /\ Elems(job[w]) \subseteq Index
                              /\ req[w] # <<>> => Elems(req[w][1]) \subseteq Index
    BY <1>2, BatchElems, Zenon
  <2>13. Batches'
    <3>1. ASSUME NEW w \in Worker, cur' = w
          PROVE  Distinct(batch') /\ \A i \in Elems(batch') : IsTaken(w, i)'
      BY Zenon, <2>1, <2>3, <2>8, <2>10, <2>11, <2>12, <3>1, <1>1 DEF Batches, Taken
    <3>2. ASSUME NEW w \in Worker
          PROVE  /\ req'[w] # <<>> => /\ Distinct(req'[w][1])
                                      /\ \A i \in Elems(req'[w][1]) : IsTaken(w, i)'
                 /\ Distinct(job'[w]) /\ \A i \in Elems(job'[w]) : IsTaken(w, i)'
      BY Zenon, <2>3, <2>11, <2>12, <1>1, <1>4 DEF Batches, Taken
    <3>3. QED
      BY Zenon, <3>1, <3>2 DEF Batches, Taken
  <2>14. Unscanned'
    <3>1. SUFFICES ASSUME NEW i \in Index, i >= ptr'[ScanningPointer(block[i])]
                   PROVE  ~outcome[i].run
      BY Zenon, <1>3, <1>4 DEF Unscanned
    <3>2. ScanningPointer(block[i]) \in Worker
      BY Zenon DEF ScanningPointer, Worker
    <3>3. i >= ptr[ScanningPointer(block[i])]
      BY <2>7, <3>1, <3>2, <1>2, SMTT(30)
    <3>4. QED
      BY Zenon, <3>3, <1>1 DEF Unscanned
  <2>15. QED
    BY Zenon, <2>3, <2>13, <2>14, <1>1, <1>5, <1>7 DEF Finished
<1>11. CASE ScanSkip
  <2>1. /\ ptr' = [ptr EXCEPT ![cur] = @ + 1] /\ mpc' = "send"
        /\ UNCHANGED <<cur, batch, ret, req, reply>>
    BY Zenon, <1>11 DEF ScanSkip
  <2>2. \A w \in Worker : ptr'[w] \in Int /\ ptr'[w] >= ptr[w]
    BY <2>1, <1>2
  <2>3. \A w \in Worker : \A i \in Index : IsTaken(w, i) => IsTaken(w, i)'
    BY Zenon, <2>2, <1>6
  <2>4. Elems(batch) \subseteq Index
        /\ \A w \in Worker : /\ Elems(job[w]) \subseteq Index
                             /\ req[w] # <<>> => Elems(req[w][1]) \subseteq Index
    BY <1>2, BatchElems, Zenon
  <2>5. Batches'
    BY Zenon, <2>1, <2>3, <2>4, <1>1, <1>4 DEF Batches, Taken
  <2>6. Unscanned'
    <3>1. SUFFICES ASSUME NEW i \in Index, i >= ptr'[ScanningPointer(block[i])]
                   PROVE  ~outcome[i].run
      BY Zenon, <1>3, <1>4 DEF Unscanned
    <3>2. ScanningPointer(block[i]) \in Worker
      BY Zenon DEF ScanningPointer, Worker
    <3>3. i >= ptr[ScanningPointer(block[i])]
      BY <2>2, <3>1, <3>2, <1>2, SMTT(30)
    <3>4. QED
      BY Zenon, <3>3, <1>1 DEF Unscanned
  <2>7. QED
    BY Zenon, <2>1, <2>5, <2>6, <1>1, <1>5, <1>7 DEF Finished
<1>12. CASE ScanWait
  BY Zenon, <1>1, <1>5, <1>7, <1>8, <1>12 DEF ScanWait, Finished
<1>13. CASE ScanEnd
  BY Zenon, <1>1, <1>5, <1>7, <1>8, <1>13 DEF ScanEnd, Finished
<1>14. CASE SendTxnsToWorker
  <2>1. /\ batch' = <<>> /\ mpc' = "recv" /\ UNCHANGED <<cur, ptr, ret, reply>>
        /\ batch = <<>> => UNCHANGED req
        /\ batch # <<>> => req' = [req EXCEPT ![cur] = Append(@, batch)]
    BY Zenon, <1>14 DEF SendTxnsToWorker
  <2>2. CASE batch = <<>>
    BY <2>1, <2>2, <1>1, <1>5, <1>7, <1>8, Zenon DEF Finished
  <2>3. CASE batch # <<>>
    <3>1. req[cur] = <<>>
      BY <2>3, <1>1, <1>2, Zenon DEF Flags, AtWork
    <3>2. req'[cur] = <<batch>> /\ \A w \in Worker \ {cur} : req'[w] = req[w]
      BY <2>1, <2>3, <3>1, <1>2
    <3>3. \A w, i : IsTaken(w, i)' <=> IsTaken(w, i)
      BY <2>1, <1>3, <1>4, Zenon DEF IsTaken
    <3>4. ASSUME NEW w \in Worker
          PROVE  /\ cur' = w => Distinct(batch') /\ \A i \in Elems(batch') : IsTaken(w, i)'
                 /\ req'[w] # <<>> => /\ Distinct(req'[w][1])
                                      /\ \A i \in Elems(req'[w][1]) : IsTaken(w, i)'
                 /\ Distinct(job'[w]) /\ \A i \in Elems(job'[w]) : IsTaken(w, i)'
      <4>1. cur' = w => Distinct(batch') /\ \A i \in Elems(batch') : IsTaken(w, i)'
        BY <2>1, ElemsEmpty, Zenon
      <4>2. CASE w = cur
        <5>1. req'[w][1] = batch
          BY <3>2, <4>2, SMTT(30)
        <5>2. QED
          BY Zenon, <4>1, <4>2, <5>1, <3>3, <1>1, <1>4 DEF Batches, Taken
      <4>3. CASE w # cur
        BY <4>1, <4>3, <3>2, <3>3, <1>1, <1>4, Zenon DEF Batches, Taken
      <4>4. QED
        BY Zenon, <4>2, <4>3
    <3>5. Batches'
      BY Zenon, <3>4 DEF Batches, Taken
    <3>6. Unscanned'
      BY <2>1, <1>1, <1>3, <1>4, Zenon DEF Unscanned
    <3>7. QED
      BY Zenon, <2>1, <3>5, <3>6, <1>1, <1>5, <1>7 DEF Finished
  <2>4. QED
    BY Zenon, <2>2, <2>3
<1>15. CASE TryRecvResults
  <2>1. PICK msg \in Reply : msg = Head(reply)
    BY <1>2, <1>15, SMTT(30) DEF TryRecvResults
  <2>2. /\ reply # <<>> /\ reply' = Tail(reply) /\ ret' = ret \o msg.results
        /\ EndIteration(Len(ret) + Len(msg.results)) /\ mpc = "recv"
        /\ UNCHANGED <<ptr, batch, req>>
    BY Zenon, <2>1, <1>15 DEF TryRecvResults
  <2>3. /\ msg.worker \in Worker /\ msg.results \in Seq(Index)
        /\ msg = reply[1] /\ 1 \in 1 .. Len(reply)
    <3>1. msg = reply[1] /\ 1 \in 1 .. Len(reply)
      BY <2>1, <2>2, <1>2
    <3>2. QED
      BY <3>1, <1>2, Zenon DEF Reply
  <2>4. Answered(msg.worker) /\ wpc[msg.worker] = "idle" /\ res[msg.worker] = <<>>
    BY Zenon, <2>3, <1>1 DEF Answered, OneBatch, WorkerHolds
  <2>5. Unreceived(msg.worker, msg.results)
    BY Zenon, <2>3, <1>1 DEF Results
  <2>6. /\ ret' \in Seq(Index) /\ Len(ret') = Len(ret) + Len(msg.results)
        /\ Elems(ret') = Elems(ret) \cup Elems(msg.results) /\ Distinct(ret')
    <3>1. Elems(ret) \cap Elems(msg.results) = {}
      BY Zenon, <2>5 DEF Unreceived, IsUnreceived
    <3>2. Distinct(ret) /\ Distinct(msg.results)
      BY <2>5, <1>1, Zenon DEF Results, Unreceived
    <3>3. QED
      BY <2>2, <2>3, <3>1, <3>2, <1>2, ElemsConcat, SMTT(30)
  <2>7. \A i \in Elems(ret') : outcome'[i].run
    BY Zenon, <2>5, <2>6, <1>1, <1>4 DEF Results, Unreceived, IsUnreceived
  <2>8. ASSUME NEW w \in Worker, w # msg.worker, NEW i, IsUnreceived(w, i)
        PROVE  IsUnreceived(w, i)'
    <3>1. i \notin Elems(msg.results)
      BY Zenon, <2>5, <2>8 DEF Unreceived, IsUnreceived
    <3>2. QED
      BY Zenon, <2>6, <2>8, <3>1, <1>3, <1>4 DEF IsUnreceived
  <2>9. \A n \in 1 .. Len(reply') : /\ n + 1 \in 1 .. Len(reply)
                                    /\ reply'[n] = reply[n + 1]
                                    /\ reply[n + 1].worker # msg.worker
    <3>1. \A n \in 1 .. Len(reply') : n + 1 \in 1 .. Len(reply) /\ n + 1 # 1
                                      /\ reply'[n] = reply[n + 1]
      BY <2>2, <1>2, SMTT(30)
    <3>2. QED
      BY Zenon, <2>3, <3>1, <1>1 DEF OneBatch, OneAnswer
  <2>10. Results'
    <3>1. ASSUME NEW w \in Worker
          PROVE  Distinct(res'[w]) /\ \A i \in Elems(res'[w]) : IsUnreceived(w, i)'
      <4>1. CASE w = msg.worker
        BY <4>1, <2>4, <1>4, ElemsEmpty, Zenon
      <4>2. CASE w # msg.worker
        BY <4>2, <2>8, <1>1, <1>4, Zenon DEF Results, Unreceived
      <4>3. QED
        BY Zenon, <4>1, <4>2
    <3>2. ASSUME NEW w \in Worker, NEW n \in 1 .. Len(reply'), reply'[n].worker = w
          PROVE  /\ Distinct(reply'[n].results)
                 /\ \A i \in Elems(reply'[n].results) : IsUnreceived(w, i)'
      <4>1. /\ w # msg.worker /\ n + 1 \in 1 .. Len(reply)
            /\ reply'[n] = reply[n + 1] /\ reply[n + 1].worker = w
        BY <2>9, <3>2, Zenon
      <4>2. Unreceived(w, reply[n + 1].results)
        BY Zenon, <4>1, <1>1 DEF Results
      <4>3. QED
        BY Zenon, <4>1, <4>2, <2>8 DEF Unreceived
    <3>3. QED
      BY <2>6, <2>7, <3>1, <3>2, Zenon DEF Results, Unreceived
  <2>11. batch' = <<>>
    BY Zenon, <2>2, <1>1 DEF Flags
  <2>12. Finished'
    BY Zenon, <2>2, <2>6, <1>3 DEF Finished, EndIteration
  <2>13. QED
    BY <2>2, <2>10, <2>11, <2>12, <1>5, <1>8, Zenon
<1>16. CASE TryRecvNothing
  <2>1. /\ UNCHANGED <<ptr, batch, ret, req, reply>> /\ mpc = "recv"
        /\ EndIteration(Len(ret))
    BY Zenon, <1>16 DEF TryRecvNothing
  <2>2. batch' = <<>>
    BY Zenon, <2>1, <1>1 DEF Flags
  <2>3. Finished'
    BY Zenon, <2>1, <1>3 DEF Finished, EndIteration
  <2>4. QED
    BY Zenon, <2>1, <2>2, <2>3, <1>5, <1>7, <1>8
<1>17. QED
  BY Zenon, <1>9, <1>10, <1>11, <1>12, <1>13, <1>14, <1>15, <1>16 DEF Manager
=============================================================================
