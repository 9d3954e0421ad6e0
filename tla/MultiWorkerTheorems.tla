------------------------ MODULE MultiWorkerTheorems -------------------------
(***************************************************************************)
(* The steps of the workers keep the invariant of the multi-worker         *)
(* executor; the safety properties that follow; that it implements         *)
(* SerialBlock, discards nothing in a block in order, and returns outputs  *)
(* that replay its state.                                                  *)
(***************************************************************************)
EXTENDS MultiWorkerManager, FiniteSetTheorems

(* The time for a step that names no prover.                               *)
USE SMTT(45), ZenonT(20)

-----------------------------------------------------------------------------
(***************************************************************************)
(* Control: one batch per worker, and flags that tell the truth.           *)
(***************************************************************************)

(* Answering adds the only answer of the worker.                           *)
LEMMA ReplyAppend ==
  ASSUME reply \in Seq(Reply), NEW msg \in Reply, reply' = Append(reply, msg),
         OneAnswer, ~Answered(msg.worker)
  PROVE  /\ OneAnswer'
         /\ \A w \in Worker : Answered(w)' <=> Answered(w) \/ w = msg.worker
         /\ \A n \in 1 .. Len(reply') :
              \/ n \in 1 .. Len(reply) /\ reply'[n] = reply[n]
              \/ reply'[n] = msg
<1>1. /\ Len(reply) \in Nat /\ Len(reply') = Len(reply) + 1
      /\ \A n \in 1 .. Len(reply) : reply'[n] = reply[n]
      /\ reply'[Len(reply) + 1] = msg
  OBVIOUS
<1>2. \A n \in 1 .. Len(reply') :
        \/ n \in 1 .. Len(reply) /\ reply'[n] = reply[n]
        \/ n = Len(reply) + 1 /\ reply'[n] = msg
  BY <1>1
<1>3. OneAnswer'
  BY <1>1, <1>2 DEF OneAnswer, Answered
<1>4. \A w \in Worker : Answered(w)' <=> Answered(w) \/ w = msg.worker
  <2>1. Len(reply) + 1 \in 1 .. Len(reply') /\ 1 .. Len(reply) \subseteq 1 .. Len(reply')
    BY <1>1
  <2>2. QED
    BY Zenon, <2>1, <1>1, <1>2 DEF Answered
<1>5. QED
  BY Zenon, <1>2, <1>3, <1>4

(* A step of a worker keeps control of the batches.                        *)
LEMMA WorkerControl ==
  ASSUME Inv, NEW w \in Worker, WorkerStep(w)
  PROVE  WorkerHolds' /\ OneBatch' /\ Flags'
<1>1. TypeOK /\ WorkerHolds /\ OneBatch /\ Flags
  BY Zenon DEF Inv
<1>2. /\ reply \in Seq(Reply) /\ req \in [Worker -> Seq(Batch)]
      /\ job \in [Worker -> Batch] /\ res \in [Worker -> Batch]
      /\ wpc \in [Worker -> {"idle", "prologue", "read", "drop", "reply"}]
      /\ Batch = Seq(Index)
  BY <1>1, Zenon DEF TypeOK, Batch
<1>3. UNCHANGED managerVars
  BY Zenon DEF WorkerStep, ReceiveContext, PrologueAccept, PrologueDiscard,
         GetStateValue, ApplyWrites, DropView, SendReply
<1>4. ASSUME UNCHANGED <<req, reply>>, wpc[w] # "idle", wpc'[w] # "idle",
             \A v \in Worker \ {w} : wpc'[v] = wpc[v]
      PROVE  OneBatch' /\ Flags'
  <2>1. /\ \A v : Answered(v)' <=> Answered(v)
        /\ \A v \in Worker : AtWork(v)' <=> AtWork(v)
    BY Zenon, <1>4 DEF Answered, AtWork
  <2>2. OneBatch'
    BY Zenon, <2>1, <1>1, <1>4 DEF OneBatch, OneAnswer
  <2>3. Flags'
    BY Zenon, <2>1, <1>1, <1>3 DEF Flags, managerVars
  <2>4. QED
    BY Zenon, <2>2, <2>3
<1>5. ASSUME FinishTxn(w), wpc[w] \in {"prologue", "read"}, UNCHANGED <<req, reply>>
      PROVE  WorkerHolds' /\ OneBatch' /\ Flags'
  <2>1. job[w] # <<>> /\ job[w] \in Seq(Index)
    BY Zenon, <1>1, <1>2, <1>5 DEF WorkerHolds
  <2>2. Append(res[w], Head(job[w])) # <<>>
    <3>1. Head(job[w]) \in Index /\ res[w] \in Seq(Index)
      BY Zenon, <2>1, <1>2, ElemsTail
    <3>2. QED
      BY <3>1, ElemsAppend
  <2>3. /\ res'[w] # <<>> /\ job'[w] = Tail(job[w])
        /\ wpc'[w] = IF Tail(job[w]) = <<>> THEN "drop" ELSE "prologue"
        /\ \A v \in Worker \ {w} : /\ wpc'[v] = wpc[v] /\ job'[v] = job[v]
                                   /\ res'[v] = res[v]
    BY Zenon, <2>2, <1>2, <1>5 DEF FinishTxn
  <2>4. WorkerHolds'
    <3>1. CASE Tail(job[w]) = <<>>
      BY <2>3, <3>1, <1>1, Zenon DEF WorkerHolds
    <3>2. CASE Tail(job[w]) # <<>>
      BY <2>3, <3>2, <1>1, Zenon DEF WorkerHolds
    <3>3. QED
      BY Zenon, <3>1, <3>2
  <2>5. wpc[w] # "idle" /\ wpc'[w] # "idle"
    BY Zenon, <2>3, <1>5
  <2>6. QED
    BY Zenon, <2>3, <2>4, <2>5, <1>4, <1>5
<1>6. CASE ReceiveContext(w)
  <2>1. /\ wpc[w] = "idle" /\ req[w] # <<>> /\ UNCHANGED <<reply, res>>
        /\ job' = [job EXCEPT ![w] = Head(req[w])]
        /\ req' = [req EXCEPT ![w] = Tail(@)]
        /\ wpc' = [wpc EXCEPT ![w] = "prologue"]
    BY Zenon, <1>6 DEF ReceiveContext
  <2>2. Len(req[w]) = 1 /\ req[w][1] # <<>> /\ ~Answered(w)
    <3>1. Len(req[w]) = 1
      <4>1. req[w] \in Seq(Batch) /\ req[w] # <<>> /\ Len(req[w]) <= 1
        BY Zenon, <2>1, <1>1, <1>2 DEF OneBatch
      <4>2. QED
        BY Zenon, <4>1, AtMostOne
    <3>2. req[w][1] # <<>> /\ ~Answered(w)
      BY Zenon, <2>1, <1>1 DEF OneBatch
    <3>3. QED
      BY Zenon, <3>1, <3>2
  <2>3. req'[w] = <<>> /\ job'[w] # <<>> /\ wpc'[w] = "prologue"
    <3>1. Tail(req[w]) = <<>> /\ Head(req[w]) = req[w][1]
      BY Zenon, <2>2, <1>2, Singleton
    <3>2. QED
      BY Zenon, <2>1, <2>2, <3>1, <1>2
  <2>4. \A v \in Worker \ {w} : /\ wpc'[v] = wpc[v] /\ job'[v] = job[v]
                                /\ req'[v] = req[v]
    BY Zenon, <2>1, <1>2
  <2>5. /\ \A v : Answered(v)' <=> Answered(v)
        /\ \A v \in Worker : AtWork(v)' => AtWork(v)
    BY Zenon, <2>1, <2>4 DEF Answered, AtWork
  <2>6. WorkerHolds'
    BY Zenon, <2>1, <2>3, <2>4, <1>1 DEF WorkerHolds
  <2>7. OneBatch'
    <3>1. ASSUME NEW v \in Worker
          PROVE  /\ Len(req'[v]) <= 1
                 /\ req'[v] # <<>> =>
                      req'[v][1] # <<>> /\ wpc'[v] = "idle" /\ ~Answered(v)'
                 /\ wpc'[v] # "idle" => ~Answered(v)'
      <4>1. CASE v = w
        BY <4>1, <2>2, <2>3, <2>5
      <4>2. CASE v # w
        BY Zenon, <4>2, <2>4, <2>5, <1>1 DEF OneBatch
      <4>3. QED
        BY Zenon, <4>1, <4>2
    <3>2. OneAnswer' /\ \A n \in 1 .. Len(reply') : reply'[n].results # <<>>
      BY Zenon, <2>1, <1>1 DEF OneBatch, OneAnswer
    <3>3. QED
      BY Zenon, <3>1, <3>2 DEF OneBatch
  <2>8. Flags'
    BY Zenon, <2>5, <1>1, <1>3 DEF Flags, managerVars
  <2>9. QED
    BY Zenon, <2>6, <2>7, <2>8
<1>7. CASE PrologueAccept(w)
  <2>1. /\ UNCHANGED <<req, reply, job, res>> /\ wpc[w] = "prologue"
        /\ wpc'[w] = "read" /\ \A v \in Worker \ {w} : wpc'[v] = wpc[v]
    BY Zenon, <1>2, <1>7 DEF PrologueAccept
  <2>2. WorkerHolds'
    BY Zenon, <2>1, <1>1 DEF WorkerHolds
  <2>3. QED
    BY Zenon, <2>1, <2>2, <1>4
<1>8. CASE PrologueDiscard(w)
  BY Zenon, <1>5, <1>8 DEF PrologueDiscard
<1>9. CASE \E k \in Keys : GetStateValue(w, k)
  <2>1. UNCHANGED <<req, reply, job, res, wpc>> /\ wpc[w] = "read"
    BY Zenon, <1>9 DEF GetStateValue
  <2>2. WorkerHolds'
    BY Zenon, <2>1, <1>1 DEF WorkerHolds
  <2>3. QED
    BY Zenon, <2>1, <2>2, <1>4
<1>10. CASE ApplyWrites(w)
  BY Zenon, <1>5, <1>10 DEF ApplyWrites
<1>11. CASE DropView(w)
  <2>1. /\ UNCHANGED <<req, reply, job, res>> /\ wpc[w] = "drop"
        /\ wpc'[w] = "reply" /\ \A v \in Worker \ {w} : wpc'[v] = wpc[v]
    BY Zenon, <1>2, <1>11 DEF DropView
  <2>2. WorkerHolds'
    BY Zenon, <2>1, <1>1 DEF WorkerHolds
  <2>3. QED
    BY Zenon, <2>1, <2>2, <1>4
<1>12. CASE SendReply(w)
  <2> DEFINE msg == [worker |-> w, results |-> res[w]]
  <2>1. /\ wpc[w] = "reply" /\ UNCHANGED <<req, job>> /\ reply' = Append(reply, msg)
        /\ res'[w] = <<>> /\ wpc'[w] = "idle"
        /\ \A v \in Worker \ {w} : wpc'[v] = wpc[v] /\ res'[v] = res[v]
    BY Zenon, <1>2, <1>12 DEF SendReply
  <2>2. msg \in Reply /\ msg.worker = w /\ msg.results = res[w]
    BY Zenon, <1>2 DEF Reply
  <2>3. /\ res[w] # <<>> /\ job[w] = <<>> /\ req[w] = <<>>
        /\ ~Answered(w) /\ loaded[w]
    BY Zenon, <2>1, <1>1 DEF WorkerHolds, OneBatch, Flags, AtWork
  <2>4. /\ OneAnswer'
        /\ \A v \in Worker : Answered(v)' <=> Answered(v) \/ v = w
        /\ \A n \in 1 .. Len(reply') :
             \/ n \in 1 .. Len(reply) /\ reply'[n] = reply[n]
             \/ reply'[n] = msg
    <3>1. OneAnswer /\ ~Answered(msg.worker)
      BY Zenon, <2>2, <2>3, <1>1 DEF OneBatch
    <3> HIDE DEF msg
    <3>2. QED
      BY Zenon, <2>1, <2>2, <3>1, <1>2, ReplyAppend
  <2>5. WorkerHolds'
    BY Zenon, <2>1, <2>3, <1>1 DEF WorkerHolds
  <2>6. OneBatch'
    <3>1. ASSUME NEW v \in Worker
          PROVE  /\ Len(req'[v]) <= 1
                 /\ req'[v] # <<>> =>
                      req'[v][1] # <<>> /\ wpc'[v] = "idle" /\ ~Answered(v)'
                 /\ wpc'[v] # "idle" => ~Answered(v)'
      BY <2>1, <2>3, <2>4, <1>1, Zenon DEF OneBatch
    <3>2. \A n \in 1 .. Len(reply') : reply'[n].results # <<>>
      BY <2>2, <2>3, <2>4, <1>1, Zenon DEF OneBatch
    <3>3. QED
      BY Zenon, <2>4, <3>1, <3>2 DEF OneBatch
  <2>7. Flags'
    BY Zenon, <2>1, <2>3, <2>4, <1>1, <1>3 DEF Flags, AtWork, managerVars
  <2>8. QED
    BY Zenon, <2>5, <2>6, <2>7
<1>13. QED
  BY Zenon, <1>6, <1>7, <1>8, <1>9, <1>10, <1>11, <1>12 DEF WorkerStep

-----------------------------------------------------------------------------
(***************************************************************************)
(* Data: each transaction runs once, on a state that does not change.      *)
(***************************************************************************)

(* Finishing a transaction, kept or discarded, moves it from the batch to  *)
(* the results and disturbs no other.                                      *)
LEMMA FinishData ==
  ASSUME Inv, NEW w \in Worker, wpc[w] \in {"prologue", "read"}, FinishTxn(w),
         NEW r, r.run = TRUE, outcome' = [outcome EXCEPT ![Head(job[w])] = r],
         UNCHANGED <<start, managerVars, req, reply>>
  PROVE  Batches' /\ Results' /\ Unscanned' /\ Finished'
<1>1. TypeOK /\ WorkerHolds /\ OneBatch /\ Flags /\ Batches /\ Results
      /\ Unscanned /\ Finished
  BY Zenon DEF Inv
<1>2. /\ cur \in Worker /\ ptr \in [Worker -> 1 .. Len(block) + 1]
      /\ res \in [Worker -> Seq(Index)] /\ job \in [Worker -> Seq(Index)]
      /\ DOMAIN outcome = Index
      /\ Len(block) \in Nat \ {0} /\ Index = 1 .. Len(block)
  BY <1>1, BlockType, Zenon DEF TypeOK, Batch, Index
<1>3. /\ block' = block /\ Index' = Index
      /\ UNCHANGED <<mpc, cur, ptr, batch, loaded, ret, req, reply>>
  BY Zenon DEF block, Index, managerVars
<1>4. job[w] # <<>> /\ job[w] \in Seq(Index)
  BY Zenon, <1>1, <1>2 DEF WorkerHolds
<1>5. PICK i0 \in Index : i0 = Head(job[w])
  BY Zenon, <1>4, ElemsTail
<1>6. /\ Elems(job[w]) = {i0} \cup Elems(Tail(job[w]))
      /\ i0 \notin Elems(Tail(job[w])) /\ Distinct(Tail(job[w]))
  BY Zenon, <1>1, <1>4, <1>5, ElemsTail DEF Batches, Taken
<1>7. IsTaken(w, i0) /\ \A i \in Elems(Tail(job[w])) : IsTaken(w, i)
  BY Zenon, <1>1, <1>6 DEF Batches, Taken
<1>8. outcome'[i0].run /\ \A i \in Index \ {i0} : outcome'[i] = outcome[i]
  BY Zenon, <1>2, <1>5
<1>9. \A i \in Index : outcome[i].run => outcome'[i].run
  BY Zenon, <1>8
<1>10. /\ res'[w] = Append(res[w], i0) /\ job'[w] = Tail(job[w])
       /\ \A v \in Worker \ {w} : res'[v] = res[v] /\ job'[v] = job[v]
  BY Zenon, <1>2, <1>5 DEF FinishTxn
<1>11. req[w] = <<>> /\ (cur = w => batch = <<>>)
  <2>1. wpc[w] # "idle" /\ AtWork(w)
    BY Zenon DEF AtWork
  <2>2. QED
    BY Zenon, <2>1, <1>1 DEF OneBatch, Flags
<1>12. Elems(batch) \subseteq Index /\ Elems(ret) \subseteq Index
       /\ \A v \in Worker : /\ Elems(job[v]) \subseteq Index /\ Elems(res[v]) \subseteq Index
                            /\ req[v] # <<>> => Elems(req[v][1]) \subseteq Index
                            /\ \A n \in 1 .. Len(reply) : Elems(reply[n].results) \subseteq Index
  <2>1. /\ batch \in Seq(Index) /\ ret \in Seq(Index) /\ req \in [Worker -> Seq(Seq(Index))]
        /\ reply \in Seq([worker : Worker, results : Seq(Index)])
    BY Zenon, <1>1 DEF TypeOK, Batch, Reply
  <2>2. \A n \in 1 .. Len(reply) : reply[n].results \in Seq(Index)
    <3>1. \A n \in 1 .. Len(reply) : reply[n] \in [worker : Worker, results : Seq(Index)]
      BY <2>1, ElementOfSeq, Zenon
    <3>2. QED
      BY Zenon, <3>1
  <2>3. QED
    BY <2>1, <2>2, <1>2, BatchElems, ElemsType, Zenon
<1>13. ASSUME NEW v \in Worker, NEW i \in Index, IsTaken(v, i), i # i0
       PROVE  IsTaken(v, i)'
  <2>1. ~outcome'[i].run
    BY Zenon, <1>8, <1>13 DEF IsTaken
  <2>2. QED
    BY Zenon, <2>1, <1>3, <1>9, <1>13 DEF IsTaken
<1>14. ASSUME NEW v \in Worker \ {w}, NEW i \in Index, IsTaken(v, i)
       PROVE  IsTaken(v, i)'
  <2>1. i # i0
    BY Zenon, <1>7, <1>14 DEF IsTaken
  <2>2. QED
    BY Zenon, <2>1, <1>13, <1>14
<1>15. ASSUME NEW v \in Worker, NEW i \in Index, IsUnreceived(v, i)
       PROVE  IsUnreceived(v, i)'
  BY <1>3, <1>9, <1>15, Zenon DEF IsUnreceived
<1>16. Batches'
  <2>1. ASSUME NEW v \in Worker
        PROVE  /\ cur' = v => Distinct(batch') /\ \A i \in Elems(batch') : IsTaken(v, i)'
               /\ req'[v] # <<>> => /\ Distinct(req'[v][1])
                                    /\ \A i \in Elems(req'[v][1]) : IsTaken(v, i)'
               /\ Distinct(job'[v]) /\ \A i \in Elems(job'[v]) : IsTaken(v, i)'
    <3>1. CASE v = w
      <4>1. /\ cur' = v => Distinct(batch') /\ \A i \in Elems(batch') : IsTaken(v, i)'
            /\ req'[v] = <<>>
        BY <3>1, <1>3, <1>11, ElemsEmpty, Zenon
      <4>2. Distinct(job'[v]) /\ \A i \in Elems(job'[v]) : IsTaken(v, i)'
        BY <3>1, <1>6, <1>7, <1>10, <1>12, <1>13, Zenon
      <4>3. QED
        BY Zenon, <4>1, <4>2
    <3>2. CASE v # w
      BY <3>2, <1>1, <1>3, <1>10, <1>12, <1>14, Zenon DEF Batches, Taken
    <3>3. QED
      BY Zenon, <3>1, <3>2
  <2>2. QED
    BY <2>1, Zenon DEF Batches, Taken
<1>17. Results'
  <2>1. Distinct(ret') /\ \A i \in Elems(ret') : outcome'[i].run
    BY <1>1, <1>3, <1>9, <1>12, Zenon DEF Results
  <2>2. i0 \notin Elems(ret) /\ i0 \notin Elems(res[w])
    BY <1>1, <1>7, Zenon DEF Results, Unreceived, IsUnreceived, IsTaken
  <2>3. IsUnreceived(w, i0)'
    BY <2>2, <1>3, <1>7, <1>8, Zenon DEF IsUnreceived, IsTaken
  <2>4. Elems(res'[w]) = Elems(res[w]) \cup {i0} /\ Distinct(res'[w])
    <3>1. res[w] \in Seq(Index) /\ Distinct(res[w])
      BY Zenon, <1>1, <1>2 DEF Results, Unreceived
    <3>2. QED
      BY <2>2, <3>1, <1>10, ElemsAppend, SMTT(30)
  <2>5. ASSUME NEW v \in Worker
        PROVE  Distinct(res'[v]) /\ \A i \in Elems(res'[v]) : IsUnreceived(v, i)'
    <3>1. CASE v = w
      BY <3>1, <2>3, <2>4, <1>1, <1>12, <1>15, Zenon DEF Results, Unreceived
    <3>2. CASE v # w
      BY <3>2, <1>1, <1>10, <1>12, <1>15, Zenon DEF Results, Unreceived
    <3>3. QED
      BY <3>1, <3>2, Zenon
  <2>6. ASSUME NEW v \in Worker, NEW n \in 1 .. Len(reply'), reply'[n].worker = v
        PROVE  /\ Distinct(reply'[n].results)
               /\ \A i \in Elems(reply'[n].results) : IsUnreceived(v, i)'
    BY Zenon, <2>6, <1>1, <1>3, <1>12, <1>15 DEF Results, Unreceived
  <2>7. QED
    BY <2>1, <2>5, <2>6, Zenon DEF Results, Unreceived
<1>18. Unscanned'
  <2>1. SUFFICES ASSUME NEW i \in Index, i >= ptr[ScanningPointer(block[i])]
                 PROVE  ~outcome'[i].run
    BY Zenon, <1>3 DEF Unscanned
  <2>2. i # i0
    BY <2>1, <1>2, <1>7 DEF IsTaken
  <2>3. QED
    BY Zenon, <2>1, <2>2, <1>1, <1>8 DEF Unscanned
<1>19. Finished'
  BY <1>1, <1>3, Zenon DEF Finished
<1>20. QED
  BY Zenon, <1>16, <1>17, <1>18, <1>19

(* Two workers that run transactions at the same time run a native Aptos   *)
(* and a native Ethereum one, which do not touch each other's state.       *)
LEMMA NoConflict ==
  ASSUME Inv, NEW v \in Worker, NEW w \in Worker, v # w,
         wpc[v] \in {"prologue", "read"}, wpc[w] \in {"prologue", "read"}
  PROVE  /\ Executing(w).writes \cap Executing(v).reads = {}
         /\ Executing(w).sender # Executing(v).sender
<1>1. TypeOK /\ WorkerHolds /\ Flags /\ Batches
  BY Zenon DEF Inv
<1>2. /\ job[v] # <<>> /\ job[v] \in Seq(Index) /\ job[w] # <<>> /\ job[w] \in Seq(Index)
  BY <1>1, Zenon DEF WorkerHolds, TypeOK, Batch
<1>3. /\ Head(job[v]) \in Index /\ Head(job[v]) \in Elems(job[v])
      /\ Head(job[w]) \in Index /\ Head(job[w]) \in Elems(job[w])
  BY <1>2, ElemsTail
<1>4. ScanningPointer(Executing(v)) = v /\ ScanningPointer(Executing(w)) = w
  BY Zenon, <1>1, <1>3 DEF Batches, Taken, IsTaken, Executing
<1>5. v # "Cross" /\ w # "Cross"
  <2>1. loaded[v] /\ loaded[w]
    BY Zenon, <1>1 DEF Flags, AtWork
  <2>2. QED
    BY Zenon, <2>1, <1>1 DEF Flags, Worker
<1>6. \/ Executing(v).type = "AptosTx" /\ Executing(w).type = "EthereumTx"
      \/ Executing(w).type = "AptosTx" /\ Executing(v).type = "EthereumTx"
  BY <1>4, <1>5, Zenon DEF ScanningPointer, Worker
<1>7. start \in Starts /\ Index = 1 .. Len(start.block)
      /\ Executing(v) = start.block[Head(job[v])] /\ Executing(w) = start.block[Head(job[w])]
  BY <1>1, Zenon DEF TypeOK, Executing, block, Index
<1>8. QED
  BY <1>3, <1>6, <1>7, NativeFootprintsDisjoint, ZenonT(40)

(* What a running transaction has read stays as it was read.               *)
LEMMA WorkerSnapshots ==
  ASSUME Inv, NEW w \in Worker, WorkerStep(w)
  PROVE  Snapshots'
<1>1. TypeOK /\ WorkerHolds /\ Snapshots
  BY Zenon DEF Inv
<1>2. /\ snap \in [Worker -> Seen] /\ job \in [Worker -> Seq(Index)]
      /\ wpc \in [Worker -> {"idle", "prologue", "read", "drop", "reply"}]
      /\ cache \in [Keys -> 0 .. Len(block)] /\ seqNo \in [Senders -> Nat]
  BY <1>1, Zenon DEF TypeOK, Batch
<1>3. block' = block
  BY Zenon, SameBlock DEF Next
<1>4. \A v \in Worker \ {w} : /\ wpc'[v] = wpc[v] /\ snap'[v] = snap[v]
                              /\ job'[v] = job[v] /\ Executing(v)' = Executing(v)
  <2>1. \A v \in Worker \ {w} : wpc'[v] = wpc[v] /\ snap'[v] = snap[v] /\ job'[v] = job[v]
    BY <1>2, Zenon DEF WorkerStep, ReceiveContext, PrologueAccept, PrologueDiscard, FinishTxn,
                GetStateValue, ApplyWrites, DropView, SendReply
  <2>2. QED
    BY Zenon, <2>1, <1>3 DEF Executing
<1>5. ASSUME NEW v \in Worker \ {w}
      PROVE  /\ wpc'[v] # "read" => snap'[v] = Clean
             /\ wpc'[v] = "read" =>
                  /\ \A k \in Keys : \/ snap'[v][k] = {}
                                     \/ /\ k \in Executing(v)'.reads
                                        /\ snap'[v][k] = {cache'[k]}
                  /\ IsUser(Executing(v)') =>
                       Executing(v)'.nonce = seqNo'[Executing(v)'.sender]
  <2>1. wpc'[v] # "read" => snap'[v] = Clean
    BY <1>1, <1>4, Zenon DEF Snapshots
  <2>2. ASSUME wpc[v] = "read"
        PROVE  /\ \A k \in Executing(v).reads \cap Keys : cache'[k] = cache[k]
               /\ seqNo'[Executing(v).sender] = seqNo[Executing(v).sender]
    <3>1. CASE UNCHANGED <<cache, seqNo>>
      BY <3>1, Zenon
    <3>2. CASE ApplyWrites(w)
      <4>1. /\ Executing(w).writes \cap Executing(v).reads = {}
            /\ Executing(w).sender # Executing(v).sender
        BY <2>2, <3>2, NoConflict, Zenon DEF ApplyWrites
      <4>2. QED
        BY <4>1, <3>2, <1>2, SMTT(30) DEF ApplyWrites
    <3>3. QED
      BY <3>1, <3>2, Zenon DEF WorkerStep, ReceiveContext, PrologueAccept, PrologueDiscard,
                        GetStateValue, DropView, SendReply, stateVars
  <2>3. QED
    BY <2>1, <2>2, <1>1, <1>4, SMTT(30) DEF Snapshots
<1>6. /\ wpc'[w] # "read" => snap'[w] = Clean
      /\ wpc'[w] = "read" =>
           /\ \A k \in Keys : \/ snap'[w][k] = {}
                              \/ k \in Executing(w)'.reads /\ snap'[w][k] = {cache'[k]}
           /\ IsUser(Executing(w)') => Executing(w)'.nonce = seqNo'[Executing(w)'.sender]
  <2>1. CASE ReceiveContext(w) \/ DropView(w) \/ SendReply(w)
    BY <2>1, <1>1, <1>2, Zenon DEF ReceiveContext, DropView, SendReply, Snapshots
  <2>2. CASE PrologueAccept(w)
    <3>1. /\ wpc[w] = "prologue" /\ wpc'[w] = "read"
          /\ UNCHANGED <<job, snap, cache, seqNo>>
          /\ IsUser(Executing(w)) => Executing(w).nonce = seqNo[Executing(w).sender]
      BY <2>2, <1>2, Zenon DEF PrologueAccept, stateVars
    <3>2. snap[w] = Clean /\ Executing(w)' = Executing(w)
      BY <3>1, <1>1, <1>3, Zenon DEF Snapshots, Executing
    <3>3. QED
      BY <3>1, <3>2, Zenon DEF Clean
  <2>3. CASE \E k \in Keys : GetStateValue(w, k)
    <3>1. PICK k0 \in Keys : GetStateValue(w, k0)
      BY <2>3, Zenon
    <3>2. /\ wpc[w] = "read" /\ k0 \in Executing(w).reads
          /\ UNCHANGED <<wpc, job, cache, seqNo>>
          /\ snap'[w] = [snap[w] EXCEPT ![k0] = @ \cup {cache[k0]}]
      BY Zenon, <3>1, <1>2 DEF GetStateValue, stateVars
    <3>3. Executing(w)' = Executing(w)
      BY Zenon, <3>2, <1>3 DEF Executing
    <3>4. snap[w] \in [Keys -> SUBSET (0 .. Len(block))]
      BY <1>2, Zenon DEF Seen
    <3>5. snap'[w][k0] = {cache[k0]} /\ \A k \in Keys \ {k0} : snap'[w][k] = snap[w][k]
      BY <3>2, <3>4, <1>1, SMTT(30) DEF Snapshots
    <3>6. QED
      BY Zenon, <3>2, <3>3, <3>5, <1>1 DEF Snapshots
  <2>4. CASE PrologueDiscard(w) \/ ApplyWrites(w)
    BY <2>4, <1>2, Zenon DEF PrologueDiscard, ApplyWrites, FinishTxn
  <2>5. QED
    BY <2>1, <2>2, <2>3, <2>4, Zenon DEF WorkerStep
<1>7. QED
  BY <1>5, <1>6, Zenon DEF Snapshots, Clean

(* A step of a worker keeps track of the transactions.                     *)
LEMMA WorkerData ==
  ASSUME Inv, NEW w \in Worker, WorkerStep(w)
  PROVE  Batches' /\ Results' /\ Unscanned' /\ Finished'
<1>1. TypeOK /\ WorkerHolds /\ OneBatch /\ Batches /\ Results /\ Unscanned /\ Finished
  BY Zenon DEF Inv
<1>2. /\ req \in [Worker -> Seq(Seq(Index))] /\ job \in [Worker -> Seq(Index)]
      /\ res \in [Worker -> Seq(Index)] /\ reply \in Seq(Reply)
      /\ Reply = [worker : Worker, results : Seq(Index)]
  BY <1>1, Zenon DEF TypeOK, Batch, Reply
<1>3. block' = block /\ Index' = Index /\ UNCHANGED <<mpc, cur, ptr, batch, ret>>
  BY SameBlock, Zenon DEF Next, WorkerStep, ReceiveContext, PrologueAccept, PrologueDiscard,
         GetStateValue, ApplyWrites, DropView, SendReply, managerVars
<1>4. ASSUME UNCHANGED outcome
      PROVE  /\ \A v, i : IsTaken(v, i)' <=> IsTaken(v, i)
             /\ \A v, i : IsUnreceived(v, i)' <=> IsUnreceived(v, i)
             /\ Unscanned' /\ Finished'
  <2>1. /\ \A v, i : IsTaken(v, i)' <=> IsTaken(v, i)
        /\ \A v, i : IsUnreceived(v, i)' <=> IsUnreceived(v, i)
    BY Zenon, <1>3, <1>4 DEF IsTaken, IsUnreceived
  <2>2. Unscanned' /\ Finished'
    BY <1>1, <1>3, <1>4, Zenon DEF Unscanned, Finished
  <2>3. QED
    BY Zenon, <2>1, <2>2
<1>5. CASE ReceiveContext(w)
  <2>1. /\ req[w] # <<>> /\ UNCHANGED <<outcome, res, reply>>
        /\ job'[w] = Head(req[w]) /\ req'[w] = Tail(req[w])
        /\ \A v \in Worker \ {w} : job'[v] = job[v] /\ req'[v] = req[v]
    BY Zenon, <1>2, <1>5 DEF ReceiveContext, stateVars
  <2>2. job'[w] = req[w][1] /\ req'[w] = <<>>
    <3>1. req[w] \in Seq(Seq(Index)) /\ req[w] # <<>> /\ Len(req[w]) <= 1
      BY Zenon, <2>1, <1>1, <1>2 DEF OneBatch
    <3>2. Tail(req[w]) = <<>> /\ Head(req[w]) = req[w][1]
      BY <3>1, AtMostOne, Singleton, Zenon
    <3>3. QED
      BY Zenon, <2>1, <3>2
  <2>3. Batches'
    <3>1. ASSUME NEW v \in Worker
          PROVE  /\ cur' = v => Distinct(batch') /\ \A i \in Elems(batch') : IsTaken(v, i)'
                 /\ req'[v] # <<>> => /\ Distinct(req'[v][1])
                                      /\ \A i \in Elems(req'[v][1]) : IsTaken(v, i)'
                 /\ Distinct(job'[v]) /\ \A i \in Elems(job'[v]) : IsTaken(v, i)'
      <4>1. CASE v = w
        BY <4>1, <2>1, <2>2, <1>1, <1>3, <1>4, Zenon DEF Batches, Taken
      <4>2. CASE v # w
        BY Zenon, <4>2, <2>1, <1>1, <1>3, <1>4, SMTT(30) DEF Batches, Taken
      <4>3. QED
        BY <4>1, <4>2, Zenon
    <3>2. QED
      BY <3>1, Zenon DEF Batches, Taken
  <2>4. Results'
    BY Zenon, <2>1, <1>1, <1>3, <1>4 DEF Results, Unreceived
  <2>5. QED
    BY Zenon, <2>1, <2>3, <2>4, <1>4
<1>6. CASE PrologueAccept(w) \/ (\E k \in Keys : GetStateValue(w, k)) \/ DropView(w)
  <2>1. UNCHANGED <<outcome, req, reply, job, res>>
    BY <1>6, Zenon DEF PrologueAccept, GetStateValue, DropView, stateVars
  <2>2. Batches'
    BY <2>1, <1>1, <1>3, <1>4, Zenon DEF Batches, Taken
  <2>3. Results'
    BY Zenon, <2>1, <1>1, <1>3, <1>4 DEF Results, Unreceived
  <2>4. QED
    BY Zenon, <2>1, <2>2, <2>3, <1>4
<1>7. CASE PrologueDiscard(w)
  <2>1. PICK r : r = [kept |-> FALSE, run |-> TRUE, read |-> Clean]
    BY Zenon
  <2>2. /\ r.run = TRUE /\ outcome' = [outcome EXCEPT ![Head(job[w])] = r]
        /\ wpc[w] \in {"prologue", "read"} /\ FinishTxn(w)
        /\ UNCHANGED <<start, managerVars, req, reply>>
    BY Zenon, <2>1, <1>7 DEF PrologueDiscard
  <2>3. QED
    BY <2>2, FinishData, Zenon
<1>8. CASE ApplyWrites(w)
  <2>1. PICK r : r = [kept |-> TRUE, run |-> TRUE, read |-> snap[w]]
    BY Zenon
  <2>2. /\ r.run = TRUE /\ outcome' = [outcome EXCEPT ![Head(job[w])] = r]
        /\ wpc[w] \in {"prologue", "read"} /\ FinishTxn(w)
        /\ UNCHANGED <<start, managerVars, req, reply>>
    BY Zenon, <2>1, <1>8 DEF ApplyWrites
  <2>3. QED
    BY <2>2, FinishData, Zenon
<1>9. CASE SendReply(w)
  <2>1. PICK msg \in Reply : msg.worker = w /\ msg.results = res[w]
                             /\ msg = [worker |-> w, results |-> res[w]]
    BY <1>2, Zenon
  <2>2. /\ wpc[w] = "reply" /\ UNCHANGED <<outcome, req, job>>
        /\ reply' = Append(reply, msg) /\ res'[w] = <<>>
        /\ \A v \in Worker \ {w} : res'[v] = res[v]
    BY Zenon, <2>1, <1>2, <1>9 DEF SendReply, stateVars
  <2>3. OneAnswer /\ ~Answered(msg.worker)
    BY Zenon, <2>1, <2>2, <1>1 DEF OneBatch
  <2>4. \A n \in 1 .. Len(reply') : \/ n \in 1 .. Len(reply) /\ reply'[n] = reply[n]
                                    \/ reply'[n] = msg
    BY <2>2, <2>3, <1>2, ReplyAppend, Zenon
  <2>5. Batches'
    BY <2>2, <1>1, <1>3, <1>4, Zenon DEF Batches, Taken
  <2>6. ASSUME NEW v \in Worker
        PROVE  Distinct(res'[v]) /\ \A i \in Elems(res'[v]) : IsUnreceived(v, i)'
    BY <2>2, <1>1, <1>4, ElemsEmpty, Zenon DEF Results, Unreceived
  <2>7. ASSUME NEW v \in Worker, NEW n \in 1 .. Len(reply'), reply'[n].worker = v
        PROVE  /\ Distinct(reply'[n].results)
               /\ \A i \in Elems(reply'[n].results) : IsUnreceived(v, i)'
    <3>1. CASE n \in 1 .. Len(reply) /\ reply'[n] = reply[n]
      BY <3>1, <2>2, <2>7, <1>1, <1>4, Zenon DEF Results, Unreceived
    <3>2. CASE reply'[n] = msg
      BY <3>2, <2>1, <2>2, <2>7, <1>1, <1>4, Zenon DEF Results, Unreceived
    <3>3. QED
      BY <3>1, <3>2, <2>4, Zenon
  <2>8. Distinct(ret') /\ \A i \in Elems(ret') : outcome'[i].run
    BY <2>2, <1>1, <1>3, Zenon DEF Results
  <2>9. Results'
    BY Zenon, <2>6, <2>7, <2>8 DEF Results, Unreceived
  <2>10. QED
    BY Zenon, <2>2, <2>5, <2>9, <1>4
<1>10. QED
  BY Zenon, <1>5, <1>6, <1>7, <1>8, <1>9 DEF WorkerStep

-----------------------------------------------------------------------------
(***************************************************************************)
(* Counting outputs.                                                       *)
(***************************************************************************)

(* There are at most as many different outputs as there are transactions;  *)
(* if there are as many, every transaction has one.                        *)
LEMMA DistinctBound ==
  ASSUME NEW S, IsFiniteSet(S), NEW q \in Seq(S), Distinct(q)
  PROVE  /\ Len(q) <= Cardinality(S)
         /\ Len(q) = Cardinality(S) => S = Elems(q)
<1> DEFINE f == [n \in 1 .. Len(q) |-> q[n]]
<1>1. Len(q) \in Nat /\ \A n \in 1 .. Len(q) : q[n] \in S
  OBVIOUS
<1>2. IsFiniteSet(1 .. Len(q)) /\ Cardinality(1 .. Len(q)) = Len(q)
  <2>1. 1 \in Int /\ Len(q) \in Int  BY <1>1
  <2>2. /\ IsFiniteSet(1 .. Len(q))
        /\ Cardinality(1 .. Len(q)) = IF 1 > Len(q) THEN 0 ELSE Len(q) - 1 + 1
    BY <2>1, FS_Interval, Zenon
  <2>3. QED  BY <2>2, <1>1
<1>3. f \in Injection(1 .. Len(q), S)
  BY Zenon, <1>1 DEF Injection, IsInjective, Distinct
<1>4. Len(q) <= Cardinality(S)
  BY <1>2, <1>3, FS_Injection, SMTT(30)
<1>5. ASSUME Len(q) = Cardinality(S)
      PROVE  S = Elems(q)
  <2>1. f \in Surjection(1 .. Len(q), S)
    BY Zenon, <1>2, <1>3, <1>5, FS_Injection
  <2>2. \A x \in S : \E n \in 1 .. Len(q) : f[n] = x
    BY Zenon, <2>1 DEF Surjection
  <2>3. QED
    BY <2>2, <1>1, Zenon DEF Elems
<1>6. QED
  BY Zenon, <1>4, <1>5

LEMMA Pigeonhole ==
  ASSUME NEW S, IsFiniteSet(S), NEW q \in Seq(S), Distinct(q),
         Len(q) >= Cardinality(S)
  PROVE  S = Elems(q)
<1>1. Len(q) \in Nat /\ Cardinality(S) \in Nat
  BY FS_CardinalityType
<1>2. Len(q) <= Cardinality(S)
  BY Zenon, DistinctBound
<1>3. QED
  BY <1>1, <1>2, DistinctBound

(* When all outputs but one are in and transaction i has not run, every    *)
(* other transaction has: this is why the test on processed_transactions   *)
(* puts the checkpoint last.                                               *)
LEMMA AllOthersRun ==
  ASSUME TypeOK, Results, NEW i \in Index, ~outcome[i].run,
         Len(ret) >= Len(block) - 1
  PROVE  \A j \in Index \ {i} : outcome[j].run
<1>1. Len(block) \in Nat \ {0} /\ ret \in Seq(Index) /\ Index = 1 .. Len(block)
  BY Zenon, BlockType DEF TypeOK, Batch, Index
<1>2. ret \in Seq(Index \ {i})
  <2>1. Elems(ret) \subseteq Index \ {i}
    BY Zenon, <1>1, ElemsType DEF Results
  <2>2. QED
    BY <2>1, <1>1, ElemsType, Zenon
<1>3. IsFiniteSet(Index) /\ Cardinality(Index) = Len(block)
  <2>1. 1 \in Int /\ Len(block) \in Int
    BY <1>1
  <2>2. /\ IsFiniteSet(1 .. Len(block))
        /\ Cardinality(1 .. Len(block)) = IF 1 > Len(block) THEN 0 ELSE Len(block) - 1 + 1
    BY <2>1, FS_Interval, Zenon
  <2>3. QED
    BY <2>2, <1>1
<1>4. IsFiniteSet(Index \ {i}) /\ Cardinality(Index \ {i}) = Len(block) - 1
  BY Zenon, <1>3, FS_RemoveElement
<1>5. Index \ {i} = Elems(ret)
  BY Zenon, <1>2, <1>4, Pigeonhole DEF Results
<1>6. QED
  BY Zenon, <1>5 DEF Results

-----------------------------------------------------------------------------
(***************************************************************************)
(* The invariant.                                                          *)
(***************************************************************************)

(* The invariant holds when the call starts.                               *)
LEMMA InitInv == Init => Inv
<1>1. SUFFICES ASSUME Init PROVE Inv
  BY Zenon
<1>2. TypeOK
  BY Zenon, <1>1, InitType
<1>3. /\ \A w \in Worker : /\ req[w] = <<>> /\ wpc[w] = "idle" /\ job[w] = <<>>
                           /\ res[w] = <<>> /\ ~loaded[w] /\ snap[w] = Clean /\ ptr[w] = 1
      /\ batch = <<>> /\ reply = <<>> /\ ret = <<>> /\ mpc = "scan"
  BY Zenon, <1>1 DEF Init
<1>4. Len(reply) = 0 /\ \A w \in Worker : Len(req[w]) = 0
  BY <1>3
<1>5. \A w : ~Answered(w)
  BY <1>4 DEF Answered
<1>6. WorkerHolds /\ OneBatch /\ Flags
  BY Zenon, <1>3, <1>4, <1>5, SMTT(30) DEF WorkerHolds, OneBatch, OneAnswer, Flags, AtWork, Worker
<1>7. Batches /\ Results
  BY <1>3, <1>4, ElemsEmpty, SMTT(30) DEF Batches, Results, Taken, Unreceived
<1>8. Unscanned
  <2>1. \A i \in Index : ~outcome[i].run
    BY Zenon, <1>1 DEF Init, NotRun, Index, block
  <2>2. QED
    BY <2>1, Zenon DEF Unscanned
<1>9. Snapshots /\ Finished
  BY Zenon, <1>3 DEF Snapshots, Finished
<1>10. QED
  BY <1>2, <1>6, <1>7, <1>8, <1>9, Zenon DEF Inv

(* Every step keeps it.                                                    *)
LEMMA InvStep == Inv /\ [Next]_vars => Inv'
<1>1. SUFFICES ASSUME Inv, [Next]_vars PROVE Inv'
  BY Zenon
<1>2. CASE Manager
  <2>1. OthersRun
    BY <1>1, AllOthersRun, Zenon DEF Inv, OthersRun
  <2>2. QED
    BY <1>1, <1>2, <2>1, ManagerType, ManagerControl, ManagerData, Zenon DEF Inv
<1>3. CASE \E w \in Worker : WorkerStep(w)
  BY <1>1, <1>3, WorkerType, WorkerControl, WorkerData, WorkerSnapshots, Zenon DEF Inv
<1>4. CASE UNCHANGED vars
  <2>1. UNCHANGED <<start, mpc, cur, ptr, batch, loaded, prevNonce, ret, req, reply,
                    wpc, job, snap, res, cache, seqNo, outcome>>
    BY Zenon, <1>4 DEF vars, managerVars, workerVars, stateVars
  <2>2. UNCHANGED <<block, Index, Batch, Reply, Seen, Clean>>
    BY Zenon, <2>1 DEF block, Index, Batch, Reply, Seen, Clean
  <2>3. TypeOK'
    BY <1>1, <2>1, <2>2, Zenon DEF Inv, TypeOK
  <2>4. /\ \A w : Answered(w)' <=> Answered(w)
        /\ \A w : AtWork(w)' <=> AtWork(w)
        /\ \A w, i : IsTaken(w, i)' <=> IsTaken(w, i)
        /\ \A w, i : IsUnreceived(w, i)' <=> IsUnreceived(w, i)
    BY <2>1, <2>2, Zenon DEF Answered, AtWork, IsTaken, IsUnreceived
  <2>5. WorkerHolds' /\ OneBatch' /\ Flags'
    BY <1>1, <2>1, <2>4, Zenon DEF Inv, WorkerHolds, OneBatch, OneAnswer, Flags
  <2>6. Batches'
    BY <1>1, <2>1, <2>4, Zenon DEF Inv, Batches, Taken
  <2>7. Results'
    BY <1>1, <2>1, <2>4, Zenon DEF Inv, Results, Unreceived
  <2>8. Unscanned' /\ Finished'
    BY <1>1, <2>1, <2>2, Zenon DEF Inv, Unscanned, Finished
  <2>9. Snapshots'
    BY <1>1, <2>1, <2>2, Zenon DEF Inv, Snapshots, Executing
  <2>10. QED
    BY <2>3, <2>5, <2>6, <2>7, <2>8, <2>9, Zenon DEF Inv
<1>5. QED
  BY <1>1, <1>2, <1>3, <1>4, Zenon DEF Next, Terminated

(* In every reachable state of the multi-worker executor, for every block: *)
(* the inductive invariant.                                                *)
THEOREM Invariance == Spec => []Inv
BY InitInv, InvStep, PTL DEF Spec

(* The manager, the channels and the workers always hold values of their   *)
(* types.                                                                  *)
THEOREM TypeCorrect == Spec => []TypeOK
<1>1. Inv => TypeOK
  BY Zenon DEF Inv
<1>2. QED
  BY <1>1, Invariance, PTL

(* "once here, safe to send for execution": no batch is ever at work next  *)
(* to a cross batch, and no worker has two batches.                        *)
THEOREM SendIsSafe == Spec => []SafeToSend
<1>1. Inv => SafeToSend
  BY Zenon DEF Inv, OneBatch, Flags, SafeToSend, Worker
<1>2. QED
  BY <1>1, Invariance, PTL

(* When the loop has ended every transaction has one output, and nothing   *)
(* is at work any more.                                                    *)
LEMMA ReturnedMeansDone ==
  ASSUME Inv, mpc = "returned"
  PROVE  /\ Len(ret) = Len(block) /\ Index = Elems(ret)
         /\ \A w \in Worker : req[w] = <<>> /\ wpc[w] = "idle"
<1>1. TypeOK /\ WorkerHolds /\ OneBatch /\ Batches /\ Results /\ Finished
  BY Zenon DEF Inv
<1>2. Len(block) \in Nat \ {0} /\ ret \in Seq(Index) /\ Index = 1 .. Len(block)
  BY <1>1, BlockType, Zenon DEF TypeOK, Batch, Index
<1>3. IsFiniteSet(Index) /\ Cardinality(Index) = Len(block)
  <2>1. 1 \in Int /\ Len(block) \in Int
    BY <1>2
  <2>2. /\ IsFiniteSet(1 .. Len(block))
        /\ Cardinality(1 .. Len(block)) = IF 1 > Len(block) THEN 0 ELSE Len(block) - 1 + 1
    BY <2>1, FS_Interval, Zenon
  <2>3. QED
    BY <2>2, <1>2, SMTT(30)
<1>4. Index = Elems(ret)
  BY <1>1, <1>2, <1>3, Pigeonhole, Zenon DEF Finished, Results
<1>5. Len(ret) = Len(block)
  <2>1. Len(ret) <= Cardinality(Index)
    BY <1>1, <1>2, <1>3, DistinctBound, Zenon DEF Results
  <2>2. Len(ret) >= Len(block) /\ Len(ret) \in Nat
    BY <1>1, <1>2, SMTT(30) DEF Finished
  <2>3. QED
    BY <2>1, <2>2, <1>2, <1>3, SMTT(30)
<1>6. ASSUME NEW w \in Worker
      PROVE  req[w] = <<>> /\ wpc[w] = "idle"
  <2>1. \A i \in Index : outcome[i].run
    BY <1>1, <1>4, Zenon DEF Results
  <2>2. \A q \in Seq(Index) : Taken(w, q) \/ Unreceived(w, q) => q = <<>>
    <3>1. SUFFICES ASSUME NEW q \in Seq(Index), q # <<>>, Taken(w, q) \/ Unreceived(w, q)
                   PROVE  FALSE
      BY Zenon
    <3>2. Head(q) \in Index /\ Head(q) \in Elems(q)
      BY <3>1, ElemsTail
    <3>3. QED
      BY <3>1, <3>2, <2>1, <1>4, Zenon DEF Taken, IsTaken, Unreceived, IsUnreceived
  <2>3. job[w] \in Seq(Index) /\ res[w] \in Seq(Index) /\ req \in [Worker -> Seq(Seq(Index))]
        /\ batch \in Seq(Index) /\ job \in [Worker -> Seq(Index)]
    BY <1>1, Zenon DEF TypeOK, Batch
  <2>4. job[w] = <<>> /\ res[w] = <<>>
    BY <2>2, <2>3, <1>1, Zenon DEF Batches, Results
  <2>5. req[w] = <<>>
    <3>1. req[w] # <<>> => req[w][1] \in Seq(Index)
      BY <2>3, BatchElems, Zenon
    <3>2. QED
      BY <3>1, <2>2, <1>1, Zenon DEF Batches, OneBatch
  <2>6. wpc[w] = "idle"
    BY Zenon, <2>4, <1>1 DEF WorkerHolds, TypeOK
  <2>7. QED
    BY Zenon, <2>5, <2>6
<1>7. QED
  BY <1>4, <1>5, <1>6, Zenon

(* When the call returns, no worker and no channel holds base_view.        *)
THEOREM ViewIsReleased == Spec => []ViewReleased
<1>1. Inv => ViewReleased
  BY Zenon, ReturnedMeansDone DEF ViewReleased
<1>2. QED
  BY <1>1, Invariance, PTL

(* When the call returns, every transaction has exactly one output.        *)
THEOREM EachHasOneOutput == Spec => []OneOutputEach
<1>1. Inv => OneOutputEach
  BY Zenon, ReturnedMeansDone DEF OneOutputEach, Elems
<1>2. QED
  BY <1>1, Invariance, PTL

-----------------------------------------------------------------------------
(***************************************************************************)
(* The executor implements SerialBlock.                                    *)
(***************************************************************************)
AllRunAtReturn == mpc = "returned" => \A i \in Index : outcome[i].run

LEMMA SameUser == \A tx : Serial!IsUser(tx) <=> IsUser(tx)
BY Zenon DEF Serial!IsUser, IsUser, Serial!UserTypes, UserTypes, Serial!NativeTypes,
       NativeTypes, Serial!CrossTypes, CrossTypes

LEMMA SerialInit == Init => Serial!Init
BY Zenon DEF Init, Serial!Init, NotRun, Serial!NotRun, Clean

LEMMA SameCount == \A S : Serial!Cardinality(S) = Cardinality(S)
BY Zenon DEF Serial!Cardinality, Cardinality

LEMMA SameOrder == Serial!WellFormed(start) <=> WellFormed(start)
<1>1. \A i : Serial!EarlierOfSender(start.block, i) = EarlierOfSender(start.block, i)
  BY Zenon DEF Serial!EarlierOfSender, EarlierOfSender
<1> DEFINE Follows(i) == start.block[i].nonce = start.seqNo[start.block[i].sender]
                           + Cardinality(EarlierOfSender(start.block, i))
<1>2. \A i : (/\ Serial!IsUser(start.block[i])
             /\ start.block[i].nonce = start.seqNo[start.block[i].sender]
                  + Serial!Cardinality(Serial!EarlierOfSender(start.block, i)))
           <=> IsUser(start.block[i]) /\ Follows(i)
  BY Zenon, <1>1, SameUser, SameCount
<1>3. QED
  BY Zenon, <1>2, SameCount DEF Serial!WellFormed, WellFormed

LEMMA ZeroInit == Init => ZeroIsTaken
BY Zenon DEF Init, ZeroIsTaken

(* A transaction that brings its account into the map has nonce 0, and the *)
(* pointers only move forward.                                             *)
LEMMA ZeroTake ==
  ASSUME TypeOK, ZeroIsTaken, ScanTake
  PROVE  ZeroIsTaken'
<1>1. /\ start \in Starts /\ start' = start /\ block' = block /\ Index' = Index
      /\ cur \in Worker /\ ptr[cur] \in Index
      /\ Len(block) \in Nat /\ \A w \in Worker : ptr[w] \in 1 .. Len(block) + 1
  <2>1. start' = start /\ block' = block /\ Index' = Index
    BY Zenon DEF ScanTake, block, Index
  <2>2. start \in Starts /\ cur \in Worker /\ ptr \in [Worker -> 1 .. Len(block) + 1]
    BY Zenon DEF TypeOK
  <2>3. Len(block) \in Nat
    BY <2>2, BlockType
  <2>4. ptr[cur] <= Len(block)
    BY Zenon DEF ScanTake, Scanning
  <2>5. ptr[cur] \in Index
    BY <2>2, <2>3, <2>4 DEF Index
  <2>6. QED
    BY Zenon, <2>1, <2>2, <2>3, <2>5
<1>2. \A j \in Index : \A w \in Worker : j < ptr[w] => j < ptr'[w]
  <2>1. ptr \in [Worker -> 1 .. Len(block) + 1] /\ ptr' = [ptr EXCEPT ![cur] = @ + 1]
    BY Zenon DEF TypeOK, ScanTake
  <2>2. QED
    BY <1>1, <2>1 DEF Index
<1>3. \A tx : ScanningPointer(tx) \in Worker
  BY Zenon DEF ScanningPointer, Worker
<1>4. SUFFICES ASSUME NEW s \in Senders, start.prevNonce[s] = NoNonce, prevNonce'[s] # NoNonce
               PROVE  \E j \in Index : /\ j < ptr'[ScanningPointer(block[j])]
                                       /\ IsUser(block[j])
                                       /\ block[j].sender = s /\ block[j].nonce = 0
  BY Zenon, <1>1 DEF ZeroIsTaken
<1>5. CASE prevNonce[s] # NoNonce
  <2>1. PICK j \in Index : /\ j < ptr[ScanningPointer(block[j])]
                           /\ IsUser(block[j])
                           /\ block[j].sender = s /\ block[j].nonce = 0
    BY Zenon, <1>4, <1>5 DEF ZeroIsTaken
  <2>2. j < ptr'[ScanningPointer(block[j])]
    BY Zenon, <1>2, <1>3, <2>1
  <2>3. QED
    BY Zenon, <2>1, <2>2
<1>6. CASE prevNonce[s] = NoNonce
  <2>1. IsUser(Scanned) /\ Scanned.sender = s
    <3>1. prevNonce \in [Senders -> Nat \cup {NoNonce}]
      BY Zenon DEF TypeOK
    <3>2. prevNonce' = IF IsUser(Scanned) THEN [prevNonce EXCEPT ![Scanned.sender] = Scanned.nonce]
                       ELSE prevNonce
      BY Zenon DEF ScanTake
    <3>3. QED
      BY Zenon, <3>1, <3>2, <1>4, <1>6
  <2>2. ScanningPointer(Scanned) = cur /\ prevNonce[Scanned.sender] = Scanned.nonce - 1
    BY Zenon, <2>1 DEF ScanTake, CanTake, Available, NonceIsNext
  <2>3. Scanned.nonce = 0
    <3>1. Scanned.nonce \in Nat
      BY Zenon, <1>1, BlockType DEF Scanned
    <3>2. Scanned.nonce - 1 = NoNonce
      BY Zenon, <2>1, <2>2, <1>6
    <3>3. QED
      BY <3>1, <3>2 DEF NoNonce
  <2>4. ptr[cur] < ptr'[cur]
    <3>1. ptr'[cur] = ptr[cur] + 1
      BY Zenon, <1>1 DEF ScanTake, TypeOK
    <3>2. QED
      BY <1>1, <3>1 DEF Index
  <2>5. QED
    BY Zenon, <1>1, <2>1, <2>2, <2>3, <2>4 DEF Scanned
<1>7. QED
  BY Zenon, <1>5, <1>6

LEMMA ZeroStep == TypeOK /\ ZeroIsTaken /\ [Next]_vars => ZeroIsTaken'
<1>1. SUFFICES ASSUME TypeOK, ZeroIsTaken, [Next]_vars PROVE ZeroIsTaken'
  BY Zenon
<1>2. CASE ScanTake
  BY Zenon, <1>1, <1>2, ZeroTake
<1>3. CASE ScanSkip
  <2>1. start' = start /\ block' = block /\ Index' = Index /\ prevNonce' = prevNonce
    BY Zenon, <1>3 DEF ScanSkip, block, Index
  <2>2. \A j \in Index : \A w \in Worker : j < ptr[w] => j < ptr'[w]
    <3>1. ptr \in [Worker -> 1 .. Len(block) + 1] /\ ptr' = [ptr EXCEPT ![cur] = @ + 1]
      BY Zenon, <1>1, <1>3 DEF TypeOK, ScanSkip
    <3>2. Len(block) \in Nat
      BY <1>1, BlockType DEF TypeOK
    <3>3. QED
      BY <3>1, <3>2 DEF Index
  <2>3. \A tx : ScanningPointer(tx) \in Worker
    BY Zenon DEF ScanningPointer, Worker
  <2>4. QED
    BY Zenon, <1>1, <2>1, <2>2, <2>3 DEF ZeroIsTaken
<1>4. CASE Manager /\ ~ScanTake /\ ~ScanSkip
  <2>1. UNCHANGED <<start, prevNonce, ptr>>
    BY Zenon, <1>4 DEF Manager, ScanPanic, ScanWait, ScanEnd, SendTxnsToWorker,
       TryRecvResults, TryRecvNothing
  <2>2. QED
    BY Zenon, <1>1, <2>1 DEF ZeroIsTaken, block, Index
<1>5. ASSUME NEW w \in Worker, WorkerStep(w) PROVE ZeroIsTaken'
  <2>1. UNCHANGED <<start, prevNonce, ptr>>
    BY Zenon, <1>5 DEF WorkerStep, ReceiveContext, PrologueAccept, PrologueDiscard, GetStateValue,
       ApplyWrites, DropView, SendReply, managerVars
  <2>2. QED
    BY Zenon, <1>1, <2>1 DEF ZeroIsTaken, block, Index
<1>6. CASE UNCHANGED vars
  BY Zenon, <1>1, <1>6 DEF vars, managerVars, ZeroIsTaken, block, Index
<1>7. QED
  BY Zenon, <1>1, <1>2, <1>3, <1>4, <1>5, <1>6 DEF Next, Terminated

(* The transactions of an account have different nonces, so a second one   *)
(* with nonce 0 is not there to underflow: a panic means that the block is *)
(* not in order.                                                           *)
LEMMA EarlierCounts ==
  ASSUME NEW i \in Nat, NEW j \in EarlierOfSender(block, i)
  PROVE  Cardinality(EarlierOfSender(block, i)) \in Nat \ {0}
<1>1. IsFiniteSet(1 .. i - 1)
  BY FS_Interval
<1>2. IsFiniteSet(EarlierOfSender(block, i))
  BY <1>1, FS_Subset, Zenon DEF EarlierOfSender
<1>3. Cardinality(EarlierOfSender(block, i)) \in Nat
  BY <1>2, FS_CardinalityType
<1>4. Cardinality(EarlierOfSender(block, i)) # 0
  BY <1>2, FS_EmptySet, Zenon
<1>5. QED
  BY <1>3, <1>4

LEMMA PanicIsOutOfOrder ==
  ASSUME TypeOK, ZeroIsTaken, ScanPanic
  PROVE  ~WellFormed(start)
<1>1. SUFFICES ASSUME WellFormed(start) PROVE FALSE
  BY Zenon
<1> DEFINE i == ptr[cur]
<1>2. i \in Index /\ start \in Starts /\ Scanned = block[i] /\ Len(block) \in Nat \ {0}
  <2>1. cur \in Worker /\ ptr \in [Worker -> 1 .. Len(block) + 1] /\ start \in Starts
    BY Zenon DEF TypeOK
  <2>2. Len(block) \in Nat \ {0}
    BY <2>1, BlockType
  <2>3. ptr[cur] <= Len(block)
    BY Zenon DEF ScanPanic, Scanning
  <2>4. ptr[cur] \in Index
    BY <2>1, <2>2, <2>3 DEF Index
  <2>5. QED
    BY Zenon, <2>1, <2>2, <2>4 DEF Scanned
<1>3. /\ block[Len(block)].type = "StateCheckpoint"
      /\ \A j \in 1 .. Len(block) - 1 :
           /\ IsUser(block[j])
           /\ block[j].nonce = start.seqNo[block[j].sender]
                                 + Cardinality(EarlierOfSender(block, j))
      /\ \A s \in Senders : start.prevNonce[s] = start.seqNo[s] - 1
  BY Zenon, <1>1 DEF WellFormed, block
<1>4. \A j \in Index : j # Len(block) => j \in 1 .. Len(block) - 1
  BY <1>2 DEF Index
<1>5. \A j \in Index : block[j].type # "InvalidSignature"
  BY Zenon, <1>3, <1>4 DEF IsUser, UserTypes, NativeTypes, CrossTypes
<1>6. IsUser(block[i]) /\ ScanningPointer(block[i]) = cur /\ NonceUnderflows(block[i])
  BY Zenon, <1>2, <1>5 DEF ScanPanic, MustPanic, Available
<1>7. ~IsUser(block[Len(block)])
  BY Zenon, <1>3 DEF IsUser, UserTypes, NativeTypes, CrossTypes
<1> DEFINE s == block[i].sender
<1>8. /\ s \in Senders /\ block[i].nonce = 0 /\ prevNonce[s] # NoNonce
      /\ \A j \in Index : block[j].nonce \in Nat /\ block[j].sender \in Senders
      /\ start.seqNo \in [Senders -> Nat]
  BY Zenon, <1>2, <1>6, BlockType DEF NonceUnderflows
<1>9. \A j \in Index : IsUser(block[j]) =>
        block[j].nonce = start.seqNo[block[j].sender] + Cardinality(EarlierOfSender(block, j))
  BY Zenon, <1>3, <1>4, <1>7
<1>10. \A j \in Index : IsUser(block[j]) /\ block[j].nonce = 0 =>
         EarlierOfSender(block, j) = {} /\ start.seqNo[block[j].sender] = 0
  <2>1. SUFFICES ASSUME NEW j \in Index, IsUser(block[j]), block[j].nonce = 0
                 PROVE  EarlierOfSender(block, j) = {} /\ start.seqNo[block[j].sender] = 0
    BY Zenon
  <2>2. j \in Nat
    BY <1>2 DEF Index
  <2>3. EarlierOfSender(block, j) # {} => Cardinality(EarlierOfSender(block, j)) \in Nat \ {0}
    BY Zenon, <2>2, EarlierCounts
  <2>4. EarlierOfSender(block, j) = {} => Cardinality(EarlierOfSender(block, j)) = 0
    BY Zenon, FS_EmptySet
  <2>5. start.seqNo[block[j].sender] \in Nat
    BY Zenon, <1>8
  <2>6. 0 = start.seqNo[block[j].sender] + Cardinality(EarlierOfSender(block, j))
    BY Zenon, <1>9, <2>1
  <2>7. QED
    BY <2>3, <2>4, <2>5, <2>6
<1>11. EarlierOfSender(block, i) = {} /\ start.prevNonce[s] = NoNonce
  <2>1. EarlierOfSender(block, i) = {} /\ start.seqNo[s] = 0
    BY Zenon, <1>2, <1>6, <1>8, <1>10
  <2>2. start.prevNonce[s] = start.seqNo[s] - 1
    BY Zenon, <1>3, <1>8
  <2>3. QED
    BY <2>1, <2>2 DEF NoNonce
<1>12. PICK j \in Index : /\ j < ptr[ScanningPointer(block[j])]
                          /\ IsUser(block[j])
                          /\ block[j].sender = s /\ block[j].nonce = 0
  BY Zenon, <1>8, <1>11 DEF ZeroIsTaken
<1>13. EarlierOfSender(block, j) = {}
  BY Zenon, <1>10, <1>12
<1>14. i \in Nat /\ j \in Nat /\ i >= 1 /\ j >= 1
  BY <1>2, <1>12 DEF Index
<1>15. j = i
  <2>1. j < i => j \in 1 .. i - 1
    BY <1>14
  <2>2. i < j => i \in 1 .. j - 1
    BY <1>14
  <2>3. ~(j < i) /\ ~(i < j)
    BY Zenon, <1>11, <1>12, <1>13, <2>1, <2>2 DEF EarlierOfSender
  <2>4. QED
    BY <1>14, <2>3
<1>16. i < i
  BY Zenon, <1>6, <1>12, <1>15
<1>17. QED
  BY <1>14, <1>16

(* A step of the manager is the return, a panic, or no step of SerialBlock.*)
LEMMA SerialManager ==
  ASSUME Inv, ZeroIsTaken, AllRunAtReturn', Manager
  PROVE  Serial!Return \/ Serial!Panic \/ UNCHANGED Serial!vars
<1>1. UNCHANGED <<start, cache, seqNo, outcome>> /\ mpc \in {"scan", "send", "recv"}
  BY Zenon DEF Manager, ScanPanic, ScanTake, ScanSkip, ScanWait, ScanEnd, Scanning,
         SendTxnsToWorker, TryRecvResults, TryRecvNothing, stateVars
<1>2. CASE mpc' = "returned"
  BY Zenon, <1>1, <1>2 DEF AllRunAtReturn, Serial!Return, Serial!Index, Serial!block, Index, block
<1>3. CASE mpc' = "panicked"
  <2>1. ScanPanic
    BY Zenon, <1>1, <1>3 DEF Manager, ScanTake, ScanSkip, ScanWait, ScanEnd,
       SendTxnsToWorker, TryRecvResults, TryRecvNothing, EndIteration
  <2>2. ~Serial!WellFormed(start)
    BY Zenon, <2>1, PanicIsOutOfOrder, SameOrder DEF Inv
  <2>3. QED
    BY Zenon, <1>1, <1>3, <2>2 DEF Serial!Panic
<1>4. CASE mpc' \notin {"returned", "panicked"}
  BY <1>1, <1>4, Zenon DEF Serial!vars
<1>5. QED
  BY <1>2, <1>3, <1>4, ZenonT(40)

(* A worker that holds a transaction holds one that has not run, and the   *)
(* call has not returned.                                                  *)
LEMMA HeldByWorker ==
  ASSUME Inv, NEW w \in Worker, wpc[w] \in {"prologue", "read"}
  PROVE  /\ Head(job[w]) \in Index /\ IsTaken(w, Head(job[w])) /\ mpc # "returned"
<1>1. job[w] \in Seq(Index) /\ job[w] # <<>>
  BY Zenon DEF Inv, TypeOK, Batch, WorkerHolds
<1>2. Head(job[w]) \in Index /\ Head(job[w]) \in Elems(job[w])
  BY <1>1, ElemsTail, SMTT(30)
<1>3. IsTaken(w, Head(job[w]))
  BY <1>2, Zenon DEF Inv, Batches, Taken
<1>4. mpc # "returned"
  BY Zenon, ReturnedMeansDone
<1>5. QED
  BY <1>2, <1>3, <1>4, Zenon

(* ApplyWrites is the moment at which a transaction takes effect: what it  *)
(* has read until then is still what the cache holds.                      *)
LEMMA SerialKeep ==
  ASSUME Inv, NEW w \in Worker, ApplyWrites(w)
  PROVE  \E i \in Serial!Index : Serial!Execute(i)
<1>1. wpc[w] = "read" /\ UNCHANGED <<start, mpc>>
  BY Zenon DEF ApplyWrites, managerVars
<1>2. PICK i \in Index : i = Head(job[w])
  BY Zenon, <1>1, HeldByWorker
<1>3. mpc # "returned" /\ IsTaken(w, i)
  BY Zenon, <1>1, <1>2, HeldByWorker
<1>4. Executing(w) = block[i]
  BY <1>2, Zenon DEF Executing
<1>5. /\ ~outcome[i].run
      /\ block[i].type = "StateCheckpoint" => \A j \in Index \ {i} : outcome[j].run
  BY <1>3, Zenon DEF IsTaken
<1>6. IsUser(block[i]) => block[i].nonce = seqNo[block[i].sender]
  BY Zenon, <1>1, <1>4 DEF Inv, Snapshots
<1>7. snap[w] = [k \in Keys |-> IF k \in block[i].reads THEN {cache[k]} ELSE {}]
  <2>1. \A k \in Keys : snap[w][k] = IF k \in block[i].reads THEN {cache[k]} ELSE {}
    BY <1>1, <1>4, Zenon DEF Inv, Snapshots, ApplyWrites
  <2>2. snap[w] \in Seen
    BY Zenon DEF Inv, TypeOK
  <2>3. snap[w] = [k \in Keys |-> snap[w][k]]
    BY Zenon, <2>2 DEF Seen
  <2>4. QED
    BY <2>1, <2>3, Zenon
<1>8. /\ outcome' = [outcome EXCEPT ![i] = [kept |-> TRUE, run |-> TRUE, read |-> snap[w]]]
      /\ cache' = [k \in Keys |-> IF k \in block[i].writes THEN i ELSE cache[k]]
      /\ seqNo' = IF IsUser(block[i])
                  THEN [seqNo EXCEPT ![block[i].sender] = block[i].nonce + 1]
                  ELSE seqNo
  BY Zenon, <1>2, <1>4 DEF ApplyWrites
<1>9. Serial!Keep(i)
  <2>1. outcome' = [outcome EXCEPT ![i] =
          [kept |-> TRUE, run |-> TRUE,
           read |-> [k \in Keys |-> IF k \in block[i].reads THEN {cache[k]} ELSE {}]]]
    BY Zenon, <1>7, <1>8
  <2>2. QED
    BY <1>5, <1>6, <1>8, <2>1, SameUser, Zenon
       DEF Serial!Keep, Serial!block, Serial!Index, block, Index
<1>10. Serial!Execute(i)
  BY Zenon, <1>1, <1>3, <1>5, <1>9 DEF Serial!Execute
<1>11. QED
  BY <1>10, Zenon DEF Serial!Index, Serial!block, Index, block

LEMMA SerialDiscard ==
  ASSUME Inv, NEW w \in Worker, PrologueDiscard(w)
  PROVE  \E i \in Serial!Index : Serial!Execute(i)
<1>1. wpc[w] = "prologue" /\ UNCHANGED <<start, mpc, cache, seqNo>>
  BY Zenon DEF PrologueDiscard, managerVars
<1>2. PICK i \in Index : i = Head(job[w])
  BY Zenon, <1>1, HeldByWorker
<1>3. mpc # "returned" /\ IsTaken(w, i)
  BY <1>1, <1>2, HeldByWorker, Zenon
<1>4. /\ ~outcome[i].run /\ IsUser(block[i])
      /\ block[i].nonce # seqNo[block[i].sender]
      /\ outcome' = [outcome EXCEPT ![i] = [kept |-> FALSE, run |-> TRUE, read |-> Clean]]
  BY <1>2, <1>3, Zenon DEF IsTaken, PrologueDiscard, Executing
<1>5. [kept |-> FALSE, run |-> TRUE, read |-> Clean] = Serial!Discarded
  BY Zenon DEF Serial!Discarded, Clean
<1>6. Serial!Discard(i)
  BY <1>1, <1>4, <1>5, SameUser, Zenon DEF Serial!Discard, Serial!block, block
<1>7. Serial!Execute(i)
  BY Zenon, <1>1, <1>3, <1>4, <1>6 DEF Serial!Execute
<1>8. QED
  BY Zenon, <1>7 DEF Serial!Index, Serial!block, Index, block

LEMMA SerialStep ==
  Inv /\ ZeroIsTaken /\ AllRunAtReturn' /\ [Next]_vars => [Serial!Next]_(Serial!vars)
<1>1. SUFFICES ASSUME Inv, ZeroIsTaken, AllRunAtReturn', [Next]_vars
               PROVE  Serial!Next \/ UNCHANGED Serial!vars
  BY Zenon
<1>2. CASE Manager
  BY <1>1, <1>2, SerialManager, Zenon DEF Serial!Next
<1>3. ASSUME NEW w \in Worker, WorkerStep(w)
      PROVE  Serial!Next \/ UNCHANGED Serial!vars
  <2>1. CASE ApplyWrites(w)
    BY <1>1, <2>1, SerialKeep, Zenon DEF Serial!Next
  <2>2. CASE PrologueDiscard(w)
    BY <1>1, <2>2, SerialDiscard, Zenon DEF Serial!Next
  <2>3. CASE \/ ReceiveContext(w) \/ PrologueAccept(w)
             \/ (\E k \in Keys : GetStateValue(w, k)) \/ DropView(w) \/ SendReply(w)
    BY <2>3, Zenon DEF ReceiveContext, PrologueAccept, GetStateValue, DropView, SendReply,
                stateVars, managerVars, Serial!vars
  <2>4. QED
    BY <1>3, <2>1, <2>2, <2>3, Zenon DEF WorkerStep
<1>4. CASE UNCHANGED vars
  BY Zenon, <1>4 DEF vars, stateVars, managerVars, Serial!vars
<1>5. QED
  BY <1>1, <1>2, <1>3, <1>4, Zenon DEF Next, Terminated

(* For every block whose native transactions have disjoint footprints, the *)
(* three workers together execute the block serially: each transaction     *)
(* takes effect at one moment, on the state of that moment; and the        *)
(* manager panics on no block that is in order.                            *)
THEOREM MultiWorkerIsSerial == Spec => ImplementsSerialBlock
<1>1. Inv => AllRunAtReturn
  <2>1. SUFFICES ASSUME Inv, mpc = "returned" PROVE \A i \in Index : outcome[i].run
    BY Zenon DEF AllRunAtReturn
  <2>2. Index = Elems(ret)
    BY Zenon, <2>1, ReturnedMeansDone
  <2>3. QED
    BY Zenon, <2>1, <2>2 DEF Inv, Results
<1>2. Spec => []Inv /\ []AllRunAtReturn
  BY <1>1, Invariance, PTL
<1>3. Inv => TypeOK
  BY Zenon DEF Inv
<1>4. Spec => []ZeroIsTaken
  BY <1>2, <1>3, ZeroInit, ZeroStep, PTL DEF Spec
<1>5. QED
  BY <1>2, <1>4, SerialInit, SerialStep, PTL DEF Spec, Serial!Spec, ImplementsSerialBlock

-----------------------------------------------------------------------------
(***************************************************************************)
(* No transaction of a block in order is discarded.                        *)
(***************************************************************************)

(* A batch made by a pointer that moves forward is in block order.         *)
LEMMA SortedAppend ==
  ASSUME NEW S \in SUBSET Int, NEW q \in Seq(S), Sorted(q),
         NEW x \in S, \A y \in Elems(q) : y < x
  PROVE  Sorted(Append(q, x))
<1>1. /\ Len(Append(q, x)) = Len(q) + 1 /\ Len(q) \in Nat
      /\ \A n \in 1 .. Len(q) : Append(q, x)[n] = q[n]
      /\ Append(q, x)[Len(q) + 1] = x
  OBVIOUS
<1>2. \A n \in 1 .. Len(q) : q[n] < x
  BY Zenon DEF Elems
<1>3. QED
  BY <1>1, <1>2 DEF Sorted

(* Its first transaction is the earliest, and the rest is in order.        *)
LEMMA SortedTail ==
  ASSUME NEW S \in SUBSET Int, NEW q \in Seq(S), q # <<>>, Sorted(q)
  PROVE  Sorted(Tail(q)) /\ \A y \in Elems(Tail(q)) : Head(q) < y
<1>1. /\ Len(q) \in Nat \ {0} /\ Head(q) = q[1]
      /\ Tail(q) \in Seq(S) /\ Len(Tail(q)) = Len(q) - 1
      /\ \A n \in 1 .. Len(q) - 1 : Tail(q)[n] = q[n + 1]
  OBVIOUS
<1>2. Sorted(Tail(q))
  BY <1>1 DEF Sorted
<1>3. \A n \in 1 .. Len(Tail(q)) : Head(q) < Tail(q)[n]
  BY <1>1 DEF Sorted
<1>4. QED
  BY <1>2, <1>3, Zenon DEF Elems

(* The worker that holds a transaction is loaded, or the manager is still  *)
(* filling its batch.                                                      *)
LEMMA HolderIsLoaded ==
  ASSUME Inv, NEW w \in Worker, NEW i, Holds(w, i)
  PROVE  /\ i \in Index /\ IsTaken(w, i)
         /\ loaded[w] \/ (cur = w /\ batch # <<>>)
<1>1. TypeOK /\ WorkerHolds /\ OneBatch /\ Flags /\ Batches
  BY Zenon DEF Inv
<1>2. /\ Elems(batch) \subseteq Index /\ Elems(job[w]) \subseteq Index
      /\ req[w] # <<>> => Elems(req[w][1]) \subseteq Index
  BY <1>1, BatchElems, Zenon DEF TypeOK, Batch
<1>3. i \in Index /\ IsTaken(w, i)
  BY <1>1, <1>2, Zenon DEF Holds, Batches, Taken
<1>4. CASE cur = w /\ i \in Elems(batch)
  BY <1>3, <1>4, ElemsEmpty, Zenon
<1>5. CASE req[w] # <<>>
  BY <1>1, <1>3, <1>5, Zenon DEF Flags, AtWork
<1>6. CASE i \in Elems(job[w])
  <2>1. wpc[w] # "idle"
    BY <1>1, <1>6, ElemsEmpty, Zenon DEF WorkerHolds
  <2>2. QED
    BY <2>1, <1>1, <1>3, Zenon DEF Flags, AtWork
<1>7. QED
  BY <1>3, <1>4, <1>5, <1>6, Zenon DEF Holds

(* Transactions of two workers that are out at the same time are a native  *)
(* Aptos and a native Ethereum one.                                        *)
LEMMA NativesApart ==
  ASSUME start \in Starts, NEW v \in Worker \ {"Cross"}, NEW w \in Worker \ {"Cross"},
         v # w, NEW i \in Index, NEW j \in Index,
         ScanningPointer(block[i]) = v, ScanningPointer(block[j]) = w
  PROVE  /\ block[i].sender # block[j].sender
         /\ block[i].writes \cap block[j].writes = {}
<1>1. \/ block[i].type = "AptosTx" /\ block[j].type = "EthereumTx"
      \/ block[j].type = "AptosTx" /\ block[i].type = "EthereumTx"
  BY Zenon DEF ScanningPointer, Worker
<1>2. i \in 1 .. Len(start.block) /\ j \in 1 .. Len(start.block)
      /\ block[i] = start.block[i] /\ block[j] = start.block[j]
  BY Zenon DEF block, Index
<1>3. QED
  BY <1>1, <1>2, NativeFootprintsDisjoint, ZenonT(40)

(* What two workers hold at the same time comes from different senders.    *)
SendersApart ==
  \A v, w \in Worker : \A i, j \in Index :
    Holds(v, i) /\ Holds(w, j) /\ block[i].sender = block[j].sender => v = w

(* The flags keep the batches of one sender with one worker.               *)
LEMMA HeldSendersApart == Inv => SendersApart
<1>1. SUFFICES ASSUME Inv, NEW v \in Worker, NEW w \in Worker, NEW i \in Index,
                      NEW j \in Index, Holds(v, i), Holds(w, j), v # w
               PROVE  block[i].sender # block[j].sender
  BY Zenon DEF SendersApart
<1>2. TypeOK /\ Flags
  BY <1>1, Zenon DEF Inv
<1>3. /\ loaded[v] \/ (cur = v /\ batch # <<>>)
      /\ loaded[w] \/ (cur = w /\ batch # <<>>)
  BY <1>1, HolderIsLoaded, Zenon
<1>4. v # "Cross" /\ w # "Cross"
  <2>1. batch # <<>> => /\ ~loaded["Cross"]
                        /\ cur = "Cross" => \A u \in Worker : ~loaded[u]
    BY <1>2, Zenon DEF Flags
  <2>2. loaded["Cross"] => \A u \in Worker \ {"Cross"} : ~loaded[u]
    BY <1>2, Zenon DEF Flags, Worker
  <2>3. ASSUME NEW a \in Worker, NEW b \in Worker, a # b,
               loaded[a] \/ (cur = a /\ batch # <<>>),
               loaded[b] \/ (cur = b /\ batch # <<>>)
        PROVE  a # "Cross"
    BY <2>1, <2>2, <2>3, Zenon
  <2>4. QED
    BY <1>1, <1>3, <2>3, Zenon
<1>5. ScanningPointer(block[i]) = v /\ ScanningPointer(block[j]) = w
  BY <1>1, HolderIsLoaded, Zenon DEF IsTaken
<1>6. QED
  BY <1>1, <1>2, <1>4, <1>5, NativesApart, Zenon DEF TypeOK

(* All that matters for the nonces is what is held: a step that neither    *)
(* takes nor finishes a transaction leaves it alone.                       *)
SameHeld == \A w \in Worker : \A i : Holds(w, i)' <=> Holds(w, i)

(* Sending a batch, receiving results and moving a pointer hand nothing    *)
(* out and take nothing back.                                              *)
LEMMA ManagerHolds ==
  ASSUME Inv, InBlockOrder, Manager, ~ScanTake
  PROVE  SameHeld /\ InBlockOrder'
<1>1. TypeOK /\ WorkerHolds /\ OneBatch /\ Flags
  BY Zenon DEF Inv
<1>2. job' = job
  BY Zenon DEF Manager, ScanPanic, ScanSkip, ScanWait, ScanEnd,
     SendTxnsToWorker, TryRecvResults, TryRecvNothing, workerVars
<1>3. CASE ScanPanic \/ ScanSkip \/ ScanWait \/ ScanEnd
  <2>1. UNCHANGED <<cur, batch, req>>
    BY <1>3, Zenon DEF ScanPanic, ScanSkip, ScanWait, ScanEnd
  <2>2. QED
    BY <2>1, <1>2, Zenon DEF SameHeld, Holds, InBlockOrder
<1>4. CASE TryRecvResults \/ TryRecvNothing
  <2>1. UNCHANGED <<batch, req>> /\ mpc = "recv"
    BY <1>4, Zenon DEF TryRecvResults, TryRecvNothing
  <2>2. Elems(batch) = {}
    BY <2>1, <1>1, ElemsEmpty, Zenon DEF Flags
  <2>3. QED
    BY <2>1, <2>2, <1>2, Zenon DEF SameHeld, Holds, InBlockOrder
<1>5. CASE SendTxnsToWorker
  <2>1. cur' = cur /\ batch' = <<>> /\ cur \in Worker
    BY <1>1, <1>5, Zenon DEF SendTxnsToWorker, TypeOK
  <2>2. Sorted(<<>>)
    BY DEF Sorted
  <2>3. CASE batch = <<>>
    <3>1. req' = req
      BY <1>5, <2>3, Zenon DEF SendTxnsToWorker
    <3>2. QED
      BY <3>1, <2>1, <2>3, <1>2, Zenon DEF SameHeld, Holds, InBlockOrder
  <2>4. CASE batch # <<>>
    <3>1. req[cur] = <<>> /\ job[cur] = <<>>
      BY <1>1, <2>1, <2>4, Zenon DEF Flags, AtWork, WorkerHolds
    <3>2. req' = [req EXCEPT ![cur] = Append(req[cur], batch)] /\ req \in [Worker -> Seq(Batch)]
          /\ batch \in Batch
      BY <1>1, <1>5, <2>4, Zenon DEF SendTxnsToWorker, TypeOK
    <3>3. Append(<<>>, batch) # <<>> /\ Append(<<>>, batch)[1] = batch
      OBVIOUS
    <3>4. /\ req'[cur] # <<>> /\ req'[cur][1] = batch
          /\ \A w \in Worker \ {cur} : req'[w] = req[w]
      BY <2>1, <3>1, <3>2, <3>3, Zenon
    <3>5. ASSUME NEW w \in Worker, NEW i
          PROVE  Holds(w, i)' <=> Holds(w, i)
      BY <3>1, <3>4, <2>1, <1>2, ElemsEmpty, Zenon DEF Holds
    <3>6. InBlockOrder'
      <4>1. \A w \in Worker : req'[w] # <<>> => Sorted(req'[w][1])
        BY <3>4, Zenon DEF InBlockOrder
      <4>2. Sorted(batch')
        BY <2>1, <2>2, Zenon
      <4>3. \A w \in Worker : Sorted(job'[w])
        BY <1>2, Zenon DEF InBlockOrder
      <4>4. QED
        BY <4>1, <4>2, <4>3, Zenon DEF InBlockOrder
    <3>7. QED
      BY <3>5, <3>6, Zenon DEF SameHeld
  <2>5. QED
    BY <2>3, <2>4, Zenon
<1>6. QED
  BY <1>3, <1>4, <1>5, Zenon DEF Manager

(* Nor does a worker that receives a batch, reads or replies.              *)
LEMMA WorkerHoldsSame ==
  ASSUME Inv, InBlockOrder, NEW w \in Worker, WorkerStep(w),
         ~PrologueDiscard(w), ~ApplyWrites(w)
  PROVE  SameHeld /\ InBlockOrder'
<1>1. TypeOK /\ WorkerHolds /\ OneBatch
  BY Zenon DEF Inv
<1>2. UNCHANGED <<cur, batch>>
  BY Zenon DEF WorkerStep, ReceiveContext, PrologueAccept, GetStateValue, DropView,
     SendReply, managerVars
<1>3. CASE ReceiveContext(w)
  <2>1. /\ req \in [Worker -> Seq(Batch)] /\ job \in [Worker -> Batch]
        /\ req[w] # <<>> /\ wpc[w] = "idle" /\ Len(req[w]) <= 1
    BY <1>1, <1>3, Zenon DEF ReceiveContext, TypeOK, OneBatch
  <2>2. job[w] = <<>>
    BY <1>1, <2>1, Zenon DEF WorkerHolds
  <2>3. Tail(req[w]) = <<>> /\ Head(req[w]) = req[w][1]
    BY <2>1, AtMostOne, Singleton, Zenon
  <2>4. /\ req'[w] = <<>> /\ job'[w] = req[w][1]
        /\ \A v \in Worker \ {w} : req'[v] = req[v] /\ job'[v] = job[v]
    BY <2>1, <2>3, <1>3, Zenon DEF ReceiveContext
  <2>5. ASSUME NEW v \in Worker, NEW i
        PROVE  Holds(v, i)' <=> Holds(v, i)
    BY <2>1, <2>2, <2>4, <1>2, ElemsEmpty, Zenon DEF Holds
  <2>6. InBlockOrder'
    BY <2>1, <2>4, <1>2, Zenon DEF InBlockOrder
  <2>7. QED
    BY <2>5, <2>6, Zenon DEF SameHeld
<1>4. CASE ~ReceiveContext(w)
  <2>1. UNCHANGED <<req, job>>
    BY <1>4, Zenon DEF WorkerStep, PrologueAccept, GetStateValue, DropView, SendReply
  <2>2. QED
    BY <2>1, <1>2, Zenon DEF SameHeld, Holds, InBlockOrder
<1>5. QED
  BY <1>3, <1>4, Zenon

(* Taking a transaction adds it, behind those that its worker holds.       *)
LEMMA TakeHolds ==
  ASSUME Inv, InBlockOrder, ScanTake
  PROVE  /\ InBlockOrder' /\ cur \in Worker /\ ptr[cur] \in Index
         /\ \A w \in Worker : \A i :
              Holds(w, i)' <=> Holds(w, i) \/ (w = cur /\ i = ptr[cur])
<1>1. TypeOK /\ Batches /\ Index = 1 .. Len(block)
  BY Zenon DEF Inv, Index
<1>2. Len(block) \in Nat \ {0}
  BY <1>1, BlockType, Zenon DEF TypeOK
<1>3. /\ cur \in Worker /\ ptr \in [Worker -> 1 .. Len(block) + 1] /\ batch \in Seq(Index)
      /\ UNCHANGED <<cur, req, job>> /\ batch' = Append(batch, ptr[cur])
      /\ ptr[cur] <= Len(block)
  BY <1>1, Zenon DEF TypeOK, Batch, ScanTake, Scanning, workerVars
<1>4. ptr[cur] \in Index
  <2>1. ptr[cur] \in 1 .. Len(block) + 1
    BY <1>3, Zenon
  <2>2. QED
    BY <2>1, <1>1, <1>2, <1>3
<1>5. Elems(batch') = Elems(batch) \cup {ptr[cur]}
  <2>1. Elems(Append(batch, ptr[cur])) = Elems(batch) \cup {ptr[cur]}
    <3>1. batch \in Seq(Index)
      BY <1>3, Zenon
    <3>2. QED
      BY <3>1, <1>4, ElemsAppend, SMTT(30)
  <2>2. QED
    BY <2>1, <1>3, Zenon
<1>6. Sorted(batch')
  <2>1. \A y \in Elems(batch) : y < ptr[cur]
    BY <1>1, <1>3, Zenon DEF Batches, Taken, IsTaken
  <2>2. Index \in SUBSET Int
    BY <1>1, <1>2
  <2>3. QED
    BY <2>1, <2>2, <1>3, <1>4, SortedAppend, Zenon DEF InBlockOrder
<1>7. InBlockOrder'
  BY <1>3, <1>6, Zenon DEF InBlockOrder
<1>8. ASSUME NEW w \in Worker, NEW i
      PROVE  Holds(w, i)' <=> Holds(w, i) \/ (w = cur /\ i = ptr[cur])
  BY <1>3, <1>5, Zenon DEF Holds
<1>9. QED
  BY <1>3, <1>4, <1>7, <1>8, Zenon

(* Finishing one takes out the first that its worker holds.                *)
LEMMA FinishHolds ==
  ASSUME Inv, InBlockOrder, NEW w \in Worker, wpc[w] \in {"prologue", "read"},
         FinishTxn(w), UNCHANGED <<managerVars, req>>
  PROVE  /\ InBlockOrder' /\ Head(job[w]) \in Index /\ Holds(w, Head(job[w]))
         /\ \A i : Holds(w, i) => i = Head(job[w]) \/ Head(job[w]) < i
         /\ \A v \in Worker : \A i :
              Holds(v, i)' <=> Holds(v, i) /\ i # Head(job[w])
<1>1. TypeOK /\ WorkerHolds /\ OneBatch /\ Flags /\ Batches /\ Index = 1 .. Len(block)
  BY Zenon DEF Inv, Index
<1>2. /\ job \in [Worker -> Seq(Index)] /\ job[w] # <<>> /\ job[w] \in Seq(Index)
      /\ UNCHANGED <<cur, batch>>
  BY <1>1, Zenon DEF TypeOK, Batch, WorkerHolds, managerVars
<1>3. PICK h \in Index : h = Head(job[w])
  BY <1>2, ElemsTail, Zenon
<1>4. /\ Elems(job[w]) = {h} \cup Elems(Tail(job[w]))
      /\ h \notin Elems(Tail(job[w]))
  BY <1>1, <1>2, <1>3, ElemsTail, Zenon DEF Batches, Taken
<1>5. /\ job'[w] = Tail(job[w])
      /\ \A v \in Worker \ {w} : job'[v] = job[v]
  BY <1>2, Zenon DEF FinishTxn
<1>6. req[w] = <<>> /\ (cur = w => batch = <<>>)
  <2>1. wpc[w] # "idle" /\ AtWork(w)
    BY Zenon DEF AtWork
  <2>2. QED
    BY <2>1, <1>1, Zenon DEF OneBatch, Flags
<1>7. \A i : Holds(w, i) <=> i \in Elems(job[w])
  BY <1>6, ElemsEmpty, Zenon DEF Holds
<1>8. \A i : Holds(w, i)' <=> i \in Elems(Tail(job[w]))
  BY <1>2, <1>5, <1>6, ElemsEmpty, Zenon DEF Holds
<1>9. Sorted(Tail(job[w])) /\ \A y \in Elems(Tail(job[w])) : h < y
  <2>1. Index \in SUBSET Int
    BY <1>1
  <2>2. QED
    <3>1. job[w] \in Seq(Index) /\ job[w] # <<>> /\ Sorted(job[w])
      BY <1>2, Zenon DEF InBlockOrder
    <3>2. Sorted(Tail(job[w])) /\ \A y \in Elems(Tail(job[w])) : Head(job[w]) < y
      BY <3>1, <2>1, SortedTail, Zenon
    <3>3. QED
      BY <3>2, <1>3, Zenon
<1>10. InBlockOrder'
  BY <1>2, <1>5, <1>9, Zenon DEF InBlockOrder
<1>11. ASSUME NEW v \in Worker, NEW i
       PROVE  Holds(v, i)' <=> Holds(v, i) /\ i # h
  <2>1. CASE v = w
    BY <2>1, <1>4, <1>7, <1>8, Zenon
  <2>2. CASE v # w
    <3>1. Holds(v, i)' <=> Holds(v, i)
      BY <2>2, <1>2, <1>5, Zenon DEF Holds
    <3>2. Holds(v, i) => ScanningPointer(block[i]) = v
      BY HolderIsLoaded, Zenon DEF IsTaken
    <3>3. ScanningPointer(block[h]) = w
      BY <1>4, <1>7, HolderIsLoaded, Zenon DEF IsTaken
    <3>4. QED
      BY <3>1, <3>2, <3>3, <2>2, Zenon
  <2>3. QED
    BY <2>1, <2>2, Zenon
<1>12. QED
  BY <1>3, <1>4, <1>7, <1>9, <1>10, <1>11, Zenon

-----------------------------------------------------------------------------
(* A step that queues nothing and runs nothing keeps the nonces in order.  *)
LEMMA NoncesSame ==
  ASSUME NonceInv, UNCHANGED <<start, prevNonce, seqNo, outcome>>,
         \A s, i : QueuedFrom(s, i)' <=> QueuedFrom(s, i)
  PROVE  NonceInv'
<1>1. block' = block /\ Index' = Index /\ (NonceMapAgrees' <=> NonceMapAgrees)
  BY Zenon DEF block, Index, NonceMapAgrees
<1>2. SUFFICES ASSUME NonceMapAgrees PROVE NewestIsQueued' /\ Consecutive' /\ AllKept'
  BY <1>1, Zenon DEF NonceInv
<1>3. NewestIsQueued /\ Consecutive /\ AllKept
  BY <1>2, Zenon DEF NonceInv
<1>4. NewestIsQueued'
  BY <1>1, <1>3, Zenon DEF NewestIsQueued
<1>5. Consecutive'
  <2>1. \A s, i : InSequence(s, i) => InSequence(s, i)'
    BY <1>1, Zenon DEF InSequence
  <2>2. QED
    BY <2>1, <1>1, <1>3, Zenon DEF Consecutive
<1>6. AllKept'
  BY <1>1, <1>3, Zenon DEF AllKept
<1>7. QED
  BY <1>4, <1>5, <1>6, Zenon

(* What is queued follows what is held.                                    *)
LEMMA HeldIsQueued ==
  ASSUME SameHeld, start' = start
  PROVE  \A s, i : QueuedFrom(s, i)' <=> QueuedFrom(s, i)
BY Zenon DEF SameHeld, QueuedFrom, block

(* A pointer takes the nonce after the newest: the transaction before it,  *)
(* if it has not run, is in the same batch.                                *)
LEMMA NoncesTake ==
  ASSUME Inv, SendersApart', InBlockOrder, NonceInv, ScanTake
  PROVE  NonceInv'
<1>1. TypeOK
  BY Zenon DEF Inv
<1>2. /\ start' = start /\ block' = block /\ Index' = Index
      /\ UNCHANGED <<cur, seqNo, outcome>> /\ (NonceMapAgrees' <=> NonceMapAgrees)
  BY Zenon DEF ScanTake, stateVars, block, Index, NonceMapAgrees
<1>3. PICK t \in Index : t = ptr[cur]
  BY TakeHolds, Zenon
<1>4. PICK p \in Worker :
        /\ p = cur
        /\ \A w \in Worker : \A i : Holds(w, i)' <=> Holds(w, i) \/ (w = p /\ i = t)
  BY <1>3, TakeHolds, Zenon
<1>5. Scanned = block[t]
  BY <1>3, Zenon DEF Scanned
<1>6. CASE ~IsUser(block[t])
  <2>1. prevNonce' = prevNonce
    BY <1>5, <1>6, Zenon DEF ScanTake
  <2>2. \A s, i : QueuedFrom(s, i)' <=> QueuedFrom(s, i)
    BY <1>2, <1>4, <1>6, Zenon DEF QueuedFrom
  <2>3. QED
    BY <2>1, <2>2, <1>2, NoncesSame, Zenon
<1>7. CASE IsUser(block[t])
  <2>1. SUFFICES ASSUME NonceMapAgrees PROVE NewestIsQueued' /\ Consecutive' /\ AllKept'
    BY <1>2, Zenon DEF NonceInv
  <2>2. NewestIsQueued /\ Consecutive /\ AllKept
    BY <2>1, Zenon DEF NonceInv
  <2>3. PICK s0 \in Senders : s0 = block[t].sender
    BY <1>1, BlockType, Zenon DEF TypeOK
  <2>4. /\ prevNonce \in [Senders -> Nat \cup {NoNonce}]
        /\ prevNonce' = [prevNonce EXCEPT ![s0] = block[t].nonce]
        /\ prevNonce[s0] = block[t].nonce - 1
    BY <1>1, <1>5, <1>7, <2>3, Zenon DEF TypeOK, ScanTake, CanTake, NonceIsNext
  <2>5. \A i \in Index : block[i].nonce \in Nat
    BY <1>1, BlockType, Zenon DEF TypeOK
  <2>6. /\ prevNonce'[s0] = block[t].nonce
        /\ \A s \in Senders \ {s0} : prevNonce'[s] = prevNonce[s]
    BY <2>4, Zenon
  <2>7. prevNonce[s0] \in Int /\ block[t].nonce = prevNonce[s0] + 1
    <3>1. prevNonce[s0] \in Nat \cup {-1} /\ block[t].nonce \in Nat
      BY <2>4, <2>5, Zenon DEF NoNonce
    <3>2. QED
      BY <3>1, <2>4
  <2>8. \A s, i : QueuedFrom(s, i)' <=> QueuedFrom(s, i) \/ (s = s0 /\ i = t)
    BY <1>2, <1>4, <1>7, <2>3, Zenon DEF QueuedFrom
  <2>9. NewestIsQueued'
    <3>1. SUFFICES ASSUME NEW s \in Senders
                   PROVE  \/ seqNo[s] = prevNonce'[s] + 1
                          \/ \E i \in Index : QueuedFrom(s, i)' /\ block[i].nonce = prevNonce'[s]
      BY <1>2, Zenon DEF NewestIsQueued
    <3>2. CASE s = s0
      BY <3>2, <2>6, <2>8, Zenon
    <3>3. CASE s # s0
      BY <3>3, <2>2, <2>6, <2>8, Zenon DEF NewestIsQueued
    <3>4. QED
      BY <3>2, <3>3, Zenon
  <2>10. Consecutive'
    <3>1. SUFFICES ASSUME NEW s \in Senders, NEW i \in Index, QueuedFrom(s, i)'
                   PROVE  InSequence(s, i)'
      BY <1>2, Zenon DEF Consecutive
    <3>2. CASE s # s0
      <4>1. InSequence(s, i)
        BY <3>1, <3>2, <2>2, <2>8, Zenon DEF Consecutive
      <4>2. prevNonce'[s] = prevNonce[s] /\ \A j : QueuedFrom(s, j)' <=> QueuedFrom(s, j)
        BY <3>2, <2>6, <2>8, Zenon
      <4>3. QED
        BY <4>1, <4>2, <1>2, Zenon DEF InSequence
    <3>3. CASE s = s0 /\ QueuedFrom(s, i)
      <4>1. /\ block[i].nonce <= prevNonce[s0]
            /\ \/ block[i].nonce = seqNo[s]
               \/ \E j \in Index : /\ QueuedFrom(s, j) /\ j < i
                                   /\ block[j].nonce = block[i].nonce - 1
            /\ \A j \in Index :
                 QueuedFrom(s, j) /\ block[j].nonce = block[i].nonce => j = i
        BY <3>3, <2>2, Zenon DEF Consecutive, InSequence
      <4>2. block[i].nonce <= prevNonce'[s] /\ block[i].nonce # block[t].nonce
        BY <4>1, <3>3, <2>5, <2>6, <2>7
      <4>3. QED
        BY <4>1, <4>2, <1>2, <2>8, Zenon DEF InSequence
    <3>4. CASE s = s0 /\ i = t
      <4>1. block[i].nonce <= prevNonce'[s]
        BY <3>4, <2>5, <2>6
      <4>2. ASSUME NEW j \in Index, QueuedFrom(s0, j)
            PROVE  j < t /\ block[j].nonce # block[t].nonce
        <5>1. PICK v \in Worker : Holds(v, j) /\ block[j].sender = s0
          BY <4>2, Zenon DEF QueuedFrom
        <5>2. Holds(v, j)' /\ Holds(p, t)'
          BY <5>1, <1>4, Zenon
        <5>3. v = p
          BY <5>1, <5>2, <1>2, <1>4, <2>3, Zenon DEF SendersApart
        <5>4. j < t
          BY <5>1, <5>3, <1>3, <1>4, HolderIsLoaded, Zenon DEF IsTaken
        <5>5. block[j].nonce <= prevNonce[s0]
          BY <4>2, <2>2, Zenon DEF Consecutive, InSequence
        <5>6. block[j].nonce # block[t].nonce
          BY <5>5, <2>5, <2>7
        <5>7. QED
          BY <5>4, <5>6, Zenon
      <4>3. \/ block[i].nonce = seqNo[s]
            \/ \E j \in Index : /\ QueuedFrom(s, j)' /\ j < i
                                /\ block[j].nonce = block[i].nonce - 1
        <5>1. CASE seqNo[s0] = prevNonce[s0] + 1
          BY <5>1, <3>4, <2>7, Zenon
        <5>2. CASE \E j \in Index : QueuedFrom(s0, j) /\ block[j].nonce = prevNonce[s0]
          BY <5>2, <4>2, <3>4, <2>4, <2>8, Zenon
        <5>3. QED
          BY <5>1, <5>2, <2>2, Zenon DEF NewestIsQueued
      <4>4. \A j \in Index : QueuedFrom(s, j)' /\ block[j].nonce = block[i].nonce => j = i
        BY <4>2, <3>4, <2>8, Zenon
      <4>5. QED
        BY <4>1, <4>3, <4>4, <1>2, Zenon DEF InSequence
    <3>5. QED
      BY <3>1, <3>2, <3>3, <3>4, <2>8, Zenon
  <2>11. AllKept'
    BY <1>2, <2>2, Zenon DEF AllKept
  <2>12. QED
    BY <2>9, <2>10, <2>11, Zenon
<1>8. QED
  BY <1>6, <1>7, Zenon

(* The first transaction that a worker holds has the nonce that the state  *)
(* expects: what precedes it has run.                                      *)
LEMMA HeadIsNext ==
  ASSUME Inv, InBlockOrder, Consecutive, NEW w \in Worker,
         wpc[w] \in {"prologue", "read"}, FinishTxn(w), UNCHANGED <<managerVars, req>>,
         IsUser(Executing(w))
  PROVE  Executing(w).nonce = seqNo[Executing(w).sender]
<1>1. PICK h \in Index : h = Head(job[w])
  BY FinishHolds, Zenon
<1>2. /\ Holds(w, h) /\ \A i : Holds(w, i) => i = h \/ h < i
      /\ Executing(w) = block[h] /\ SendersApart
  BY <1>1, FinishHolds, HeldSendersApart, Zenon DEF Executing
<1>3. Index = 1 .. Len(block) /\ Len(block) \in Nat /\ block[h].sender \in Senders
  BY BlockType, Zenon DEF Inv, TypeOK, Index
<1>4. QueuedFrom(block[h].sender, h)
  BY <1>2, Zenon DEF QueuedFrom
<1>5. ASSUME NEW j \in Index, QueuedFrom(block[h].sender, j), j < h
      PROVE  FALSE
  <2>1. Holds(w, j)
    BY <1>2, <1>5, Zenon DEF QueuedFrom, SendersApart
  <2>2. j = h \/ h < j
    BY <2>1, <1>2, Zenon
  <2>3. QED
    BY <2>2, <1>3, <1>5
<1>6. QED
  BY <1>2, <1>3, <1>4, <1>5, Zenon DEF Consecutive, InSequence

(* The prologue accepts it, and the state then expects the one after it.   *)
LEMMA NoncesFinish ==
  ASSUME Inv, InBlockOrder, NonceInv, NEW w \in Worker,
         PrologueDiscard(w) \/ ApplyWrites(w)
  PROVE  NonceInv'
<1>1. TypeOK
  BY Zenon DEF Inv
<1>2. /\ start' = start /\ block' = block /\ Index' = Index
      /\ UNCHANGED <<managerVars, req, prevNonce>> /\ (NonceMapAgrees' <=> NonceMapAgrees)
      /\ wpc[w] \in {"prologue", "read"} /\ FinishTxn(w)
  BY Zenon DEF PrologueDiscard, ApplyWrites, managerVars, block, Index, NonceMapAgrees
<1>3. SUFFICES ASSUME NonceMapAgrees PROVE NewestIsQueued' /\ Consecutive' /\ AllKept'
  BY <1>2, Zenon DEF NonceInv
<1>4. NewestIsQueued /\ Consecutive /\ AllKept
  BY <1>3, Zenon DEF NonceInv
<1>5. IsUser(Executing(w)) => Executing(w).nonce = seqNo[Executing(w).sender]
  BY <1>2, <1>4, HeadIsNext, Zenon
<1>6. ApplyWrites(w)
  BY <1>5, Zenon DEF PrologueDiscard
<1>7. PICK h \in Index : h = Head(job[w])
  BY <1>2, FinishHolds, Zenon
<1>8. /\ Holds(w, h) /\ Executing(w) = block[h]
      /\ \A v \in Worker : \A i : Holds(v, i)' <=> Holds(v, i) /\ i # h
  BY <1>2, <1>7, FinishHolds, Zenon DEF Executing
<1>9. \A s, i : QueuedFrom(s, i)' <=> QueuedFrom(s, i) /\ i # h
  BY <1>2, <1>8, Zenon DEF QueuedFrom
<1>10. AllKept'
  <2>1. /\ DOMAIN outcome = Index
        /\ outcome' = [outcome EXCEPT ![h] = [kept |-> TRUE, run |-> TRUE, read |-> snap[w]]]
    BY <1>1, <1>6, <1>7, Zenon DEF TypeOK, ApplyWrites
  <2>2. outcome'[h].kept /\ \A i \in Index \ {h} : outcome'[i] = outcome[i]
    BY <2>1, Zenon
  <2>3. QED
    BY <2>2, <1>2, <1>4, Zenon DEF AllKept
<1>11. CASE ~IsUser(block[h])
  <2>1. seqNo' = seqNo /\ \A s, i : QueuedFrom(s, i)' <=> QueuedFrom(s, i)
    BY <1>6, <1>8, <1>9, <1>11, Zenon DEF ApplyWrites, QueuedFrom
  <2>2. QED
    <3>1. NewestIsQueued'
      BY <2>1, <1>2, <1>4, Zenon DEF NewestIsQueued
    <3>2. \A s, i : InSequence(s, i) => InSequence(s, i)'
      BY <2>1, <1>2, Zenon DEF InSequence
    <3>3. QED
      BY <3>1, <3>2, <2>1, <1>2, <1>4, <1>10, Zenon DEF Consecutive
<1>12. CASE IsUser(block[h])
  <2>1. PICK s0 \in Senders : s0 = block[h].sender
    BY <1>1, BlockType, Zenon DEF TypeOK
  <2>2. /\ seqNo' = [seqNo EXCEPT ![s0] = block[h].nonce + 1] /\ seqNo \in [Senders -> Nat]
        /\ block[h].nonce = seqNo[s0] /\ QueuedFrom(s0, h)
        /\ prevNonce \in [Senders -> Nat \cup {NoNonce}]
    BY <1>1, <1>5, <1>6, <1>8, <1>12, <2>1, Zenon DEF TypeOK, ApplyWrites, QueuedFrom
  <2>3. /\ seqNo'[s0] = block[h].nonce + 1
        /\ \A s \in Senders \ {s0} : seqNo'[s] = seqNo[s]
    BY <2>2, Zenon
  <2>4. \A i \in Index : block[i].nonce \in Nat
    BY <1>1, BlockType, Zenon DEF TypeOK
  <2>5. \A s \in Senders \ {s0} : \A i : QueuedFrom(s, i)' <=> QueuedFrom(s, i)
    BY <1>9, <2>1, Zenon DEF QueuedFrom
  <2>6. NewestIsQueued'
    <3>1. SUFFICES ASSUME NEW s \in Senders
                   PROVE  \/ seqNo'[s] = prevNonce[s] + 1
                          \/ \E i \in Index : QueuedFrom(s, i)' /\ block[i].nonce = prevNonce[s]
      BY <1>2, Zenon DEF NewestIsQueued
    <3>2. CASE s # s0
      BY <3>2, <2>3, <2>5, <1>4, Zenon DEF NewestIsQueued
    <3>3. CASE s = s0
      <4>1. seqNo[s0] # prevNonce[s0] + 1
        <5>1. block[h].nonce <= prevNonce[s0]
          BY <2>2, <1>4, Zenon DEF Consecutive, InSequence
        <5>2. prevNonce[s0] \in Nat \cup {-1} /\ block[h].nonce \in Nat
          BY <2>2, <2>4, Zenon DEF NoNonce
        <5>3. QED
          BY <5>1, <5>2, <2>2
      <4>2. PICK i \in Index : QueuedFrom(s0, i) /\ block[i].nonce = prevNonce[s0]
        BY <4>1, <1>4, Zenon DEF NewestIsQueued
      <4>3. QED
        BY <4>2, <3>3, <2>3, <1>9, Zenon
    <3>4. QED
      BY <3>2, <3>3, Zenon
  <2>7. Consecutive'
    <3>1. SUFFICES ASSUME NEW s \in Senders, NEW i \in Index, QueuedFrom(s, i)'
                   PROVE  InSequence(s, i)'
      BY <1>2, Zenon DEF Consecutive
    <3>2. CASE s # s0
      <4>1. InSequence(s, i)
        BY <3>1, <3>2, <2>5, <1>4, Zenon DEF Consecutive
      <4>2. seqNo'[s] = seqNo[s] /\ \A j : QueuedFrom(s, j)' <=> QueuedFrom(s, j)
        BY <3>2, <2>3, <2>5, Zenon
      <4>3. QED
        BY <4>1, <4>2, <1>2, Zenon DEF InSequence
    <3>3. CASE s = s0
      <4>1. QueuedFrom(s0, i) /\ i # h
        BY <3>1, <3>3, <1>9, Zenon
      <4>2. /\ block[i].nonce <= prevNonce[s0]
            /\ \/ block[i].nonce = seqNo[s0]
               \/ \E j \in Index : /\ QueuedFrom(s0, j) /\ j < i
                                   /\ block[j].nonce = block[i].nonce - 1
            /\ \A j \in Index :
                 QueuedFrom(s0, j) /\ block[j].nonce = block[i].nonce => j = i
        BY <4>1, <1>4, Zenon DEF Consecutive, InSequence
      <4>3. block[i].nonce # seqNo[s0]
        BY <4>1, <4>2, <2>2, Zenon
      <4>4. PICK j \in Index : /\ QueuedFrom(s0, j) /\ j < i
                               /\ block[j].nonce = block[i].nonce - 1
        BY <4>2, <4>3, Zenon
      <4>5. CASE j = h
        <5>1. block[i].nonce = seqNo'[s0]
          BY <4>4, <4>5, <2>3, <2>4
        <5>2. QED
          BY <5>1, <4>2, <3>3, <1>2, <1>9, Zenon DEF InSequence
      <4>6. CASE j # h
        BY <4>2, <4>4, <4>6, <3>3, <1>2, <1>9, Zenon DEF InSequence
      <4>7. QED
        BY <4>5, <4>6, Zenon
    <3>4. QED
      BY <3>2, <3>3, Zenon
  <2>8. QED
    BY <2>6, <2>7, <1>10, Zenon
<1>13. QED
  BY <1>11, <1>12, Zenon

(* At the start nothing is queued, and map and state agree.                *)
LEMMA NonceInit == Init => InBlockOrder /\ NonceInv
<1>1. SUFFICES ASSUME Init PROVE InBlockOrder /\ NonceInv
  BY Zenon
<1>2. /\ batch = <<>> /\ \A w \in Worker : req[w] = <<>> /\ job[w] = <<>>
      /\ prevNonce = start.prevNonce /\ seqNo = start.seqNo
      /\ \A i \in Index : ~outcome[i].run
  BY <1>1, Zenon DEF Init, NotRun, Index, block
<1>3. InBlockOrder
  <2>1. Sorted(<<>>)
    BY DEF Sorted
  <2>2. QED
    BY <2>1, <1>2, Zenon DEF InBlockOrder
<1>4. \A s, i : ~QueuedFrom(s, i)
  BY <1>2, ElemsEmpty, Zenon DEF QueuedFrom, Holds
<1>5. ASSUME NonceMapAgrees
      PROVE  NewestIsQueued
  <2>1. /\ start.prevNonce \in [Senders -> Nat \cup {-1}]
        /\ start.seqNo \in [Senders -> Nat]
    BY <1>1, BlockType, Zenon DEF Init, NoNonce
  <2>2. QED
    BY <2>1, <1>2, <1>5 DEF NewestIsQueued, NonceMapAgrees
<1>6. QED
  BY <1>2, <1>3, <1>4, <1>5, Zenon DEF NonceInv, Consecutive, AllKept

(* Every step keeps the queues in block order and the nonces in sequence.  *)
LEMMA NonceStep ==
  Inv /\ SendersApart' /\ InBlockOrder /\ NonceInv /\ [Next]_vars
    => InBlockOrder' /\ NonceInv'
<1>1. SUFFICES ASSUME Inv, SendersApart', InBlockOrder, NonceInv, [Next]_vars
               PROVE  InBlockOrder' /\ NonceInv'
  BY Zenon
<1>2. start' = start
  BY <1>1, SameBlock, Zenon
<1>3. CASE ScanTake
  BY <1>1, <1>3, TakeHolds, NoncesTake, Zenon
<1>4. CASE Manager /\ ~ScanTake
  <2>1. SameHeld /\ InBlockOrder'
    BY <1>1, <1>4, ManagerHolds, Zenon
  <2>2. UNCHANGED <<prevNonce, seqNo, outcome>>
    BY <1>4, Zenon DEF Manager, ScanPanic, ScanSkip, ScanWait, ScanEnd,
       SendTxnsToWorker, TryRecvResults, TryRecvNothing, stateVars
  <2>3. QED
    BY <2>1, <2>2, <1>1, <1>2, HeldIsQueued, NoncesSame, Zenon
<1>5. ASSUME NEW w \in Worker, WorkerStep(w)
      PROVE  InBlockOrder' /\ NonceInv'
  <2>1. CASE PrologueDiscard(w) \/ ApplyWrites(w)
    <3>1. wpc[w] \in {"prologue", "read"} /\ FinishTxn(w) /\ UNCHANGED <<managerVars, req>>
      BY <2>1, Zenon DEF PrologueDiscard, ApplyWrites
    <3>2. QED
      BY <3>1, <2>1, <1>1, FinishHolds, NoncesFinish, Zenon
  <2>2. CASE ~PrologueDiscard(w) /\ ~ApplyWrites(w)
    <3>1. SameHeld /\ InBlockOrder'
      BY <1>1, <1>5, <2>2, WorkerHoldsSame, Zenon
    <3>2. UNCHANGED <<prevNonce, seqNo, outcome>>
      BY <1>5, <2>2, Zenon DEF WorkerStep, ReceiveContext, PrologueAccept, GetStateValue,
         DropView, SendReply, managerVars, stateVars
    <3>3. QED
      BY <3>1, <3>2, <1>1, <1>2, HeldIsQueued, NoncesSame, Zenon
  <2>3. QED
    BY <2>1, <2>2, Zenon
<1>6. CASE UNCHANGED vars
  <2>1. UNCHANGED <<cur, batch, req, job, prevNonce, seqNo, outcome>>
    BY <1>6, Zenon DEF vars, managerVars, workerVars, stateVars
  <2>2. SameHeld /\ InBlockOrder'
    BY <2>1, <1>1, Zenon DEF SameHeld, Holds, InBlockOrder
  <2>3. QED
    BY <2>1, <2>2, <1>1, <1>2, HeldIsQueued, NoncesSame, Zenon
<1>7. QED
  BY <1>1, <1>3, <1>4, <1>5, <1>6, Zenon DEF Next, Terminated

(* In every block whose nonce map agrees with the sequence numbers, every  *)
(* transaction that a worker runs is kept: the map runs ahead of the state *)
(* by exactly what is queued, and each queue is in nonce order.            *)
THEOREM NonceInvariance == Spec => [](InBlockOrder /\ NonceInv)
<1>1. Inv' => SendersApart'
  BY HeldSendersApart, PTL
<1>2. Inv /\ Inv' /\ InBlockOrder /\ NonceInv /\ [Next]_vars => InBlockOrder' /\ NonceInv'
  BY <1>1, NonceStep, Zenon
<1>3. QED
  BY <1>2, NonceInit, Invariance, PTL DEF Spec

(* In a block in order no transaction is discarded.                        *)
THEOREM NoTransactionIsDiscarded == Spec => []NoneDiscarded
<1>1. NonceInv => NoneDiscarded
  BY Zenon DEF NonceInv, NoneDiscarded, WellFormed, NonceMapAgrees, AllKept
<1>2. QED
  BY <1>1, NonceInvariance, PTL

-----------------------------------------------------------------------------
(***************************************************************************)
(* The outputs, in the order they are received, replay the state.          *)
(***************************************************************************)
(* A new result joins the results behind all that are there.               *)
LEMMA PrecedesAppend ==
  ASSUME NEW S, NEW q \in Seq(S), NEW x \in S
  PROVE  /\ \A j, i : Precedes(q, j, i) => Precedes(Append(q, x), j, i)
         /\ \A j \in Elems(q) : Precedes(Append(q, x), j, x)
<1>1. /\ Len(Append(q, x)) = Len(q) + 1 /\ Len(q) \in Nat
      /\ \A n \in 1 .. Len(q) : Append(q, x)[n] = q[n]
      /\ Append(q, x)[Len(q) + 1] = x
  OBVIOUS
<1>2. /\ \A n \in 1 .. Len(q) : n \in 1 .. Len(Append(q, x)) /\ n < Len(q) + 1
      /\ Len(q) + 1 \in 1 .. Len(Append(q, x))
  BY <1>1
<1>3. QED
  BY <1>1, <1>2, Zenon DEF Precedes, Elems

(* Received results join the outputs in their own order, behind all that   *)
(* was received before.                                                    *)
LEMMA PrecedesConcat ==
  ASSUME NEW S, NEW p \in Seq(S), NEW q \in Seq(S)
  PROVE  /\ \A j, i : Precedes(p, j, i) => Precedes(p \o q, j, i)
         /\ \A j, i : Precedes(q, j, i) => Precedes(p \o q, j, i)
         /\ \A j \in Elems(p), i \in Elems(q) : Precedes(p \o q, j, i)
<1>1. /\ Len(p \o q) = Len(p) + Len(q) /\ Len(p) \in Nat /\ Len(q) \in Nat
      /\ \A n \in 1 .. Len(p) : (p \o q)[n] = p[n]
      /\ \A n \in 1 .. Len(q) : (p \o q)[Len(p) + n] = q[n]
  OBVIOUS
<1>2. /\ \A n \in 1 .. Len(p) : n \in 1 .. Len(p \o q)
      /\ \A n \in 1 .. Len(q) : Len(p) + n \in 1 .. Len(p \o q)
      /\ \A m, n \in 1 .. Len(q) : m < n => Len(p) + m < Len(p) + n
      /\ \A m \in 1 .. Len(p), n \in 1 .. Len(q) : m < Len(p) + n
  BY <1>1
<1>3. ASSUME NEW j, NEW i, Precedes(p, j, i)
      PROVE  Precedes(p \o q, j, i)
  BY <1>1, <1>2, <1>3, Zenon DEF Precedes
<1>4. ASSUME NEW j, NEW i, Precedes(q, j, i)
      PROVE  Precedes(p \o q, j, i)
  BY <1>1, <1>2, <1>4, Zenon DEF Precedes
<1>5. ASSUME NEW j \in Elems(p), NEW i \in Elems(q)
      PROVE  Precedes(p \o q, j, i)
  BY <1>1, <1>2, Zenon DEF Precedes, Elems
<1>6. QED
  BY <1>3, <1>4, <1>5, Zenon

(* What has an order in a sequence is in it.                               *)
LEMMA PrecedesElems ==
  ASSUME NEW q, NEW i, NEW j, Precedes(q, j, i)
  PROVE  j \in Elems(q) /\ i \in Elems(q)
BY Zenon DEF Precedes, Elems

(* No step turns around two outputs whose order is settled, and none loses *)
(* a result.                                                               *)
OrderIsKept == \A j, i : OutputBefore(j, i) => OutputBefore(j, i)'

(* A step that moves no result and runs nothing.                           *)
LEMMA OrderSame ==
  ASSUME ResultsOnTheWay, UNCHANGED <<start, ret, res, reply, outcome>>
  PROVE  OrderIsKept /\ ResultsOnTheWay'
BY Zenon DEF OrderIsKept, OutputBefore, ResultsOnTheWay, ResultOf, block, Index

(* try_recv: the results of one reply go to the end of the outputs.        *)
LEMMA OrderRecv ==
  ASSUME Inv, ResultsOnTheWay, TryRecvResults
  PROVE  OrderIsKept /\ ResultsOnTheWay'
<1>1. /\ reply \in Seq(Reply) /\ ret \in Seq(Index) /\ reply # <<>>
      /\ reply' = Tail(reply) /\ ret' = ret \o Head(reply).results
      /\ UNCHANGED <<start, res, outcome>> /\ block' = block /\ Index' = Index
  BY Zenon DEF Inv, TypeOK, Batch, TryRecvResults, workerVars, stateVars, block, Index
<1>2. PICK msg \in Reply : msg = Head(reply)
  BY <1>1, ElemsTail, Zenon
<1>3. msg.results \in Seq(Index) /\ ret' = ret \o msg.results
  BY <1>1, <1>2, Zenon DEF Reply, Batch
<1>4. \A n \in 1 .. Len(reply) :
        \/ reply[n] = msg
        \/ \E m \in 1 .. Len(reply') : reply'[m] = reply[n]
  <2>1. /\ Len(reply) \in Nat \ {0} /\ msg = reply[1]
        /\ Len(reply') = Len(reply) - 1
        /\ \A n \in 1 .. Len(reply) - 1 : reply'[n] = reply[n + 1]
    BY <1>1, <1>2
  <2>2. \A n \in 2 .. Len(reply) : n - 1 \in 1 .. Len(reply') /\ reply'[n - 1] = reply[n]
    BY <2>1
  <2>3. \A n \in 1 .. Len(reply) : n = 1 \/ n \in 2 .. Len(reply)
    BY <2>1
  <2>4. QED
    BY <2>1, <2>2, <2>3, Zenon
<1>5. /\ Elems(ret') = Elems(ret) \cup Elems(msg.results)
      /\ \A j, i : Precedes(ret, j, i) => Precedes(ret', j, i)
      /\ \A j, i : Precedes(msg.results, j, i) => Precedes(ret', j, i)
      /\ \A j \in Elems(ret), i \in Elems(msg.results) : Precedes(ret', j, i)
  <2>1. ret \in Seq(Index) /\ msg.results \in Seq(Index)
    BY <1>1, <1>3, Zenon
  <2>2. Elems(ret \o msg.results) = Elems(ret) \cup Elems(msg.results)
    BY <2>1, ElemsConcat, SMTT(30)
  <2>3. /\ \A j, i : Precedes(ret, j, i) => Precedes(ret \o msg.results, j, i)
        /\ \A j, i : Precedes(msg.results, j, i) => Precedes(ret \o msg.results, j, i)
        /\ \A j \in Elems(ret), i \in Elems(msg.results) : Precedes(ret \o msg.results, j, i)
    BY <2>1, PrecedesConcat, Zenon
  <2>4. QED
    BY <2>2, <2>3, <1>3, Zenon
<1>6. ASSUME NEW j, NEW i, OutputBefore(j, i)
      PROVE  OutputBefore(j, i)'
  <2>1. CASE j \in Elems(ret) /\ i \notin Elems(ret)
    BY <2>1, <1>5, Zenon DEF OutputBefore
  <2>2. CASE Precedes(ret, j, i)
    BY <2>2, <1>5, Zenon DEF OutputBefore
  <2>3. CASE \E w \in Worker : Precedes(res[w], j, i)
    BY <2>3, <1>1, Zenon DEF OutputBefore
  <2>4. CASE \E n \in 1 .. Len(reply) : Precedes(reply[n].results, j, i)
    <3>1. PICK n \in 1 .. Len(reply) : Precedes(reply[n].results, j, i)
      BY <2>4, Zenon
    <3>2. CASE reply[n] = msg
      BY <3>1, <3>2, <1>5, Zenon DEF OutputBefore
    <3>3. CASE \E m \in 1 .. Len(reply') : reply'[m] = reply[n]
      BY <3>1, <3>3, Zenon DEF OutputBefore
    <3>4. QED
      BY <3>2, <3>3, <1>4, Zenon
  <2>5. QED
    BY <1>6, <2>1, <2>2, <2>3, <2>4, Zenon DEF OutputBefore
<1>7. ResultsOnTheWay'
  <2>1. SUFFICES ASSUME NEW i \in Index, outcome[i].run
                 PROVE  i \in Elems(ret') \/ ResultOf(ScanningPointer(block[i]), i)'
    BY <1>1, Zenon DEF ResultsOnTheWay
  <2>2. PICK w : w = ScanningPointer(block[i])
    BY Zenon
  <2>3. i \in Elems(ret) \/ ResultOf(w, i)
    BY <2>1, <2>2, Zenon DEF ResultsOnTheWay
  <2>4. ASSUME NEW n \in 1 .. Len(reply), reply[n].worker = w, i \in Elems(reply[n].results)
        PROVE  i \in Elems(ret') \/ ResultOf(w, i)'
    BY <2>4, <1>4, <1>5, Zenon DEF ResultOf
  <2>5. i \in Elems(ret') \/ ResultOf(w, i)'
    BY <2>3, <2>4, <1>1, <1>5, Zenon DEF ResultOf
  <2>6. QED
    BY <2>2, <2>5, <1>1, Zenon
<1>8. QED
  BY <1>6, <1>7, Zenon DEF OrderIsKept

(* A worker sends its results: their order stays as it is.                 *)
LEMMA OrderReply ==
  ASSUME Inv, ResultsOnTheWay, NEW w \in Worker, SendReply(w)
  PROVE  OrderIsKept /\ ResultsOnTheWay'
<1>1. /\ reply \in Seq(Reply) /\ res \in [Worker -> Batch]
      /\ UNCHANGED <<start, ret, outcome>> /\ block' = block /\ Index' = Index
  BY Zenon DEF Inv, TypeOK, SendReply, managerVars, stateVars, block, Index
<1>2. PICK msg \in Reply : msg.worker = w /\ msg.results = res[w]
                           /\ msg = [worker |-> w, results |-> res[w]]
  <2>1. [worker |-> w, results |-> res[w]] \in Reply
    BY <1>1, Zenon DEF Reply
  <2>2. QED
    BY <2>1, Zenon
<1>3. reply' = Append(reply, msg) /\ \A v \in Worker \ {w} : res'[v] = res[v]
  BY <1>1, <1>2, Zenon DEF SendReply
<1>4. /\ \A n \in 1 .. Len(reply) : n \in 1 .. Len(reply') /\ reply'[n] = reply[n]
      /\ \E n \in 1 .. Len(reply') : reply'[n] = msg
  <2>1. /\ Len(reply) \in Nat /\ Len(reply') = Len(reply) + 1
        /\ \A n \in 1 .. Len(reply) : reply'[n] = reply[n]
        /\ reply'[Len(reply) + 1] = msg
    BY <1>1, <1>3
  <2>2. /\ \A n \in 1 .. Len(reply) : n \in 1 .. Len(reply')
        /\ Len(reply) + 1 \in 1 .. Len(reply')
    BY <2>1
  <2>3. QED
    BY <2>1, <2>2, Zenon
<1>5. ASSUME NEW j, NEW i, OutputBefore(j, i)
      PROVE  OutputBefore(j, i)'
  <2>1. ASSUME NEW v \in Worker, Precedes(res[v], j, i)
        PROVE  OutputBefore(j, i)'
    BY <2>1, <1>2, <1>3, <1>4, Zenon DEF OutputBefore
  <2>2. QED
    BY <2>1, <1>1, <1>4, <1>5, Zenon DEF OutputBefore
<1>6. ASSUME NEW v \in Worker, NEW i, ResultOf(v, i)
      PROVE  ResultOf(v, i)'
  <2>1. CASE i \in Elems(res[v])
    BY <2>1, <1>2, <1>3, <1>4, Zenon DEF ResultOf
  <2>2. CASE i \notin Elems(res[v])
    BY <2>2, <1>4, <1>6, Zenon DEF ResultOf
  <2>3. QED
    BY <2>1, <2>2, Zenon
<1>7. \A tx : ScanningPointer(tx) \in Worker
  BY Zenon DEF ScanningPointer, Worker
<1>8. ResultsOnTheWay'
  BY <1>1, <1>6, <1>7, Zenon DEF ResultsOnTheWay
<1>9. QED
  BY <1>5, <1>8, Zenon DEF OrderIsKept

(* A transaction that finishes is the last of the results of its worker.   *)
LEMMA OrderFinish ==
  ASSUME Inv, ResultsOnTheWay, NEW w \in Worker, wpc[w] \in {"prologue", "read"},
         FinishTxn(w), UNCHANGED <<start, managerVars, reply>>,
         NEW r, outcome' = [outcome EXCEPT ![Head(job[w])] = r]
  PROVE  OrderIsKept /\ ResultsOnTheWay'
<1>1. /\ res \in [Worker -> Seq(Index)] /\ DOMAIN outcome = Index
      /\ UNCHANGED <<ret, reply>> /\ block' = block /\ Index' = Index
  BY Zenon DEF Inv, TypeOK, Batch, managerVars, block, Index
<1>2. PICK h \in Index : h = Head(job[w])
  BY HeldByWorker, Zenon
<1>3. ScanningPointer(block[h]) = w
  BY <1>2, HeldByWorker, Zenon DEF IsTaken
<1>4. res'[w] = Append(res[w], h) /\ \A v \in Worker \ {w} : res'[v] = res[v]
  BY <1>1, <1>2, Zenon DEF FinishTxn
<1>5. /\ Elems(res'[w]) = Elems(res[w]) \cup {h}
      /\ \A j, i : Precedes(res[w], j, i) => Precedes(res'[w], j, i)
  <2>1. res[w] \in Seq(Index)
    BY <1>1, Zenon
  <2>2. QED
    <3>1. Elems(Append(res[w], h)) = Elems(res[w]) \cup {h}
      BY <2>1, <1>2, ElemsAppend, SMTT(30)
    <3>2. \A j, i : Precedes(res[w], j, i) => Precedes(Append(res[w], h), j, i)
      BY <2>1, PrecedesAppend, Zenon
    <3>3. QED
      BY <3>1, <3>2, <1>4, Zenon
<1>6. \A i \in Index \ {h} : outcome'[i] = outcome[i]
  BY <1>1, <1>2, Zenon
<1>7. ASSUME NEW j, NEW i, OutputBefore(j, i)
      PROVE  OutputBefore(j, i)'
  <2>1. ASSUME NEW v \in Worker, Precedes(res[v], j, i)
        PROVE  Precedes(res'[v], j, i)
    BY <2>1, <1>4, <1>5, Zenon
  <2>2. QED
    BY <2>1, <1>1, <1>7, Zenon DEF OutputBefore
<1>8. ASSUME NEW v \in Worker, NEW i, ResultOf(v, i)
      PROVE  ResultOf(v, i)'
  <2>1. Elems(res[v]) \subseteq Elems(res'[v])
    BY <1>4, <1>5, Zenon
  <2>2. QED
    BY <2>1, <1>1, <1>8, Zenon DEF ResultOf
<1>9. \A tx : ScanningPointer(tx) \in Worker
  BY Zenon DEF ScanningPointer, Worker
<1>10. ResultsOnTheWay'
  <2>1. SUFFICES ASSUME NEW i \in Index, outcome'[i].run
                 PROVE  i \in Elems(ret) \/ ResultOf(ScanningPointer(block[i]), i)'
    BY <1>1, Zenon DEF ResultsOnTheWay
  <2>2. CASE i = h
    BY <2>2, <1>1, <1>3, <1>5, Zenon DEF ResultOf
  <2>3. CASE i # h
    <3>1. i \in Elems(ret) \/ ResultOf(ScanningPointer(block[i]), i)
      BY <2>1, <2>3, <1>6, Zenon DEF ResultsOnTheWay
    <3>2. QED
      BY <3>1, <1>1, <1>8, <1>9, Zenon
  <2>4. QED
    BY <2>2, <2>3, Zenon
<1>11. QED
  BY <1>7, <1>10, Zenon DEF OrderIsKept

(* The outputs of two writers of a key are in the order in which they      *)
(* wrote: the results of the earlier one have been received, or they are   *)
(* in the same batch.                                                      *)
LEMMA WriterIsLast ==
  ASSUME Inv, ResultsOnTheWay, NEW w \in Worker, wpc[w] \in {"prologue", "read"},
         FinishTxn(w), UNCHANGED <<start, managerVars>>,
         NEW h, h = Head(job[w]), NEW j \in Index, outcome[j].run,
         block[j].writes \cap block[h].writes # {}
  PROVE  OutputBefore(j, h)'
<1>1. TypeOK /\ WorkerHolds /\ OneBatch /\ Flags /\ Results
  BY Zenon DEF Inv
<1>2. h \in Index
  BY HeldByWorker, Zenon
<1>3. ScanningPointer(block[h]) = w /\ ~outcome[h].run
  BY HeldByWorker, Zenon DEF IsTaken
<1>4. PICK v \in Worker : v = ScanningPointer(block[j])
  BY Zenon DEF ScanningPointer, Worker
<1>5. ret' = ret /\ res \in [Worker -> Seq(Index)] /\ start \in Starts
  BY <1>1, Zenon DEF managerVars, TypeOK, Batch
<1>6. CASE j \in Elems(ret)
  BY <1>1, <1>2, <1>3, <1>5, <1>6, Zenon DEF Results, OutputBefore
<1>7. CASE ResultOf(v, j)
  <2>1. AtWork(w) /\ loaded[w] /\ ~Answered(w)
    BY <1>1, Zenon DEF AtWork, Flags, OneBatch
  <2>2. loaded[v]
    <3>1. CASE j \in Elems(res[v])
      <4>1. wpc[v] # "idle"
        BY <3>1, <1>1, ElemsEmpty, Zenon DEF WorkerHolds
      <4>2. QED
        BY <4>1, <1>1, Zenon DEF Flags, AtWork
    <3>2. CASE Answered(v)
      BY <3>2, <1>1, Zenon DEF Flags
    <3>3. QED
      BY <3>1, <3>2, <1>7, Zenon DEF ResultOf, Answered
  <2>3. v = w
    <3>1. SUFFICES ASSUME v # w PROVE FALSE
      BY Zenon
    <3>2. v # "Cross" /\ w # "Cross"
      BY <3>1, <2>1, <2>2, <1>1, Zenon DEF Flags, Worker
    <3>3. block[j].writes \cap block[h].writes = {}
      BY <3>1, <3>2, <1>2, <1>3, <1>4, <1>5, NativesApart, Zenon
    <3>4. QED
      BY <3>3, Zenon
  <2>4. j \in Elems(res[w])
    BY <2>1, <2>3, <1>7, Zenon DEF ResultOf, Answered
  <2>5. res[w] \in Seq(Index) /\ res'[w] = Append(res[w], h)
    BY <1>5, Zenon DEF FinishTxn
  <2>6. Precedes(res'[w], j, h)
    BY <2>4, <2>5, <1>2, PrecedesAppend, Zenon
  <2>7. QED
    BY <2>6, <1>2, Zenon DEF OutputBefore
<1>8. QED
  BY <1>4, <1>6, <1>7, Zenon DEF ResultsOnTheWay

(* A step that writes nothing leaves the last writer of each key alone.    *)
LEMMA CacheSame ==
  ASSUME TypeOK, LastWriteIsCached, OrderIsKept, UNCHANGED <<start, cache>>,
         \A j \in Index : \A k \in Keys : Wrote(j, k)' <=> Wrote(j, k)
  PROVE  LastWriteIsCached'
<1>1. Index' = Index
  BY Zenon DEF Index, block
<1>2. \A k \in Keys : cache[k] # 0 => cache[k] \in Index
  <2>1. cache \in [Keys -> 0 .. Len(block)] /\ Len(block) \in Nat \ {0}
    BY BlockType, Zenon DEF TypeOK
  <2>2. QED
    BY <2>1 DEF Index
<1>3. QED
  BY <1>1, <1>2, Zenon DEF LastWriteIsCached, OrderIsKept

(* A transaction that finishes becomes the last writer of what it writes.  *)
LEMMA CacheFinish ==
  ASSUME Inv, ReplayInv, NEW w \in Worker, PrologueDiscard(w) \/ ApplyWrites(w)
  PROVE  ReplayInv'
<1>1. TypeOK /\ ResultsOnTheWay /\ LastWriteIsCached
  BY Zenon DEF Inv, ReplayInv
<1>2. /\ wpc[w] \in {"prologue", "read"} /\ FinishTxn(w)
      /\ UNCHANGED <<start, managerVars, reply>> /\ block' = block /\ Index' = Index
  BY Zenon DEF PrologueDiscard, ApplyWrites, block, Index
<1>3. PICK h \in Index : h = Head(job[w])
  BY <1>2, HeldByWorker, Zenon
<1>4. ~outcome[h].run /\ DOMAIN outcome = Index
  BY <1>1, <1>2, <1>3, HeldByWorker, Zenon DEF IsTaken, TypeOK
<1>5. CASE PrologueDiscard(w)
  <2>1. PICK r : r = [kept |-> FALSE, run |-> TRUE, read |-> Clean]
    BY Zenon
  <2>2. cache' = cache /\ outcome' = [outcome EXCEPT ![Head(job[w])] = r]
    BY <2>1, <1>5, Zenon DEF PrologueDiscard
  <2>3. OrderIsKept /\ ResultsOnTheWay'
    BY <2>2, <1>1, <1>2, OrderFinish, Zenon
  <2>4. ~outcome'[h].kept /\ \A j \in Index \ {h} : outcome'[j] = outcome[j]
    BY <2>1, <2>2, <1>3, <1>4, Zenon
  <2>5. \A j \in Index : \A k \in Keys : Wrote(j, k)' <=> Wrote(j, k)
    BY <2>4, <1>2, <1>4, Zenon DEF Wrote
  <2>6. QED
    BY <2>2, <2>3, <2>5, <1>1, <1>2, CacheSame, Zenon DEF ReplayInv
<1>6. CASE ApplyWrites(w)
  <2>1. PICK r : r = [kept |-> TRUE, run |-> TRUE, read |-> snap[w]]
    BY Zenon
  <2>2. /\ outcome' = [outcome EXCEPT ![Head(job[w])] = r]
        /\ cache' = [k \in Keys |-> IF k \in block[h].writes THEN h ELSE cache[k]]
    BY <2>1, <1>3, <1>6, Zenon DEF ApplyWrites, Executing
  <2>3. OrderIsKept /\ ResultsOnTheWay'
    BY <2>2, <1>1, <1>2, OrderFinish, Zenon
  <2>4. /\ outcome'[h].run /\ outcome'[h].kept
        /\ \A j \in Index \ {h} : outcome'[j] = outcome[j]
    BY <2>1, <2>2, <1>3, <1>4, Zenon
  <2>5. \A j \in Index \ {h} : \A k \in Keys : Wrote(j, k)' <=> Wrote(j, k)
    BY <2>4, <1>2, Zenon DEF Wrote
  <2>6. \A k \in Keys : Wrote(h, k)' <=> k \in block[h].writes
    BY <2>4, <1>2, Zenon DEF Wrote
  <2>7. \A k \in Keys : cache[k] # 0 => cache[k] \in Index \ {h}
    <3>1. cache \in [Keys -> 0 .. Len(block)] /\ Len(block) \in Nat \ {0}
      BY <1>1, BlockType, Zenon DEF TypeOK
    <3>2. \A k \in Keys : cache[k] # 0 => cache[k] \in Index
      BY <3>1 DEF Index
    <3>3. QED
      BY <3>2, <1>1, <1>4, Zenon DEF LastWriteIsCached, Wrote
  <2>8. h # 0
    <3>1. h \in 1 .. Len(block) /\ Len(block) \in Nat
      BY <1>1, <1>3, BlockType, Zenon DEF TypeOK, Index
    <3>2. QED
      BY <3>1
  <2>9. LastWriteIsCached'
    <3>1. SUFFICES ASSUME NEW k \in Keys, NEW c, c = cache'[k]
                   PROVE  /\ c = 0 => \A j \in Index : ~Wrote(j, k)'
                          /\ c # 0 =>
                               /\ Wrote(c, k)'
                               /\ \A j \in Index \ {c} : Wrote(j, k)' => OutputBefore(j, c)'
      BY <1>2, Zenon DEF LastWriteIsCached, Wrote, OutputBefore
    <3>2. CASE k \in block[h].writes
      <4>1. c = h
        BY <3>1, <3>2, <2>2, Zenon
      <4>2. ASSUME NEW j \in Index \ {h}, Wrote(j, k)'
            PROVE  OutputBefore(j, h)'
        <5>1. outcome[j].run /\ k \in block[j].writes
          BY <4>2, <2>5, Zenon DEF Wrote
        <5>2. block[j].writes \cap block[h].writes # {}
          BY <5>1, <3>2, Zenon
        <5>3. QED
          BY <4>2, <5>1, <5>2, <1>1, <1>2, <1>3, WriterIsLast, Zenon
      <4>3. QED
        BY <4>1, <4>2, <3>2, <2>6, <2>8, Zenon
    <3>3. CASE k \notin block[h].writes
      <4>1. c = cache[k] /\ ~Wrote(h, k)'
        BY <3>1, <3>3, <2>2, <2>6, Zenon
      <4>2. /\ cache[k] = 0 => \A j \in Index : ~Wrote(j, k)
            /\ cache[k] # 0 =>
                 /\ Wrote(cache[k], k)
                 /\ \A j \in Index \ {cache[k]} : Wrote(j, k) => OutputBefore(j, cache[k])
        BY <1>1, Zenon DEF LastWriteIsCached
      <4>3. CASE cache[k] = 0
        BY <4>1, <4>2, <4>3, <2>5, Zenon
      <4>4. CASE cache[k] # 0
        BY <4>1, <4>2, <4>4, <2>3, <2>5, <2>7, Zenon DEF OrderIsKept
      <4>5. QED
        BY <4>3, <4>4, Zenon
    <3>4. QED
      BY <3>2, <3>3, Zenon
  <2>10. QED
    BY <2>3, <2>9, Zenon DEF ReplayInv
<1>7. QED
  BY <1>5, <1>6, Zenon

(* At the start nothing is written.                                        *)
LEMMA ReplayInit == Init => ReplayInv
<1>1. SUFFICES ASSUME Init PROVE ReplayInv
  BY Zenon
<1>2. (\A i \in Index : ~outcome[i].run) /\ \A k \in Keys : cache[k] = 0
  BY <1>1, Zenon DEF Init, NotRun, Index, block
<1>3. QED
  BY <1>2, Zenon DEF ReplayInv, ResultsOnTheWay, LastWriteIsCached, Wrote

(* Every step keeps the last write of each key in the cache.               *)
LEMMA ReplayStep == Inv /\ ReplayInv /\ [Next]_vars => ReplayInv'
<1>1. SUFFICES ASSUME Inv, ReplayInv, [Next]_vars PROVE ReplayInv'
  BY Zenon
<1>2. TypeOK /\ ResultsOnTheWay /\ LastWriteIsCached /\ start' = start /\ block' = block
  BY <1>1, SameBlock, Zenon DEF Inv, ReplayInv
<1>3. ASSUME OrderIsKept, ResultsOnTheWay', UNCHANGED <<cache, outcome>>
      PROVE  ReplayInv'
  <2>1. \A j \in Index : \A k \in Keys : Wrote(j, k)' <=> Wrote(j, k)
    BY <1>2, <1>3, Zenon DEF Wrote
  <2>2. QED
    BY <2>1, <1>2, <1>3, CacheSame, Zenon DEF ReplayInv
<1>4. CASE Manager
  <2>1. UNCHANGED <<cache, outcome, res>>
    BY <1>4, Zenon DEF Manager, ScanPanic, ScanTake, ScanSkip, ScanWait, ScanEnd,
       SendTxnsToWorker, TryRecvResults, TryRecvNothing, stateVars, workerVars
  <2>2. CASE TryRecvResults
    BY <2>1, <2>2, <1>1, <1>2, <1>3, OrderRecv, Zenon
  <2>3. CASE ~TryRecvResults
    <3>1. UNCHANGED <<ret, reply>>
      BY <1>4, <2>3, Zenon DEF Manager, ScanPanic, ScanTake, ScanSkip, ScanWait, ScanEnd,
         SendTxnsToWorker, TryRecvNothing
    <3>2. QED
      BY <3>1, <2>1, <1>2, <1>3, OrderSame, Zenon
  <2>4. QED
    BY <2>2, <2>3, Zenon
<1>5. ASSUME NEW w \in Worker, WorkerStep(w)
      PROVE  ReplayInv'
  <2>1. CASE PrologueDiscard(w) \/ ApplyWrites(w)
    BY <2>1, <1>1, CacheFinish, Zenon
  <2>2. CASE SendReply(w)
    <3>1. UNCHANGED <<cache, outcome>>
      BY <2>2, Zenon DEF SendReply, stateVars
    <3>2. QED
      BY <3>1, <2>2, <1>1, <1>2, <1>3, OrderReply, Zenon
  <2>3. CASE \/ ReceiveContext(w) \/ PrologueAccept(w)
             \/ (\E k \in Keys : GetStateValue(w, k)) \/ DropView(w)
    <3>1. UNCHANGED <<cache, outcome, ret, res, reply>>
      BY <2>3, Zenon DEF ReceiveContext, PrologueAccept, GetStateValue, DropView,
         managerVars, stateVars
    <3>2. QED
      BY <3>1, <1>2, <1>3, OrderSame, Zenon
  <2>4. QED
    BY <1>5, <2>1, <2>2, <2>3, Zenon DEF WorkerStep
<1>6. CASE UNCHANGED vars
  <2>1. UNCHANGED <<cache, outcome, ret, res, reply>>
    BY <1>6, Zenon DEF vars, managerVars, workerVars, stateVars
  <2>2. QED
    BY <2>1, <1>2, <1>3, OrderSame, Zenon
<1>7. QED
  BY <1>1, <1>4, <1>5, <1>6, Zenon DEF Next, Terminated

(* At every moment the cache holds, for each key, the write whose output   *)
(* comes last, and no result is lost on the way.                           *)
THEOREM ReplayInvariance == Spec => []ReplayInv
BY ReplayInit, ReplayStep, Invariance, PTL DEF Spec

(* The last writer of a sequence of outputs, by its position.              *)
LEMMA LastWriterIs ==
  ASSUME NEW k, NEW outs, NEW n \in 1 .. Len(outs), Len(outs) \in Nat,
         outcome[outs[n]].kept, k \in block[outs[n]].writes,
         \A m \in 1 .. Len(outs) :
           outcome[outs[m]].kept /\ k \in block[outs[m]].writes => m <= n
  PROVE  LastWriter(k, outs) = outs[n]
<1> DEFINE W == {m \in 1 .. Len(outs) : /\ outcome[outs[m]].kept
                                        /\ k \in block[outs[m]].writes}
<1>1. n \in W /\ \A m \in W : m <= n
  BY Zenon
<1>2. \A p \in W : (\A m \in W : m <= p) => p = n
  <2>1. W \subseteq Int
    OBVIOUS
  <2>2. QED
    BY <1>1, <2>1
<1>3. (CHOOSE p \in W : \A m \in W : m <= p) = n
  BY <1>1, <1>2, Zenon
<1>4. W # {}
  BY <1>1, Zenon
<1>5. QED
  BY <1>3, <1>4, Zenon DEF LastWriter

(* Replaying the write sets in the order in which the outputs are returned *)
(* gives the state that the three workers built, for every block and every *)
(* order in which their replies arrive.                                    *)
THEOREM OutputsReplay == Spec => []OutputsReplayState
<1>1. Inv /\ ReplayInv => OutputsReplayState
  <2>1. SUFFICES ASSUME Inv, ReplayInv, mpc = "returned", NEW k \in Keys
                 PROVE  LastWriter(k, ret) = cache[k]
    BY Zenon DEF OutputsReplayState
  <2>2. TypeOK /\ Results /\ LastWriteIsCached
    BY <2>1, Zenon DEF Inv, ReplayInv
  <2>3. Index = Elems(ret) /\ \A i \in Index : outcome[i].run
    BY <2>1, <2>2, ReturnedMeansDone, Zenon DEF Results
  <2>4. ret \in Seq(Index) /\ Len(ret) \in Nat /\ \A n \in 1 .. Len(ret) : ret[n] \in Index
    <3>1. ret \in Seq(Index)
      BY <2>2, Zenon DEF TypeOK, Batch
    <3>2. QED
      BY <3>1
  <2>5. CASE cache[k] = 0
    <3>1. \A n \in 1 .. Len(ret) : ~(outcome[ret[n]].kept /\ k \in block[ret[n]].writes)
      BY <2>1, <2>2, <2>3, <2>4, <2>5, Zenon DEF LastWriteIsCached, Wrote
    <3>2. {n \in 1 .. Len(ret) : outcome[ret[n]].kept /\ k \in block[ret[n]].writes} = {}
      BY <3>1, Zenon
    <3>3. QED
      BY <3>2, <2>5, Zenon DEF LastWriter
  <2>6. CASE cache[k] # 0
    <3>1. PICK i : i = cache[k]
      BY Zenon
    <3>2. i \in Index
      <4>1. cache[k] \in 0 .. Len(block) /\ Len(block) \in Nat \ {0}
        BY <2>1, <2>2, BlockType, Zenon DEF TypeOK
      <4>2. QED
        BY <4>1, <3>1, <2>6 DEF Index
    <3>3. Wrote(i, k) /\ \A j \in Index \ {i} : Wrote(j, k) => OutputBefore(j, i)
      BY <3>1, <2>1, <2>2, <2>6, Zenon DEF LastWriteIsCached
    <3>4. PICK n \in 1 .. Len(ret) : ret[n] = i
      BY <3>2, <2>3, Zenon DEF Elems
    <3>5. ASSUME NEW m \in 1 .. Len(ret), outcome[ret[m]].kept, k \in block[ret[m]].writes
          PROVE  m <= n
      <4>1. CASE ret[m] = i
        <5>1. m = n
          BY <4>1, <3>4, <2>2, Zenon DEF Results, Distinct
        <5>2. QED
          BY <5>1, <2>4
      <4>2. CASE ret[m] # i
        <5>1. PICK j \in Index : j = ret[m]
          BY <2>4, Zenon
        <5>2. OutputBefore(j, i)
          BY <5>1, <4>2, <3>3, <3>5, <2>3, Zenon DEF Wrote
        <5>3. \A w \in Worker : ~Precedes(res[w], j, i)
          BY <2>2, <2>3, PrecedesElems, Zenon DEF Results, Unreceived, IsUnreceived
        <5>4. \A q \in 1 .. Len(reply) : ~Precedes(reply[q].results, j, i)
          <6>1. \A q \in 1 .. Len(reply) : reply[q].worker \in Worker
            <7>1. reply \in Seq(Reply)
              BY <2>2, Zenon DEF TypeOK
            <7>2. \A q \in 1 .. Len(reply) : reply[q] \in Reply
              BY <7>1, ElementOfSeq, Zenon
            <7>3. QED
              BY <7>2, Zenon DEF Reply
          <6>2. QED
            <7>1. ASSUME NEW q \in 1 .. Len(reply), Precedes(reply[q].results, j, i)
                  PROVE  FALSE
              <8>1. j \in Elems(reply[q].results)
                BY <7>1, PrecedesElems, Zenon
              <8>2. IsUnreceived(reply[q].worker, j)
                BY <8>1, <6>1, <2>2, Zenon DEF Results, Unreceived
              <8>3. QED
                BY <8>2, <2>3, Zenon DEF IsUnreceived
            <7>2. QED
              BY <7>1, Zenon
        <5>5. Precedes(ret, j, i)
          BY <5>2, <5>3, <5>4, <3>2, <2>3, Zenon DEF OutputBefore
        <5>6. PICK a \in 1 .. Len(ret), b \in 1 .. Len(ret) : a < b /\ ret[a] = j /\ ret[b] = i
          BY <5>5, Zenon DEF Precedes
        <5>7. a = m /\ b = n
          BY <5>1, <5>6, <3>4, <2>2, Zenon DEF Results, Distinct
        <5>8. QED
          BY <5>6, <5>7, <2>4
      <4>3. QED
        BY <4>1, <4>2, Zenon
    <3>6. outcome[ret[n]].kept /\ k \in block[ret[n]].writes
      BY <3>3, <3>4, Zenon DEF Wrote
    <3>7. LastWriter(k, ret) = ret[n]
      BY <3>5, <3>6, <2>4, LastWriterIs, Zenon
    <3>8. QED
      BY <3>1, <3>4, <3>7, Zenon
  <2>7. QED
    BY <2>5, <2>6, Zenon
<1>2. QED
  BY <1>1, Invariance, ReplayInvariance, PTL
=============================================================================
