----------------------------- MODULE MultiWorker ----------------------------
(***************************************************************************)
(* The multi-worker block executor of HEMVM: a manager that scans a block  *)
(* with one pointer per worker and hands batches of transactions to three  *)
(* worker threads (Aptos, Ethereum, Cross) over channels.                  *)
(*                                                                         *)
(* Manager: execute_transactions_parallel_prototype and its helpers, in    *)
(* aptos-move/block-executor/src/executor.rs.  Workers: the three          *)
(* gen_*_handlers_and_spawn_worker of api/src/transactions.rs.  State      *)
(* access of a worker: LatestViewArc in aptos-move/block-executor/src/     *)
(* view.rs.                                                                *)
(***************************************************************************)
EXTENDS Blocks

VARIABLES
  start,      \* the call: block, nonce map and sequence numbers (constant)
  mpc,        \* manager: "scan", "send", "recv", "returned", "panicked"
  cur,        \* manager: the scanning pointer of the current iteration
  ptr,        \* pointer_type_to_txn_idx_in_block (from 1)
  batch,      \* tx_batch, as indices into the block
  loaded,     \* pointer_type_to_whether_worker_is_loaded
  prevNonce,  \* previous_nonce_per_address
  ret,        \* the outputs received so far, by index of their transaction
  req,        \* the request channel of each worker: a queue of batches
  reply,      \* the one reply channel that the three workers share
  wpc,        \* worker: "idle", "prologue", "read", "drop", "reply"
  job,        \* worker: what is left of the batch it executes
  snap,       \* worker: the versions its current transaction saw, per key
  res,        \* worker: execution_results of the current batch
  cache,      \* executed_state_cache over the base view: version per key
  seqNo,      \* the sequence numbers in the same state
  outcome     \* history: what each transaction did, and on which versions

managerVars == <<mpc, cur, ptr, batch, loaded, prevNonce, ret>>
workerVars == <<wpc, job, snap, res>>
stateVars == <<cache, seqNo, outcome>>
vars == <<start, managerVars, req, reply, workerVars, stateVars>>

block == start.block
Index == 1 .. Len(block)

Worker == {"Aptos", "Ethereum", "Cross"}

(* SCANNING_POINTERS_TYPES: the for loop visits the pointers in this order *)
(* and the while loop starts again with the first.                         *)
NextPointer == [Aptos |-> "Ethereum", Ethereum |-> "Cross", Cross |-> "Aptos"]

(* transaction_type_to_scanning_pointer; the checkpoint passes for cross.  *)
ScanningPointer(tx) ==
  CASE tx.type = "AptosTx"    -> "Aptos"
    [] tx.type = "EthereumTx" -> "Ethereum"
    [] OTHER                  -> "Cross"

Clean == [k \in Keys |-> {}]
NotRun == [kept |-> FALSE, run |-> FALSE, read |-> Clean]

Init ==
  /\ start \in Starts
  /\ mpc = "scan"
  /\ cur = "Aptos"
  /\ ptr = [w \in Worker |-> 1]
  /\ batch = <<>>
  /\ loaded = [w \in Worker |-> FALSE]
  /\ prevNonce = start.prevNonce
  /\ ret = <<>>
  /\ req = [w \in Worker |-> <<>>]
  /\ reply = <<>>
  /\ wpc = [w \in Worker |-> "idle"]
  /\ job = [w \in Worker |-> <<>>]
  /\ snap = [w \in Worker |-> Clean]
  /\ res = [w \in Worker |-> <<>>]
  /\ cache = [k \in Keys |-> 0]
  /\ seqNo = start.seqNo
  /\ outcome = [i \in 1 .. Len(start.block) |-> NotRun]

-----------------------------------------------------------------------------
(***************************************************************************)
(* The manager: check_whether_need_to_wait_or_skip_txn.                    *)
(***************************************************************************)
(* Mutants of MustBeFree: only the worker's own flag is tested; a cross    *)
(* transaction does not wait for the native workers.                       *)
MustBeFreeOwnOnly(tx) == {ScanningPointer(tx)}
MustBeFreeCrossOnly(tx) == {ScanningPointer(tx), "Cross"}

MustBeFree(tx) ==
  IF tx.type \in NativeTypes THEN {ScanningPointer(tx), "Cross"} ELSE Worker

Busy(tx) == \E w \in MustBeFree(tx) : loaded[w]

(* A pointer skips the transactions of the other workers; it passes the    *)
(* checkpoint only when nothing else is left.                              *)
MustSkip(p, tx) ==
  /\ ScanningPointer(tx) # p
  /\ tx.type = "StateCheckpoint" => ~Busy(tx) /\ Len(ret) = Len(block) - 1

(* `last == nonce - 1` for an account in the map, and `nonce == 0` for one *)
(* that is not.  The build checks overflow: `0 - 1` panics.                *)
NonceIsNewer(tx) == prevNonce[tx.sender] < tx.nonce  \* mutant of NonceIsNext
NonceIsNext(tx) == prevNonce[tx.sender] = tx.nonce - 1
NonceUnderflows(tx) == prevNonce[tx.sender] # NoNonce /\ tx.nonce = 0

Available(p, tx) == ScanningPointer(tx) = p /\ ~Busy(tx)

CanTake(p, tx) ==
  /\ Available(p, tx)
  /\ IF IsUser(tx) THEN NonceIsNext(tx) /\ ~NonceUnderflows(tx)
                   ELSE Len(ret) = Len(block) - 1

MustPanic(p, tx) ==
  \/ tx.type = "InvalidSignature"
  \/ IsUser(tx) /\ Available(p, tx) /\ NonceUnderflows(tx)

(***************************************************************************)
(* The manager: one pass of the inner while loop.  The transaction under   *)
(* the current pointer is taken into the batch, skipped, or waited for;    *)
(* skipping and waiting both end the batch.                                *)
(***************************************************************************)
Scanned == block[ptr[cur]]
Scanning == mpc = "scan" /\ ptr[cur] <= Len(block)

ScanPanic ==
  /\ Scanning
  /\ MustPanic(cur, Scanned)
  /\ mpc' = "panicked"
  /\ UNCHANGED <<start, cur, ptr, batch, loaded, prevNonce, ret,
                 req, reply, workerVars, stateVars>>

ScanTake ==
  /\ Scanning
  /\ ~MustPanic(cur, Scanned)
  /\ CanTake(cur, Scanned)
  /\ batch' = Append(batch, ptr[cur])
  /\ ptr' = [ptr EXCEPT ![cur] = @ + 1]
  /\ prevNonce' = IF IsUser(Scanned)
                  THEN [prevNonce EXCEPT ![Scanned.sender] = Scanned.nonce]
                  ELSE prevNonce
  /\ UNCHANGED <<start, mpc, cur, loaded, ret, req, reply, workerVars, stateVars>>

(* Mutant of ScanSkip: the caller advances the pointer once more.          *)
ScanSkipTwice ==
  /\ Scanning
  /\ ~MustPanic(cur, Scanned)
  /\ MustSkip(cur, Scanned)
  /\ ptr' = [ptr EXCEPT ![cur] = @ + 2]
  /\ mpc' = "send"
  /\ UNCHANGED <<start, cur, batch, loaded, prevNonce, ret,
                 req, reply, workerVars, stateVars>>

ScanSkip ==
  /\ Scanning
  /\ ~MustPanic(cur, Scanned)
  /\ MustSkip(cur, Scanned)
  /\ ptr' = [ptr EXCEPT ![cur] = @ + 1]
  /\ mpc' = "send"
  /\ UNCHANGED <<start, cur, batch, loaded, prevNonce, ret,
                 req, reply, workerVars, stateVars>>

ScanWait ==
  /\ Scanning
  /\ ~MustPanic(cur, Scanned)
  /\ ~CanTake(cur, Scanned)
  /\ ~MustSkip(cur, Scanned)
  /\ mpc' = "send"
  /\ UNCHANGED <<start, cur, ptr, batch, loaded, prevNonce, ret,
                 req, reply, workerVars, stateVars>>

ScanEnd ==
  /\ mpc = "scan"
  /\ ptr[cur] > Len(block)
  /\ mpc' = "send"
  /\ UNCHANGED <<start, cur, ptr, batch, loaded, prevNonce, ret,
                 req, reply, workerVars, stateVars>>

(* send_txns_to_worker: a non-empty batch goes to the current worker.      *)
SendTxnsToWorker ==
  /\ mpc = "send"
  /\ IF batch = <<>>
     THEN UNCHANGED <<req, loaded>>
     ELSE /\ req' = [req EXCEPT ![cur] = Append(@, batch)]
          /\ loaded' = [loaded EXCEPT ![cur] = TRUE]
  /\ batch' = <<>>
  /\ mpc' = "recv"
  /\ UNCHANGED <<start, cur, ptr, prevNonce, ret, reply, workerVars, stateVars>>

(* Mutant of EndIteration: the loop ends one output too early.             *)
EndIterationEarly(done) ==
  /\ cur' = NextPointer[cur]
  /\ mpc' = IF cur = "Cross" /\ done >= Len(block) - 1 THEN "returned" ELSE "scan"

(* The end of an iteration of the for loop; the while loop tests whether   *)
(* the block is finished after the last pointer only.                      *)
EndIteration(done) ==
  /\ cur' = NextPointer[cur]
  /\ mpc' = IF cur = "Cross" /\ done >= Len(block) THEN "returned" ELSE "scan"

(* Mutant of TryRecvResults: results clear a flag only when they come from *)
(* the worker of the current pointer.                                      *)
TryRecvOwnFlag ==
  /\ mpc = "recv"
  /\ loaded[cur]
  /\ reply # <<>>
  /\ LET msg == Head(reply)
     IN  /\ reply' = Tail(reply)
         /\ loaded' = [loaded EXCEPT ![cur] = @ /\ msg.worker # cur]
         /\ ret' = ret \o msg.results
         /\ EndIteration(Len(ret) + Len(msg.results))
  /\ UNCHANGED <<start, ptr, batch, prevNonce, req, workerVars, stateVars>>

(* try_recv, only when the current worker is loaded; the results received  *)
(* may be another worker's, for the receiver is shared.  Each result       *)
(* clears the flag of the worker that made it.                             *)
TryRecvResults ==
  /\ mpc = "recv"
  /\ loaded[cur]
  /\ reply # <<>>
  /\ LET msg == Head(reply)
     IN  /\ reply' = Tail(reply)
         /\ loaded' = [loaded EXCEPT ![msg.worker] = @ /\ msg.results = <<>>]
         /\ ret' = ret \o msg.results
         /\ EndIteration(Len(ret) + Len(msg.results))
  /\ UNCHANGED <<start, ptr, batch, prevNonce, req, workerVars, stateVars>>

TryRecvNothing ==
  /\ mpc = "recv"
  /\ loaded[cur] => reply = <<>>
  /\ EndIteration(Len(ret))
  /\ UNCHANGED <<start, ptr, batch, loaded, prevNonce, ret,
                 req, reply, workerVars, stateVars>>

Manager ==
  \/ ScanPanic \/ ScanTake \/ ScanSkip \/ ScanWait \/ ScanEnd
  \/ SendTxnsToWorker
  \/ TryRecvResults \/ TryRecvNothing

-----------------------------------------------------------------------------
(***************************************************************************)
(* The workers.                                                            *)
(***************************************************************************)
ReceiveContext(w) ==
  /\ wpc[w] = "idle"
  /\ req[w] # <<>>
  /\ job' = [job EXCEPT ![w] = Head(req[w])]
  /\ req' = [req EXCEPT ![w] = Tail(@)]
  /\ wpc' = [wpc EXCEPT ![w] = "prologue"]
  /\ UNCHANGED <<start, managerVars, reply, snap, res, stateVars>>

Executing(w) == block[Head(job[w])]

(* The output of the transaction joins the results; after the last one of  *)
(* the batch the worker drops its views.                                   *)
FinishTxn(w) ==
  /\ res' = [res EXCEPT ![w] = Append(@, Head(job[w]))]
  /\ job' = [job EXCEPT ![w] = Tail(@)]
  /\ snap' = [snap EXCEPT ![w] = Clean]
  /\ wpc' = [wpc EXCEPT ![w] = IF Tail(job[w]) = <<>> THEN "drop" ELSE "prologue"]

(* The prologue compares the nonce with the sender's sequence number: a    *)
(* transaction that fails it is discarded, with no writes.                 *)
PrologueAccept(w) ==
  /\ wpc[w] = "prologue"
  /\ IsUser(Executing(w)) => Executing(w).nonce = seqNo[Executing(w).sender]
  /\ wpc' = [wpc EXCEPT ![w] = "read"]
  /\ UNCHANGED <<start, managerVars, req, reply, job, snap, res, stateVars>>

PrologueDiscard(w) ==
  /\ wpc[w] = "prologue"
  /\ IsUser(Executing(w))
  /\ Executing(w).nonce # seqNo[Executing(w).sender]
  /\ outcome' = [outcome EXCEPT ![Head(job[w])] =
                   [kept |-> FALSE, run |-> TRUE, read |-> Clean]]
  /\ FinishTxn(w)
  /\ UNCHANGED <<start, managerVars, req, reply, cache, seqNo>>

(* get_state_value: every read takes and releases the read lock by itself, *)
(* and nothing remembers it: a key may be read again.                      *)
GetStateValue(w, k) ==
  /\ wpc[w] = "read"
  /\ k \in Executing(w).reads
  /\ snap' = [snap EXCEPT ![w][k] = @ \cup {cache[k]}]
  /\ UNCHANGED <<start, managerVars, req, reply, wpc, job, res, stateVars>>

(* All the writes of a transaction are inserted under one write lock.      *)
ApplyWrites(w) ==
  /\ wpc[w] = "read"
  /\ \A k \in Executing(w).reads : snap[w][k] # {}
  /\ cache' = [k \in Keys |-> IF k \in Executing(w).writes
                              THEN Head(job[w]) ELSE cache[k]]
  /\ seqNo' = IF IsUser(Executing(w))
              THEN [seqNo EXCEPT ![Executing(w).sender] = Executing(w).nonce + 1]
              ELSE seqNo
  /\ outcome' = [outcome EXCEPT ![Head(job[w])] =
                   [kept |-> TRUE, run |-> TRUE, read |-> snap[w]]]
  /\ FinishTxn(w)
  /\ UNCHANGED <<start, managerVars, req, reply>>

(* drop(executor), drop(base_view), and only then the reply.               *)
DropView(w) ==
  /\ wpc[w] = "drop"
  /\ wpc' = [wpc EXCEPT ![w] = "reply"]
  /\ UNCHANGED <<start, managerVars, req, reply, job, snap, res, stateVars>>

(* Mutant of SendReply: the reply leaves before the views are dropped.     *)
SendReplyBeforeDrop(w) ==
  /\ \/ /\ wpc[w] = "drop"
        /\ res[w] # <<>>
        /\ reply' = Append(reply, [worker |-> w, results |-> res[w]])
        /\ UNCHANGED wpc
     \/ /\ wpc[w] = "reply"
        /\ wpc' = [wpc EXCEPT ![w] = "idle"]
        /\ UNCHANGED reply
  /\ res' = [res EXCEPT ![w] = <<>>]
  /\ UNCHANGED <<start, managerVars, req, job, snap, stateVars>>

SendReply(w) ==
  /\ wpc[w] = "reply"
  /\ reply' = Append(reply, [worker |-> w, results |-> res[w]])
  /\ res' = [res EXCEPT ![w] = <<>>]
  /\ wpc' = [wpc EXCEPT ![w] = "idle"]
  /\ UNCHANGED <<start, managerVars, req, job, snap, stateVars>>

WorkerStep(w) ==
  \/ ReceiveContext(w)
  \/ PrologueAccept(w) \/ PrologueDiscard(w)
  \/ \E k \in Keys : GetStateValue(w, k)
  \/ ApplyWrites(w)
  \/ DropView(w) \/ SendReply(w)

-----------------------------------------------------------------------------
(* A call that is over stays over.                                         *)
Terminated == mpc \in {"returned", "panicked"} /\ UNCHANGED vars

Next == Manager \/ (\E w \in Worker : WorkerStep(w)) \/ Terminated

Spec == Init /\ [][Next]_vars

(* The manager and the workers are operating-system threads: each one that *)
(* can take a step eventually does.                                        *)
FairSpec == Spec /\ WF_vars(Manager) /\ \A w \in Worker : WF_vars(WorkerStep(w))
-----------------------------------------------------------------------------
(***************************************************************************)
(* Properties.                                                             *)
(***************************************************************************)
Batch == Seq(Index)
Reply == [worker : Worker, results : Batch]
Seen == [Keys -> SUBSET (0 .. Len(block))]

(* The manager's locals, the channels, the workers' locals and the shared  *)
(* cache hold values of their types; a pointer never goes past one beyond  *)
(* the end of the block, and batches, results and outputs name             *)
(* transactions of the block.                                              *)
TypeOK ==
  /\ start \in Starts
  /\ mpc \in {"scan", "send", "recv", "returned", "panicked"}
  /\ cur \in Worker
  /\ ptr \in [Worker -> 1 .. Len(block) + 1]
  /\ batch \in Batch
  /\ loaded \in [Worker -> BOOLEAN]
  /\ prevNonce \in [Senders -> Nat \cup {NoNonce}]
  /\ ret \in Batch
  /\ req \in [Worker -> Seq(Batch)]
  /\ reply \in Seq(Reply)
  /\ wpc \in [Worker -> {"idle", "prologue", "read", "drop", "reply"}]
  /\ job \in [Worker -> Batch]
  /\ snap \in [Worker -> Seen]
  /\ res \in [Worker -> Batch]
  /\ cache \in [Keys -> 0 .. Len(block)]
  /\ seqNo \in [Senders -> Nat]
  /\ outcome \in [Index -> [kept : BOOLEAN, run : BOOLEAN, read : Seen]]

(* A worker is at work from the moment a batch is in its channel until its *)
(* results are in the reply channel.                                       *)
AtWork(w) == req[w] # <<>> \/ wpc[w] # "idle"

(* "invariant: once here, safe to send for execution"                      *)
(* (send_txns_to_worker): a batch of cross transactions is never at work   *)
(* at the same time as another batch, and no worker is given a second      *)
(* batch before the first is answered.                                     *)
SafeToSend ==
  /\ \A w \in Worker \ {"Cross"} : ~(AtWork("Cross") /\ AtWork(w))
  /\ \A w \in Worker : /\ Len(req[w]) <= 1
                        /\ req[w] # <<>> => wpc[w] = "idle"

(* When the call returns, no worker and no channel still holds a clone of  *)
(* base_view: by_transaction_execution_prototype unwraps the Arc and       *)
(* expects to be its only owner.                                           *)
ViewReleased ==
  mpc = "returned" =>
    \A w \in Worker : req[w] = <<>> /\ wpc[w] \notin {"prologue", "read", "drop"}

(* The nonce map is advanced when a transaction is batched, long before it *)
(* runs, and three workers run the transactions of one sender.  Still, in  *)
(* a block in order, every transaction finds the sequence number it needs: *)
(* none is discarded.                                                      *)
NoneDiscarded ==
  WellFormed(start) =>
    \A i \in Index : outcome[i].run => outcome[i].kept

(* The call returns one output for each transaction of the block: each one *)
(* was taken by exactly one pointer and answered exactly once, so that the *)
(* final resize_with neither pads nor truncates.                           *)
OneOutputEach ==
  mpc = "returned" =>
    /\ Len(ret) = Len(block)
    /\ \A i \in Index : \E n \in 1 .. Len(ret) : ret[n] = i

(* The outputs reach the ledger in the order of ret, which is the order in *)
(* which replies arrived.  Replaying their write sets in that order over   *)
(* the base view gives the state that the workers built in the cache.      *)
LastWriter(k, outs) ==
  LET W == {n \in 1 .. Len(outs) : /\ outcome[outs[n]].kept
                                   /\ k \in block[outs[n]].writes}
  IN  IF W = {} THEN 0 ELSE outs[CHOOSE n \in W : \A m \in W : m <= n]

OutputsReplayState ==
  mpc = "returned" => \A k \in Keys : LastWriter(k, ret) = cache[k]

(* The workers together implement serial, atomic execution of the block    *)
(* with the checkpoint last: no transaction sees part of another's writes, *)
(* nor a key change between two reads, and the call returns only when all  *)
(* have run.                                                               *)
Serial == INSTANCE SerialBlock WITH
  status <- IF mpc \in {"returned", "panicked"} THEN mpc ELSE "running"
ImplementsSerialBlock == Serial!Spec

(* A block in order is always finished: no pointer waits for ever for a    *)
(* nonce, a busy worker, or a reply that another pointer has taken.        *)
Termination == WellFormed(start) => <>(mpc = "returned")

(* "When transaction tx reads a memory location, it obtains ... the value  *)
(* written to this location by the highest transaction that appears before *)
(* tx in the preset serialization order" (aptos-move/block-executor/src/   *)
(* lib.rs, of the parallel execution of executor.rs).                      *)
WritersBefore(k, i) == {j \in 1 .. i - 1 : k \in block[j].writes}
ReadsInPresetOrder ==
  WellFormed(start) =>
    \A i \in Index : \A k \in Keys : \A v \in outcome[i].read[k] :
      /\ WritersBefore(k, i) = {} => v = 0
      /\ \A j \in WritersBefore(k, i) : j <= v /\ v < i

(* "this defines the preset serialization order tx_1< tx_2< ...<tx_n"      *)
(* (aptos-move/block-executor/src/lib.rs), and the caller pairs the n-th   *)
(* transaction with the n-th output (zip_eq in apply_chunk_output.rs).     *)
OutputsInBlockOrder ==
  mpc = "returned" => \A n \in 1 .. Len(ret) : ret[n] = n
=============================================================================
