--------------------------- MODULE MultiWorkerInv ---------------------------
(***************************************************************************)
(* The inductive invariants of MultiWorker.  Inv follows a batch on its    *)
(* way through the system: from the manager's hands into a request         *)
(* channel, to a worker, result by result into the reply channel, and into *)
(* ret.  NonceInv follows the nonces of a sender, ReplayInv the last write *)
(* of a key.                                                               *)
(***************************************************************************)
EXTENDS MultiWorker

Elems(q) == {q[n] : n \in 1 .. Len(q)}

Distinct(q) == \A m, n \in 1 .. Len(q) : q[m] = q[n] => m = n

(* A transaction that the pointer of w has taken and that has not run.  A  *)
(* checkpoint is taken only when everything else has run.                  *)
IsTaken(w, i) ==
  /\ i < ptr[w]
  /\ ScanningPointer(block[i]) = w
  /\ block[i].type # "InvalidSignature"
  /\ ~outcome[i].run
  /\ block[i].type = "StateCheckpoint" => \A j \in Index \ {i} : outcome[j].run

Taken(w, q) == Distinct(q) /\ \A i \in Elems(q) : IsTaken(w, i)

(* A transaction that w has run and whose result has not been received.    *)
IsUnreceived(w, i) ==
  /\ ScanningPointer(block[i]) = w
  /\ outcome[i].run
  /\ i \notin Elems(ret)

Unreceived(w, q) == Distinct(q) /\ \A i \in Elems(q) : IsUnreceived(w, i)

Answered(w) == \E n \in 1 .. Len(reply) : reply[n].worker = w

(* Where the control of a worker is tells what it holds.                   *)
WorkerHolds ==
  \A w \in Worker :
    /\ wpc[w] = "idle" => job[w] = <<>> /\ res[w] = <<>>
    /\ wpc[w] \in {"prologue", "read"} => job[w] # <<>>
    /\ wpc[w] \in {"drop", "reply"} => job[w] = <<>> /\ res[w] # <<>>

(* Each worker has at most one answer in the reply channel.                *)
OneAnswer == \A m, n \in 1 .. Len(reply) : reply[m].worker = reply[n].worker => m = n

(* A worker has one batch at a time: in its channel, in its hands, or      *)
(* answered and not yet received.                                          *)
OneBatch ==
  /\ \A w \in Worker :
       /\ Len(req[w]) <= 1
       /\ req[w] # <<>> => req[w][1] # <<>> /\ wpc[w] = "idle" /\ ~Answered(w)
       /\ wpc[w] # "idle" => ~Answered(w)
  /\ OneAnswer
  /\ \A n \in 1 .. Len(reply) : reply[n].results # <<>>

(* The manager knows of every batch that is out, lets no batch out next to *)
(* a cross batch, and holds a batch only for a worker that may have it.    *)
Flags ==
  /\ \A w \in Worker : AtWork(w) \/ Answered(w) => loaded[w]
  /\ loaded["Cross"] => ~loaded["Aptos"] /\ ~loaded["Ethereum"]
  /\ mpc \in {"recv", "returned"} => batch = <<>>
  /\ batch # <<>> => /\ ~loaded[cur] /\ ~loaded["Cross"]
                     /\ cur = "Cross" => \A w \in Worker : ~loaded[w]

Batches ==
  \A w \in Worker : /\ cur = w => Taken(w, batch)
                    /\ req[w] # <<>> => Taken(w, req[w][1])
                    /\ Taken(w, job[w])

Results ==
  /\ Distinct(ret)
  /\ \A i \in Elems(ret) : outcome[i].run
  /\ \A w \in Worker :
       /\ Unreceived(w, res[w])
       /\ \A n \in 1 .. Len(reply) :
            reply[n].worker = w => Unreceived(w, reply[n].results)

(* What a pointer has not reached has not run.                             *)
Unscanned ==
  \A i \in Index : i >= ptr[ScanningPointer(block[i])] => ~outcome[i].run

(* The keys that a running transaction has read, and the sequence number   *)
(* that its prologue accepted, have not changed since.                     *)
Snapshots ==
  \A w \in Worker :
    /\ wpc[w] # "read" => snap[w] = Clean
    /\ wpc[w] = "read" =>
         /\ \A k \in Keys : \/ snap[w][k] = {}
                            \/ k \in Executing(w).reads /\ snap[w][k] = {cache[k]}
         /\ IsUser(Executing(w)) =>
              Executing(w).nonce = seqNo[Executing(w).sender]

(* The loop ends when every transaction has its output.                    *)
Finished == mpc = "returned" => Len(ret) >= Len(block)

Inv ==
  /\ TypeOK /\ WorkerHolds /\ OneBatch /\ Flags /\ Batches /\ Results
  /\ Unscanned /\ Snapshots /\ Finished

-----------------------------------------------------------------------------
(***************************************************************************)
(* Why no transaction is discarded.  A transaction is queued from the      *)
(* moment a pointer takes it until it has run.                             *)
(***************************************************************************)
Sorted(q) == \A m, n \in 1 .. Len(q) : m < n => q[m] < q[n]

Holds(w, i) ==
  \/ cur = w /\ i \in Elems(batch)
  \/ req[w] # <<>> /\ i \in Elems(req[w][1])
  \/ i \in Elems(job[w])

QueuedFrom(s, i) ==
  /\ \E w \in Worker : Holds(w, i)
  /\ IsUser(block[i])
  /\ block[i].sender = s

(* A pointer moves forward, and the batches stay as they are made.         *)
InBlockOrder ==
  /\ Sorted(batch)
  /\ \A w \in Worker : /\ req[w] # <<>> => Sorted(req[w][1])
                       /\ Sorted(job[w])

(* The nonce map is ahead of the sequence number of a sender only by what  *)
(* is queued from that sender.                                             *)
NewestIsQueued ==
  \A s \in Senders :
    \/ seqNo[s] = prevNonce[s] + 1
    \/ \E i \in Index : QueuedFrom(s, i) /\ block[i].nonce = prevNonce[s]

(* The nonces queued from a sender are different, and each is the one that *)
(* the state expects or follows that of an earlier transaction.            *)
InSequence(s, i) ==
  /\ block[i].nonce <= prevNonce[s]
  /\ \/ block[i].nonce = seqNo[s]
     \/ \E j \in Index : /\ QueuedFrom(s, j) /\ j < i
                         /\ block[j].nonce = block[i].nonce - 1
  /\ \A j \in Index : QueuedFrom(s, j) /\ block[j].nonce = block[i].nonce => j = i

Consecutive == \A s \in Senders, i \in Index : QueuedFrom(s, i) => InSequence(s, i)

AllKept == \A i \in Index : outcome[i].run => outcome[i].kept

NonceMapAgrees == \A s \in Senders : start.prevNonce[s] = start.seqNo[s] - 1

(* Why a block in order makes no nonce underflow: once the map has an      *)
(* account that it did not have at first, a pointer has taken the          *)
(* transaction of that account with nonce 0.                               *)
ZeroIsTaken ==
  \A s \in Senders :
    start.prevNonce[s] = NoNonce /\ prevNonce[s] # NoNonce =>
      \E j \in Index : /\ j < ptr[ScanningPointer(block[j])]
                       /\ IsUser(block[j])
                       /\ block[j].sender = s /\ block[j].nonce = 0

NonceInv == NonceMapAgrees => NewestIsQueued /\ Consecutive /\ AllKept

-----------------------------------------------------------------------------
(***************************************************************************)
(* Why the outputs replay the state.                                       *)
(***************************************************************************)
ResultOf(w, i) ==
  \/ i \in Elems(res[w])
  \/ \E n \in 1 .. Len(reply) : reply[n].worker = w /\ i \in Elems(reply[n].results)

(* No result is lost between a worker and the outputs.                     *)
ResultsOnTheWay ==
  \A i \in Index :
    outcome[i].run => i \in Elems(ret) \/ ResultOf(ScanningPointer(block[i]), i)

Precedes(q, j, i) == \E m, n \in 1 .. Len(q) : m < n /\ q[m] = j /\ q[n] = i

(* The output of j comes before that of i, whatever order the replies of   *)
(* different workers arrive in.                                            *)
OutputBefore(j, i) ==
  \/ j \in Elems(ret) /\ i \notin Elems(ret)
  \/ Precedes(ret, j, i)
  \/ \E w \in Worker : Precedes(res[w], j, i)
  \/ \E n \in 1 .. Len(reply) : Precedes(reply[n].results, j, i)

Wrote(i, k) == outcome[i].run /\ outcome[i].kept /\ k \in block[i].writes

(* The cache holds, for each key, the write whose output comes last.       *)
LastWriteIsCached ==
  \A k \in Keys :
    /\ cache[k] = 0 => \A j \in Index : ~Wrote(j, k)
    /\ cache[k] # 0 =>
         /\ Wrote(cache[k], k)
         /\ \A j \in Index \ {cache[k]} : Wrote(j, k) => OutputBefore(j, cache[k])

ReplayInv == ResultsOnTheWay /\ LastWriteIsCached
=============================================================================
