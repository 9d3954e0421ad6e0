----------------------------- MODULE SerialBlock ----------------------------
(***************************************************************************)
(* What the multi-worker executor promises: the effect of running the      *)
(* transactions of a block one after the other, each of them atomically,   *)
(* in an order that the executor chooses, with a StateCheckpoint after     *)
(* everything else; to return only when every transaction has run; and to  *)
(* panic only on a block that is not in order.                             *)
(***************************************************************************)
EXTENDS Blocks

VARIABLES start,    \* the call of the executor, fixed by Init
          cache,    \* the version of every key that the next reader sees
          seqNo,    \* the sequence numbers that the next reader sees
          outcome,  \* what each transaction of the block did
          status    \* "running", "returned" or "panicked"

vars == <<start, cache, seqNo, outcome, status>>

block == start.block
Index == 1 .. Len(block)

NotRun == [kept |-> FALSE, run |-> FALSE, read |-> [k \in Keys |-> {}]]
Discarded == [kept |-> FALSE, run |-> TRUE, read |-> [k \in Keys |-> {}]]

Init ==
  /\ start \in Starts
  /\ cache = [k \in Keys |-> 0]
  /\ seqNo = start.seqNo
  /\ outcome = [i \in 1 .. Len(start.block) |-> NotRun]
  /\ status = "running"

(* The transaction runs on the state of one moment and replaces it.        *)
Keep(i) ==
  /\ IsUser(block[i]) => block[i].nonce = seqNo[block[i].sender]
  /\ block[i].type = "StateCheckpoint" =>
       \A j \in Index \ {i} : outcome[j].run
  /\ outcome' = [outcome EXCEPT ![i] =
       [kept |-> TRUE, run |-> TRUE,
        read |-> [k \in Keys |-> IF k \in block[i].reads THEN {cache[k]}
                                                         ELSE {}]]]
  /\ cache' = [k \in Keys |-> IF k \in block[i].writes THEN i ELSE cache[k]]
  /\ seqNo' = IF IsUser(block[i])
              THEN [seqNo EXCEPT ![block[i].sender] = block[i].nonce + 1]
              ELSE seqNo

(* A user transaction whose nonce is not the sequence number of its sender *)
(* is discarded: it changes nothing.                                       *)
Discard(i) ==
  /\ IsUser(block[i])
  /\ block[i].nonce # seqNo[block[i].sender]
  /\ outcome' = [outcome EXCEPT ![i] = Discarded]
  /\ UNCHANGED <<cache, seqNo>>

Execute(i) ==
  /\ status # "returned"
  /\ ~outcome[i].run
  /\ Keep(i) \/ Discard(i)
  /\ UNCHANGED <<start, status>>

Return ==
  /\ status = "running"
  /\ \A i \in Index : outcome[i].run
  /\ status' = "returned"
  /\ UNCHANGED <<start, cache, seqNo, outcome>>

(* A manager that panics gives up the block; batches that a worker already *)
(* holds may still run.  A block that is in order is never given up.       *)
Panic ==
  /\ status = "running"
  /\ ~WellFormed(start)
  /\ status' = "panicked"
  /\ UNCHANGED <<start, cache, seqNo, outcome>>

Next == (\E i \in Index : Execute(i)) \/ Return \/ Panic

Spec == Init /\ [][Next]_vars
=============================================================================
