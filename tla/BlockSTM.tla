------------------------------ MODULE BlockSTM ------------------------------
(***************************************************************************)
(* Parallel execution of a block: the worker threads of                    *)
(* execute_transactions_parallel, which execute transactions speculatively *)
(* on the multi-version map, validate what they read, abort and execute    *)
(* again, until the scheduler is done.                                     *)
(*                                                                         *)
(* Each read, write and deletion of a key is a step of its own, and so is  *)
(* each comparison of a validation; between any two of them the other      *)
(* threads may do anything.                                                *)
(***************************************************************************)
EXTENDS Scheduler, SerialExecution, FiniteSetsExt

CONSTANT Blocks    \* the blocks, sequences of NumTxns programs

ASSUME BlocksAssumption == \A b \in Blocks : Len(b) = NumTxns

VARIABLES block,
          data,              \* MVHashMap: key -> transaction -> entry
          inputs, outputs,   \* TxnLastInputOutput
          seen,       \* thread -> the values its VM has read
          captured,   \* thread -> captured_reads, or the reads to compare
          loaded,     \* thread -> its validation has loaded the read set
          touched     \* thread -> the keys it has applied, deleted or marked

memory == <<block, data, inputs, outputs>>
work == <<seen, captured, loaded, touched>>
allVars == <<vars, memory, work>>

STMInit ==
  /\ Init
  /\ block \in Blocks
  /\ data = [k \in Keys |-> [i \in Txns |-> NoEntry]]
  /\ inputs = [i \in Txns |-> << >>]
  /\ outputs = [i \in Txns |-> NoOutput]
  /\ seen = [t \in Threads |-> << >>]
  /\ captured = [t \in Threads |-> << >>]
  /\ loaded = [t \in Threads |-> FALSE]
  /\ touched = [t \in Threads |-> {}]

Now(t) == VM(block[task[t] + 1], seen[t])

-----------------------------------------------------------------------------
(* MVHashMapView::read and LatestView::get_state_value.                    *)

(* ReadDescriptor: where the value came from.                              *)
Descriptor(k, r) ==
  [key |-> k, kind |-> r.kind, txn |-> r.txn, incarnation |-> r.incarnation,
   value |-> IF r.kind = "Resolved" THEN r.value ELSE Gone, delta |-> r.delta]

(* What the VM gets: an error is a value of its own to it.                 *)
ValueRead(k, r) ==
  CASE r.kind \in {"Version", "Resolved"}   -> r.value
    [] r.kind = "NotFound"                  -> Storage[k]
    [] r.kind = "DeltaApplicationFailure"   -> 0
    [] r.kind = "Unresolved" /\ Storage[k] = Gone -> Err
    [] r.kind = "Unresolved" /\ Storage[k] # Gone -> apply_to(r.delta, Storage[k])

ReadKey(t, k, r) ==
  \/ /\ r.kind = "Dependency"
     /\ MeetDependency(t, r.txn)
     /\ UNCHANGED work
  \/ /\ r.kind # "Dependency"
     /\ seen' = [seen EXCEPT ![t] = Append(@, ValueRead(k, r))]
     /\ captured' = [captured EXCEPT ![t] = Append(@, Descriptor(k, r))]
     /\ UNCHANGED <<vars, loaded, touched>>

Read(t) ==
  LET k == Now(t).key IN
  /\ At(t, "execute")
  /\ k # NoKey
  /\ ReadKey(t, k, read(data[k], task[t]))
  /\ UNCHANGED memory

-----------------------------------------------------------------------------
(* BlockExecutor::execute after the VM has ended: the writes, the deltas,  *)
(* the deletion of what the previous incarnation modified and this one did *)
(* not, the record and finish_execution.                                   *)

modified_keys(out) == DOMAIN out.writes \cup DOMAIN out.deltas

Ended(t) == At(t, "execute") /\ Now(t).key = NoKey
New(t) == Now(t).output
Previous(t) == outputs[task[t]]
NothingStale(t) == {}
Stale(t) == modified_keys(Previous(t)) \ modified_keys(New(t))

(* Each key is one step.                                                   *)
Touch(t, k, map) ==
  /\ data' = [data EXCEPT ![k] = map]
  /\ touched' = [touched EXCEPT ![t] = @ \cup {k}]
  /\ UNCHANGED <<block, inputs, outputs, seen, captured, loaded>>

ApplyWrite(t) ==
  /\ Ended(t)
  /\ \E k \in DOMAIN New(t).writes \ touched[t] :
       Touch(t, k, add_write(data[k], task[t], incarnation[t], New(t).writes[k]))
  /\ UNCHANGED vars

ApplyDelta(t) ==
  /\ Ended(t)
  /\ DOMAIN New(t).writes \subseteq touched[t]
  /\ \E k \in DOMAIN New(t).deltas \ touched[t] :
       Touch(t, k, add_delta(data[k], task[t], New(t).deltas[k]))
  /\ UNCHANGED vars

DeleteStale(t) ==
  /\ Ended(t)
  /\ modified_keys(New(t)) \subseteq touched[t]
  /\ \E k \in Stale(t) \ touched[t] : Touch(t, k, delete(data[k], task[t]))
  /\ UNCHANGED vars

(* The task ends: nothing of the thread's work is kept.                    *)
EndWork(t) ==
  /\ seen' = [seen EXCEPT ![t] = << >>]
  /\ captured' = [captured EXCEPT ![t] = << >>]
  /\ loaded' = [loaded EXCEPT ![t] = FALSE]
  /\ touched' = [touched EXCEPT ![t] = {}]

NeverOutside(t) == FALSE
UpdatesOutside(t) == ~(modified_keys(New(t)) \subseteq modified_keys(Previous(t)))

(* Only the thread that executes a transaction reads its output before the *)
(* block is done, so the two stores of record are one step.                *)
Record(t) ==
  /\ Ended(t)
  /\ modified_keys(New(t)) \cup Stale(t) \subseteq touched[t]
  /\ inputs' = [inputs EXCEPT ![task[t]] = captured[t]]
  /\ outputs' = [outputs EXCEPT ![task[t]] = New(t)]
  /\ Finish(t, UpdatesOutside(t))
  /\ EndWork(t)
  /\ UNCHANGED <<block, data>>

-----------------------------------------------------------------------------
(* BlockExecutor::validate.                                                *)

LoadReadSet(t) ==
  /\ At(t, "validate")
  /\ ~loaded[t]
  /\ loaded' = [loaded EXCEPT ![t] = TRUE]
  /\ captured' = [captured EXCEPT ![t] = inputs[task[t]]]
  /\ UNCHANGED <<vars, memory, seen, touched>>

(* ReadDescriptor::validate_*: the read gives what it gave.                *)
ValidByTransaction(d, r) ==
  [Descriptor(d.key, r) EXCEPT !.incarnation = d.incarnation] = d

Valid(d, r) == r.kind # "Dependency" /\ Descriptor(d.key, r) = d

CompareRead(t) ==
  /\ At(t, "validate")
  /\ loaded[t]
  /\ captured[t] # << >>
  /\ IF Valid(Head(captured[t]), read(data[Head(captured[t]).key], task[t]))
     THEN /\ captured' = [captured EXCEPT ![t] = Tail(@)]
          /\ UNCHANGED <<vars, seen, loaded, touched>>
     ELSE Fail(t) /\ EndWork(t)
  /\ UNCHANGED memory

Validated(t) ==
  /\ At(t, "validate")
  /\ loaded[t]
  /\ captured[t] = << >>
  /\ Pass(t)
  /\ EndWork(t)
  /\ UNCHANGED memory

(* The thread has aborted the transaction: its entries become estimates.   *)
MarkEstimate(t) ==
  /\ At(t, "mark_estimates")
  /\ \E k \in modified_keys(outputs[task[t]]) \ touched[t] :
       Touch(t, k, mark_estimate(data[k], task[t]))
  /\ UNCHANGED vars

Marked(t) ==
  /\ At(t, "mark_estimates")
  /\ modified_keys(outputs[task[t]]) \subseteq touched[t]
  /\ EstimatesMarked(t)
  /\ EndWork(t)
  /\ UNCHANGED memory

-----------------------------------------------------------------------------
ThreadStep(t) ==
  \/ SchedulerStep(t) /\ UNCHANGED <<memory, work>>
  \/ Read(t) \/ ApplyWrite(t) \/ ApplyDelta(t) \/ DeleteStale(t) \/ Record(t)
  \/ LoadReadSet(t) \/ CompareRead(t) \/ Validated(t)
  \/ MarkEstimate(t) \/ Marked(t)

STMNext == \E t \in Threads : ThreadStep(t)

(* Every worker is a thread of its own in the pool, and the operating      *)
(* system runs each of them.                                               *)
STMSpec == STMInit /\ [][STMNext]_allVars /\ \A t \in Threads : WF_allVars(ThreadStep(t))

-----------------------------------------------------------------------------
(* After the scope of the threads: take_output for each transaction up to  *)
(* the one that ends the block, OutputDeltaResolver::resolve, and          *)
(* process_parallel_block_output.                                          *)

(* The value of a key after its entries below n; Err once a delta fails.   *)
Latest(k) ==
  LET value[n \in 0 .. NumTxns] ==
        IF n = 0 THEN Storage[k]
        ELSE LET entry == data[k][n - 1] IN
             CASE value[n - 1] = Err    -> Err
               [] entry.kind = "none"   -> value[n - 1]
               [] entry.kind = "write"  -> entry.value
               [] entry.kind = "delta"  -> IF DeltaFails(entry.delta, value[n - 1]) THEN Err
                                           ELSE apply_to(entry.delta, value[n - 1])
  IN  value

Ending == {i \in Txns : outputs[i].status \in {"SkipRest", "Abort"}}
LastTaken == IF Ending = {} THEN NumTxns - 1 ELSE Min(Ending)

AggregatorKeys == UNION {DOMAIN outputs[i].deltas : i \in 0 .. LastTaken}

(* resolve goes through all the entries of an aggregator's key.            *)
ResolvePanics == \E k \in AggregatorKeys : Latest(k)[NumTxns] = Err

WritesOf(i) ==
  Overlay(outputs[i].writes, [k \in DOMAIN outputs[i].deltas |-> Latest(k)[i + 1]])

ParallelOutcome ==
  CASE outputs[LastTaken].status = "Abort" -> Outcome("Abort", << >>)
    [] ResolvePanics -> Outcome("panic", << >>)
    [] OTHER -> Outcome("Ok", [n \in 1 .. LastTaken + 1 |-> WritesOf(n - 1)])

-----------------------------------------------------------------------------
(***************************************************************************)
(* The outcome of parallel execution is that of executing the block one    *)
(* transaction after the other: the same writes, the same end of the block *)
(* (SkipRest), the same error, and a panic where that one panics.          *)
(***************************************************************************)
Finished == \A t \in Threads : At(t, "done")

OutcomeIsSequential == Finished => ParallelOutcome = Sequential(block)

(***************************************************************************)
(* When the scheduler is done, every read that led to an output is still   *)
(* what the memory gives: no validation is missing, whatever was written   *)
(* while validations ran.                                                  *)
(***************************************************************************)
ReadsSettled ==
  done_marker =>
    \A i \in Txns : \A n \in DOMAIN inputs[i] :
      LET d == inputs[i][n] IN Valid(d, read(data[d.key], i))

(***************************************************************************)
(* When the scheduler is done, every recorded output is what the VM makes  *)
(* of its transaction when each read is answered from the memory as it is  *)
(* then: validate compares where the values came from and not the values,  *)
(* and the reads of an execution may have met different incarnations.      *)
(***************************************************************************)
Snapshot(i) == [k \in Keys |-> ValueRead(k, read(data[k], i))]

OutputsSettled ==
  done_marker => \A i \in Txns : outputs[i] = InStore(block[i + 1], Snapshot(i))

(***************************************************************************)
(* The assertions and expects of the map and of validate never fire: an    *)
(* entry is overwritten by a higher incarnation only, estimates are marked *)
(* on entries that exist, a stale key has been written, and a version to   *)
(* validate has its read set recorded.                                     *)
(***************************************************************************)
MemoryAssertionsHold ==
  \A t \in Threads :
    /\ Ended(t) => \A k \in DOMAIN New(t).writes \ touched[t] :
                     MayAddWrite(data[k][task[t]], incarnation[t])
    /\ Ended(t) => \A k \in Stale(t) \ touched[t] : data[k][task[t]].kind # "none"
    /\ At(t, "mark_estimates") => \A k \in modified_keys(outputs[task[t]]) :
                                    data[k][task[t]].kind # "none"
    /\ At(t, "validate") => outputs[task[t]].status # "none"

(***************************************************************************)
(* A reader that meets an estimate of an executed transaction goes on      *)
(* reading it for ever (wait_for_dependency returns None): no transaction  *)
(* is executed while it has an estimate.                                   *)
(***************************************************************************)
NoStaleEstimate ==
  \A i \in Txns : txn_status[i].kind = "Executed" =>
    \A k \in Keys : ~data[k][i].estimate

(***************************************************************************)
(* Parallel execution ends: no thread waits for ever on a dependency, and  *)
(* transactions are not aborted and executed again without end.            *)
(***************************************************************************)
Termination == <>Finished

(***************************************************************************)
(* A transaction after SkipRest has no effect on the outcome ("will skip   *)
(* the execution of the trailing transactions"): a panic in resolve is due *)
(* to a delta of a transaction that was not skipped.                       *)
(***************************************************************************)
SkippedHaveNoEffect ==
  Finished /\ ResolvePanics => \E k \in AggregatorKeys : Latest(k)[LastTaken + 1] = Err
=============================================================================
