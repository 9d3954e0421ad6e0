---------------------------- MODULE SchedulerInv ----------------------------
(***************************************************************************)
(* The inductive invariant of the scheduler, from which its safety         *)
(* properties follow for every number of transactions and threads. Each    *)
(* conjunct says what the others rest on: what is in the hands of a        *)
(* thread, what the thread knows of it, what becomes of a transaction      *)
(* nobody holds.                                                           *)
(***************************************************************************)
EXTENDS Scheduler, FiniteSets

(* The threads that have a transaction of the block in hand.               *)
Tasked == Guarded \ {"claim_validation", "is_executed", "claim_execution",
                     "try_incarnate", "drop_guard"}

InHand ==
  \A t \in Threads :
    /\ pc[t] \in Tasked => task[t] \in Txns
    /\ pc[t] \in {"suspend", "wait"} => dependency[t] \in Txns
    /\ pc[t] = "notify" => condvar[t] \in Threads
    /\ pc[t] # "resume" => deps[t] = {}

GuardedThreads == {t \in Threads : pc[t] \in Guarded}
GuardsCounted == num_active_tasks = Cardinality(GuardedThreads)

(* What a thread with a transaction in hand knows of its status.           *)
ThreadKnows ==
  \A t \in Threads :
    /\ pc[t] \in {"execute", "suspend", "set_executed"} =>
         txn_status[task[t]] = Executing(incarnation[t])
    /\ pc[t] \in {"mark_estimates", "set_aborted"} =>
         txn_status[task[t]] = Aborting(incarnation[t])
    /\ pc[t] = "wait" =>
         \/ txn_status[task[t]] = Suspended(incarnation[t], t)
         \/ txn_status[task[t]] = ReadyToExecute(incarnation[t], t)
         \/ /\ txn_status[task[t]] = Executing(incarnation[t])
            /\ t \in resolved \/ \E u \in Threads : pc[u] = "notify" /\ condvar[u] = t

(* A condvar in a status is that of a thread waiting in the transaction.   *)
CondvarsWaited ==
  \A i \in Txns :
    /\ txn_status[i].kind \in {"Executing", "Executed", "Aborting"} =>
         txn_status[i].condvar = NoCondvar
    /\ txn_status[i].kind = "Suspended" => txn_status[i].condvar # NoCondvar
    /\ \A w \in Threads : txn_status[i].condvar = w => pc[w] = "wait" /\ task[w] = i

(* A thread about to be notified, or notified, waits in an execution.      *)
Notified ==
  /\ \A t, w \in Threads : pc[t] = "notify" /\ condvar[t] = w =>
       /\ pc[w] = "wait" /\ task[w] = task[t] /\ w \notin resolved
       /\ txn_status[task[w]] = Executing(incarnation[w])
  /\ \A t, u \in Threads : pc[t] = "notify" /\ pc[u] = "notify" /\ t # u
                             => condvar[t] # condvar[u]
  /\ \A w \in Threads : w \in resolved =>
       pc[w] = "wait" /\ txn_status[task[w]] = Executing(incarnation[w])

(* A transaction is on at most one list of dependents, while suspended.    *)
Lists ==
  /\ \A j \in Txns : \A d \in txn_dependency[j] : txn_status[d].kind = "Suspended"
  /\ \A t \in Threads : \A d \in deps[t] : txn_status[d].kind = "Suspended" /\ index[t] <= d
  /\ \A j, k \in Txns : j # k => txn_dependency[j] \cap txn_dependency[k] = {}
  /\ \A t \in Threads : \A j \in Txns : deps[t] \cap txn_dependency[j] = {}
  /\ \A t, u \in Threads : t # u => deps[t] \cap deps[u] = {}

(* A suspended transaction will be resumed.                                *)
WillBeResumed ==
  /\ \A t \in Threads : pc[t] = "suspend" => WillTake(dependency[t])
  /\ \A t \in Threads : pc[t] = "wait" /\ txn_status[task[t]].kind = "Suspended" =>
       \/ task[t] \in txn_dependency[dependency[t]] /\ WillTake(dependency[t])
       \/ \E u \in Threads : pc[u] = "resume" /\ task[t] \in deps[u]

(* A ready transaction will be scheduled.                                  *)
ReadyIsDue == \A i \in Txns : txn_status[i].kind = "ReadyToExecute" => Due(i)

(* A decrease of an index that decrease_cnt does not count yet.            *)
Decreased == \E u \in Threads : pc[u] \in {"count_execution", "count_suffix", "count_aborted"}

(* What a thread in check_done has seen is still so, if no decrease has    *)
(* been counted since it began.                                            *)
CheckDone ==
  /\ \A t \in Threads : t \in current =>
       /\ pc[t] \in {"check_execution_idx", "check_active_tasks"} =>
            validation_idx >= NumTxns \/ Decreased
       /\ pc[t] = "check_active_tasks" => execution_idx >= NumTxns \/ Decreased
       /\ pc[t] = "check_decrease_cnt" => AllOver
  /\ \A t \in Threads : pc[t] = "set_done" => AllOver
  /\ DoneIsOver

Inv == /\ TypeOK /\ InHand /\ GuardsCounted
       /\ ThreadKnows /\ CondvarsWaited /\ Notified /\ OneHolder
       /\ Lists /\ WillBeResumed /\ ReadyIsDue /\ CheckDone

=============================================================================
