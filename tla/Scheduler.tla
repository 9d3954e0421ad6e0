----------------------------- MODULE Scheduler -----------------------------
(***************************************************************************)
(* The collaborative scheduler of parallel block execution, and the worker *)
(* threads that share it.                                                  *)
(*                                                                         *)
(* Every access to a shared atomic and every critical section of a mutex   *)
(* is an action of its own; pc[t] is the access that thread t does next.   *)
(* What a thread does with a task is left open here: an execution meets a  *)
(* dependency on some lower transaction or finishes, a validation passes   *)
(* or fails.  BlockSTM fills that in with the versioned memory.            *)
(***************************************************************************)
EXTENDS Integers, FiniteSets

CONSTANTS NumTxns,         \* the transactions in the block
          Threads,         \* the workers, concurrency_level of them
          NoCondvar,       \* None for a DependencyCondvar
          MaxIncarnation   \* bound on the incarnation that validation may fail

ASSUME NumTxnsAssumption == NumTxns \in Nat \ {0}
ASSUME ThreadsAssumption == IsFiniteSet(Threads) /\ NoCondvar \notin Threads

VARIABLES execution_idx, validation_idx,
          num_active_tasks,
          done_marker,
          txn_dependency,   \* txn -> the transactions suspended on it
          txn_status,       \* txn -> its status and incarnation
          resolved,         \* the threads whose condvar has its flag set
          current,          \* the threads that decrease_cnt has not moved for
                            \* since they loaded it
          pc, task, incarnation,    \* per thread: where it is, its version,
          condvar, dependency,      \* the condvar to notify, the dep. awaited,
          deps, index,              \* those to resume, an index in hand,
          suffix                    \* those with revalidate_suffix

shared == <<execution_idx, validation_idx, num_active_tasks, done_marker,
            txn_dependency, txn_status, resolved, current>>
local == <<task, incarnation, condvar, dependency, deps, index, suffix>>
vars == <<shared, pc, local>>

Txns == 0 .. NumTxns - 1

(* A condvar is created for each wait, and a thread waits on one at a      *)
(* time: it is named by the thread that waits on it.                       *)
Status(kind, i, cv) == [kind |-> kind, incarnation |-> i, condvar |-> cv]
ReadyToExecute(i, cv) == Status("ReadyToExecute", i, cv)
Executing(i) == Status("Executing", i, NoCondvar)
Suspended(i, cv) == Status("Suspended", i, cv)
Executed(i) == Status("Executed", i, NoCondvar)
Aborting(i) == Status("Aborting", i, NoCondvar)

NoTxn == NumTxns

Init ==
  /\ execution_idx = 0 /\ validation_idx = 0
  /\ num_active_tasks = 0 /\ done_marker = FALSE
  /\ txn_dependency = [i \in Txns |-> {}]
  /\ txn_status = [i \in Txns |-> ReadyToExecute(0, NoCondvar)]
  /\ resolved = {}
  /\ current = {}
  /\ pc = [t \in Threads |-> "next_task"]
  /\ task = [t \in Threads |-> NoTxn]
  /\ incarnation = [t \in Threads |-> 0]
  /\ condvar = [t \in Threads |-> NoCondvar]
  /\ dependency = [t \in Threads |-> NoTxn]
  /\ deps = [t \in Threads |-> {}]
  /\ index = [t \in Threads |-> NoTxn]
  /\ suffix = {}

At(t, label) == pc[t] = label
Goto(t, label) == pc' = [pc EXCEPT ![t] = label]

-----------------------------------------------------------------------------
(* next_task: with no task in hand.  The two loads choose what is tried.   *)

NextTask(t) ==
  /\ At(t, "next_task")
  /\ Goto(t, IF done_marker THEN "done" ELSE "load_validation_idx")
  /\ UNCHANGED <<shared, local>>

LoadValidationIdx(t) ==
  /\ At(t, "load_validation_idx")
  /\ index' = [index EXCEPT ![t] = validation_idx]
  /\ Goto(t, "load_execution_idx")
  /\ UNCHANGED <<shared, task, incarnation, condvar, dependency, deps, suffix>>

LoadExecutionIdx(t) ==
  /\ At(t, "load_execution_idx")
  /\ Goto(t, IF index[t] < execution_idx THEN "try_validate" ELSE "try_execute")
  /\ index' = [index EXCEPT ![t] = NoTxn]
  /\ UNCHANGED <<shared, task, incarnation, condvar, dependency, deps, suffix>>

(* try_validate_next_version and try_execute_next_version.                 *)

TryValidate(t) ==
  /\ At(t, "try_validate")
  /\ Goto(t, IF validation_idx >= NumTxns THEN "load_decrease_cnt" ELSE "guard_validation")
  /\ UNCHANGED <<shared, local>>

TryExecute(t) ==
  /\ At(t, "try_execute")
  /\ Goto(t, IF execution_idx >= NumTxns THEN "load_decrease_cnt" ELSE "guard_execution")
  /\ UNCHANGED <<shared, local>>

Uncounted(n) == n
Counted(n) == n + 1

NewGuard(t, from, to) ==
  /\ At(t, from)
  /\ num_active_tasks' = Counted(num_active_tasks)
  /\ Goto(t, to)
  /\ UNCHANGED <<execution_idx, validation_idx, done_marker, txn_dependency,
                 txn_status, resolved, current, local>>

ClaimValidation(t) ==
  /\ At(t, "claim_validation")
  /\ task' = [task EXCEPT ![t] = validation_idx]
  /\ validation_idx' = validation_idx + 1
  /\ Goto(t, "is_executed")
  /\ UNCHANGED <<execution_idx, num_active_tasks, done_marker, txn_dependency,
                 txn_status, resolved, current, incarnation, condvar,
                 dependency, deps, index, suffix>>

ClaimExecution(t) ==
  /\ At(t, "claim_execution")
  /\ task' = [task EXCEPT ![t] = execution_idx]
  /\ execution_idx' = execution_idx + 1
  /\ Goto(t, "try_incarnate")
  /\ UNCHANGED <<validation_idx, num_active_tasks, done_marker, txn_dependency,
                 txn_status, resolved, current, incarnation, condvar,
                 dependency, deps, index, suffix>>

is_executed(i) == i < NumTxns /\ txn_status[i].kind = "Executed"

IsExecuted(t) ==
  /\ At(t, "is_executed")
  /\ IF is_executed(task[t])
     THEN /\ incarnation' = [incarnation EXCEPT ![t] = txn_status[task[t]].incarnation]
          /\ Goto(t, "validate")
     ELSE /\ Goto(t, "drop_guard")
          /\ UNCHANGED incarnation
  /\ UNCHANGED <<shared, task, condvar, dependency, deps, index, suffix>>

(* The status becomes Executing.  The task is to execute, or to notify the *)
(* thread that was suspended in the execution.                             *)
ExecutesAnew(cv) == "execute"
ExecutesOrNotifies(cv) == IF cv = NoCondvar THEN "execute" ELSE "notify"

TryIncarnate(t) ==
  LET s == txn_status[task[t]] IN
  /\ At(t, "try_incarnate")
  /\ IF task[t] < NumTxns /\ s.kind = "ReadyToExecute"
     THEN /\ txn_status' = [txn_status EXCEPT ![task[t]] = Executing(s.incarnation)]
          /\ incarnation' = [incarnation EXCEPT ![t] = s.incarnation]
          /\ condvar' = [condvar EXCEPT ![t] = s.condvar]
          /\ Goto(t, ExecutesOrNotifies(s.condvar))
     ELSE /\ Goto(t, "drop_guard")
          /\ UNCHANGED <<txn_status, incarnation, condvar>>
  /\ UNCHANGED <<execution_idx, validation_idx, num_active_tasks, done_marker,
                 txn_dependency, resolved, current, task, dependency, deps,
                 index, suffix>>

(* work_task_with_scope, ExecutionTask with a condvar.                     *)
Notify(t) ==
  /\ At(t, "notify")
  /\ resolved' = resolved \cup {condvar[t]}
  /\ Goto(t, "drop_guard")
  /\ UNCHANGED <<execution_idx, validation_idx, num_active_tasks, done_marker,
                 txn_dependency, txn_status, current, local>>

(* The guard goes out of scope: there is no task.                          *)
DropGuard(t) ==
  /\ At(t, "drop_guard")
  /\ num_active_tasks' = num_active_tasks - 1
  /\ Goto(t, "next_task")
  /\ task' = [task EXCEPT ![t] = NoTxn]
  /\ incarnation' = [incarnation EXCEPT ![t] = 0]
  /\ condvar' = [condvar EXCEPT ![t] = NoCondvar]
  /\ dependency' = [dependency EXCEPT ![t] = NoTxn]
  /\ deps' = [deps EXCEPT ![t] = {}]
  /\ index' = [index EXCEPT ![t] = NoTxn]
  /\ suffix' = suffix \ {t}
  /\ UNCHANGED <<execution_idx, validation_idx, done_marker, txn_dependency,
                 txn_status, resolved, current>>

-----------------------------------------------------------------------------
(* check_done.  decrease_cnt only grows and is only compared with an       *)
(* earlier load of itself: the comparison succeeds iff nobody added to it  *)
(* in between.  A load whose value already decides the answer is followed  *)
(* by no further load.                                                     *)

LoadDecreaseCnt(t) ==
  /\ At(t, "load_decrease_cnt")
  /\ current' = current \cup {t}
  /\ Goto(t, "check_validation_idx")
  /\ UNCHANGED <<execution_idx, validation_idx, num_active_tasks, done_marker,
                 txn_dependency, txn_status, resolved, local>>

CheckLoad(t, from, holds, to) ==
  /\ At(t, from)
  /\ Goto(t, IF holds THEN to ELSE "next_task")
  /\ current' = IF holds THEN current ELSE current \ {t}
  /\ UNCHANGED <<execution_idx, validation_idx, num_active_tasks, done_marker,
                 txn_dependency, txn_status, resolved, local>>

CheckValidationIdx(t) ==
  CheckLoad(t, "check_validation_idx", validation_idx >= NumTxns, "check_execution_idx")

CheckExecutionIdx(t) ==
  CheckLoad(t, "check_execution_idx", execution_idx >= NumTxns, "check_active_tasks")

CheckActiveTasks(t) ==
  CheckLoad(t, "check_active_tasks", num_active_tasks = 0, "check_decrease_cnt")

AnyCount(t) == TRUE
SameCount(t) == t \in current

CheckDecreaseCnt(t) ==
  CheckLoad(t, "check_decrease_cnt", SameCount(t), "set_done")

SetDone(t) ==
  /\ At(t, "set_done")
  /\ done_marker' = TRUE
  /\ current' = current \ {t}
  /\ Goto(t, "next_task")
  /\ UNCHANGED <<execution_idx, validation_idx, num_active_tasks,
                 txn_dependency, txn_status, resolved, local>>

-----------------------------------------------------------------------------
(* An execution that meets an estimate of transaction d.                   *)

(* wait_for_dependency locks the dependency list of d and looks at d.      *)
NeverLocked(i) == FALSE
Locked(i) == \E u \in Threads : At(u, "suspend") /\ dependency[u] = i

MeetDependency(t, d) ==
  /\ At(t, "execute")
  /\ ~Locked(d)
  /\ IF is_executed(d)
     THEN UNCHANGED <<pc, dependency>>
     ELSE /\ Goto(t, "suspend")
          /\ dependency' = [dependency EXCEPT ![t] = d]
  /\ UNCHANGED <<shared, task, incarnation, condvar, deps, index, suffix>>

(* suspend, the push, and the release of the lock.                         *)
Suspend(t) ==
  LET i == task[t] IN
  /\ At(t, "suspend")
  /\ txn_status' = [txn_status EXCEPT ![i] = Suspended(@.incarnation, t)]
  /\ txn_dependency' = [txn_dependency EXCEPT ![dependency[t]] = @ \cup {i}]
  /\ resolved' = resolved \ {t}
  /\ Goto(t, "wait")
  /\ UNCHANGED <<execution_idx, validation_idx, num_active_tasks, done_marker,
                 current, local>>

Wait(t) ==
  /\ At(t, "wait")
  /\ t \in resolved
  /\ resolved' = resolved \ {t}
  /\ dependency' = [dependency EXCEPT ![t] = NoTxn]
  /\ Goto(t, "execute")
  /\ UNCHANGED <<execution_idx, validation_idx, num_active_tasks, done_marker,
                 txn_dependency, txn_status, current, task, incarnation,
                 condvar, deps, index, suffix>>

-----------------------------------------------------------------------------
(* finish_execution.                                                       *)

Finish(t, revalidate) ==
  /\ At(t, "execute")
  /\ suffix' = IF revalidate THEN suffix \cup {t} ELSE suffix \ {t}
  /\ Goto(t, "set_executed")
  /\ UNCHANGED <<shared, task, incarnation, condvar, dependency, deps, index>>

SetExecuted(t) ==
  /\ At(t, "set_executed")
  /\ txn_status' = [txn_status EXCEPT ![task[t]] = Executed(incarnation[t])]
  /\ Goto(t, "take_deps")
  /\ UNCHANGED <<execution_idx, validation_idx, num_active_tasks, done_marker,
                 txn_dependency, resolved, current, local>>

LeftAfterClone(list) == list
LeftAfterTake(list) == {}

TakeDeps(t) ==
  LET taken == txn_dependency[task[t]] IN
  /\ At(t, "take_deps")
  /\ ~Locked(task[t])
  /\ txn_dependency' = [txn_dependency EXCEPT ![task[t]] = LeftAfterTake(@)]
  /\ deps' = [deps EXCEPT ![t] = taken]
  /\ \E least \in taken \cup {NoTxn} :
       /\ \A d \in taken : least <= d
       /\ index' = [index EXCEPT ![t] = least]
  /\ Goto(t, IF taken = {} THEN "load_validation" ELSE "resume")
  /\ UNCHANGED <<execution_idx, validation_idx, num_active_tasks, done_marker,
                 txn_status, resolved, current, task, incarnation, condvar,
                 dependency, suffix>>

Resume(t) ==
  /\ At(t, "resume")
  /\ \E d \in deps[t] :
       /\ txn_status' = [txn_status EXCEPT ![d] = ReadyToExecute(@.incarnation, @.condvar)]
       /\ deps' = [deps EXCEPT ![t] = @ \ {d}]
       /\ Goto(t, IF deps[t] = {d} THEN "decrease_execution_idx" ELSE "resume")
  /\ UNCHANGED <<execution_idx, validation_idx, num_active_tasks, done_marker,
                 txn_dependency, resolved, current, task, incarnation, condvar,
                 dependency, index, suffix>>

(* fetch_min on an index, then the addition to decrease_cnt if it went     *)
(* down.                                                                   *)
Least(a, b) == IF a <= b THEN a ELSE b

DecreaseExecutionIdx(t) ==
  /\ At(t, "decrease_execution_idx")
  /\ execution_idx' = Least(execution_idx, index[t])
  /\ Goto(t, IF execution_idx > index[t] THEN "count_execution" ELSE "load_validation")
  /\ index' = [index EXCEPT ![t] = NoTxn]
  /\ UNCHANGED <<validation_idx, num_active_tasks, done_marker, txn_dependency,
                 txn_status, resolved, current, task, incarnation, condvar,
                 dependency, deps, suffix>>

Count(t, from, to) ==
  /\ At(t, from)
  /\ current' = {}
  /\ Goto(t, to)
  /\ UNCHANGED <<execution_idx, validation_idx, num_active_tasks, done_marker,
                 txn_dependency, txn_status, resolved, local>>

DecreaseValidationIdx(t, from, target, counted, to) ==
  /\ At(t, from)
  /\ validation_idx' = Least(validation_idx, target)
  /\ Goto(t, IF validation_idx > target THEN counted ELSE to)
  /\ UNCHANGED <<execution_idx, num_active_tasks, done_marker, txn_dependency,
                 txn_status, resolved, current, local>>

(* Validate this version at once, or make the suffix be validated again.   *)
LoadValidation(t) ==
  /\ At(t, "load_validation")
  /\ Goto(t, IF validation_idx <= task[t] THEN "drop_guard"
             ELSE IF t \in suffix THEN "decrease_suffix" ELSE "validate")
  /\ UNCHANGED <<shared, local>>

-----------------------------------------------------------------------------
(* The end of a validation, try_abort and finish_abort.                    *)

Pass(t) ==
  /\ At(t, "validate")
  /\ Goto(t, "drop_guard")
  /\ UNCHANGED <<shared, local>>

Fail(t) ==
  /\ At(t, "validate")
  /\ Goto(t, "try_abort")
  /\ UNCHANGED <<shared, local>>

AbortableLatest(s, i) == s.kind = "Executed"
Abortable(s, i) == s = Executed(i)

TryAbort(t) ==
  LET i == task[t] IN
  /\ At(t, "try_abort")
  /\ IF Abortable(txn_status[i], incarnation[t])
     THEN /\ txn_status' = [txn_status EXCEPT ![i] = Aborting(incarnation[t])]
          /\ Goto(t, "mark_estimates")
     ELSE /\ Goto(t, "drop_guard")
          /\ UNCHANGED txn_status
  /\ UNCHANGED <<execution_idx, validation_idx, num_active_tasks, done_marker,
                 txn_dependency, resolved, current, local>>

EstimatesMarked(t) ==
  /\ At(t, "mark_estimates")
  /\ Goto(t, "set_aborted")
  /\ UNCHANGED <<shared, local>>

SameIncarnation(i) == i
NextIncarnation(i) == i + 1

SetAborted(t) ==
  /\ At(t, "set_aborted")
  /\ txn_status' = [txn_status EXCEPT
                      ![task[t]] = ReadyToExecute(NextIncarnation(incarnation[t]), NoCondvar)]
  /\ Goto(t, "decrease_aborted")
  /\ UNCHANGED <<execution_idx, validation_idx, num_active_tasks, done_marker,
                 txn_dependency, resolved, current, local>>

LoadExecution(t) ==
  /\ At(t, "load_execution")
  /\ Goto(t, IF execution_idx > task[t] THEN "try_incarnate" ELSE "drop_guard")
  /\ UNCHANGED <<shared, local>>

-----------------------------------------------------------------------------
(* The steps of a thread inside the scheduler, and with its task left open *)

SchedulerStep(t) ==
  \/ NextTask(t) \/ LoadValidationIdx(t) \/ LoadExecutionIdx(t)
  \/ TryValidate(t) \/ NewGuard(t, "guard_validation", "claim_validation")
  \/ ClaimValidation(t) \/ IsExecuted(t)
  \/ TryExecute(t) \/ NewGuard(t, "guard_execution", "claim_execution")
  \/ ClaimExecution(t) \/ TryIncarnate(t) \/ Notify(t) \/ DropGuard(t)
  \/ LoadDecreaseCnt(t) \/ CheckValidationIdx(t) \/ CheckExecutionIdx(t)
  \/ CheckActiveTasks(t) \/ CheckDecreaseCnt(t) \/ SetDone(t)
  \/ Suspend(t) \/ Wait(t)
  \/ SetExecuted(t) \/ TakeDeps(t) \/ Resume(t)
  \/ DecreaseExecutionIdx(t) \/ Count(t, "count_execution", "load_validation")
  \/ LoadValidation(t)
  \/ DecreaseValidationIdx(t, "decrease_suffix", task[t], "count_suffix", "drop_guard")
  \/ Count(t, "count_suffix", "drop_guard")
  \/ TryAbort(t) \/ SetAborted(t)
  \/ DecreaseValidationIdx(t, "decrease_aborted", task[t] + 1,
                           "count_aborted", "load_execution")
  \/ Count(t, "count_aborted", "load_execution")
  \/ LoadExecution(t)

TaskStep(t) ==
  \/ \E d \in Txns : d < task[t] /\ MeetDependency(t, d)
  \/ \E b \in BOOLEAN : Finish(t, b)
  \/ Pass(t)
  \/ incarnation[t] < MaxIncarnation /\ Fail(t)
  \/ EstimatesMarked(t)

Next == \E t \in Threads : SchedulerStep(t) \/ TaskStep(t)

Spec == Init /\ [][Next]_vars

-----------------------------------------------------------------------------
(* Where a thread holds a TaskGuard.                                       *)
Unguarded == {"next_task", "done", "load_validation_idx", "load_execution_idx",
              "try_validate", "guard_validation", "try_execute",
              "guard_execution", "load_decrease_cnt", "check_validation_idx",
              "check_execution_idx", "check_active_tasks",
              "check_decrease_cnt", "set_done"}
Guarded == {"claim_validation", "is_executed", "claim_execution",
            "try_incarnate", "notify", "drop_guard", "validate", "execute",
            "suspend", "wait", "set_executed", "take_deps", "resume",
            "decrease_execution_idx", "count_execution", "load_validation",
            "decrease_suffix", "count_suffix", "try_abort", "mark_estimates",
            "set_aborted", "decrease_aborted", "count_aborted",
            "load_execution"}

Labels == Guarded \cup Unguarded

Kinds == {"ReadyToExecute", "Executing", "Suspended", "Executed", "Aborting"}
Statuses == [kind : Kinds, incarnation : Nat, condvar : Threads \cup {NoCondvar}]

(* The types of the scheduler's state and of the workers' local state.     *)
TypeOK ==
  /\ execution_idx \in Nat /\ validation_idx \in Nat
  /\ num_active_tasks \in Nat
  /\ done_marker \in BOOLEAN
  /\ txn_dependency \in [Txns -> SUBSET Txns]
  /\ txn_status \in [Txns -> Statuses]
  /\ resolved \subseteq Threads
  /\ current \subseteq Threads
  /\ pc \in [Threads -> Labels]
  /\ task \in [Threads -> Nat] /\ incarnation \in [Threads -> Nat]
  /\ condvar \in [Threads -> Threads \cup {NoCondvar}]
  /\ dependency \in [Threads -> Nat]
  /\ deps \in [Threads -> SUBSET Txns] /\ index \in [Threads -> Nat]
  /\ suffix \subseteq Threads

(***************************************************************************)
(* The scheduler's own assertions.  suspend and resume are never in their  *)
(* unreachable!() branches, the debug_asserts of set_executed_status and   *)
(* set_aborted_status hold, and a dropped guard was counted: whatever the  *)
(* threads do, each finds the status that its task promised it.            *)
(***************************************************************************)
AssertionsHold ==
  \A t \in Threads :
    /\ At(t, "suspend") => txn_status[task[t]].kind = "Executing"
    /\ At(t, "resume") => \A d \in deps[t] : txn_status[d].kind = "Suspended"
    /\ At(t, "set_executed") => txn_status[task[t]] = Executing(incarnation[t])
    /\ At(t, "set_aborted") => txn_status[task[t]] = Aborting(incarnation[t])
    /\ At(t, "drop_guard") => num_active_tasks > 0

(***************************************************************************)
(* done_marker is set only when all is over: every transaction has been    *)
(* executed and is not being aborted, nothing is left to execute or to     *)
(* validate, and no thread holds a version.  check_done reads the four     *)
(* atomics one after the other, while the others go on.                    *)
(***************************************************************************)
Quiet(t) ==
  \/ pc[t] \in Unguarded \cup {"claim_validation", "claim_execution", "drop_guard"}
  \/ pc[t] \in {"is_executed", "try_incarnate"} /\ task[t] >= NumTxns

AllOver ==
  /\ \A i \in Txns : txn_status[i].kind = "Executed"
  /\ execution_idx >= NumTxns /\ validation_idx >= NumTxns
  /\ \A t \in Threads : Quiet(t)

DoneIsOver == done_marker => AllOver

(***************************************************************************)
(* No wakeup is lost: a thread that waits is still on the list of the      *)
(* transaction it depends on and that one has yet to finish and take the   *)
(* list, or it is about to be resumed by the thread that took it, or ready *)
(* and due to be scheduled (the execution index has not passed it, or a    *)
(* thread will decrease the index or is on it), or about to be notified,   *)
(* or notified.                                                            *)
(***************************************************************************)
Brings(u, i) ==
  \/ pc[u] \in {"resume", "decrease_execution_idx"} /\ index[u] <= i
  \/ At(u, "try_incarnate") /\ task[u] = i
  \/ pc[u] \in {"decrease_aborted", "count_aborted", "load_execution"} /\ task[u] = i

Due(i) == execution_idx <= i \/ \E u \in Threads : Brings(u, i)

WillTake(d) ==
  \/ txn_status[d].kind # "Executed"
  \/ \E u \in Threads : At(u, "take_deps") /\ task[u] = d

NoLostWakeup ==
  \A t \in Threads : At(t, "wait") =>
    \/ /\ txn_status[task[t]] = Suspended(incarnation[t], t)
       /\ \/ task[t] \in txn_dependency[dependency[t]] /\ WillTake(dependency[t])
          \/ \E u \in Threads : At(u, "resume") /\ task[t] \in deps[u]
    \/ txn_status[task[t]] = ReadyToExecute(incarnation[t], t) /\ Due(task[t])
    \/ /\ txn_status[task[t]] = Executing(incarnation[t])
       /\ t \in resolved \/ \E u \in Threads : At(u, "notify") /\ condvar[u] = t

(***************************************************************************)
(* Exactly one thread has an incarnation: each transaction is executed or  *)
(* aborted by one thread at a time, and every transaction that is not      *)
(* ready and not executed is in the hands of a thread.                     *)
(***************************************************************************)
Holding == {"execute", "suspend", "wait", "set_executed", "mark_estimates", "set_aborted"}

OneHolder ==
  /\ \A t, u \in Threads : pc[t] \in Holding /\ pc[u] \in Holding /\ t # u
                             => task[t] # task[u]
  /\ \A i \in Txns : txn_status[i].kind \in {"Executing", "Suspended", "Aborting"}
                       => \E t \in Threads : pc[t] \in Holding /\ task[t] = i

(***************************************************************************)
(* The status of a transaction moves as the diagram in scheduler.rs draws  *)
(* it: an incarnation is executed once, and followed by the next one only  *)
(* after it was aborted.                                                   *)
(***************************************************************************)
Moves(s, r) ==
  \/ s.kind = "ReadyToExecute" /\ r = Executing(s.incarnation)
  \/ s.kind = "Executing" /\ r.kind = "Suspended" /\ r.incarnation = s.incarnation
  \/ s.kind = "Suspended" /\ r = ReadyToExecute(s.incarnation, s.condvar)
  \/ s.kind = "Executing" /\ r = Executed(s.incarnation)
  \/ s.kind = "Executed" /\ r = Aborting(s.incarnation)
  \/ s.kind = "Aborting" /\ r = ReadyToExecute(s.incarnation + 1, NoCondvar)

StatusDiagram ==
  [][\A i \in Txns : txn_status[i] = txn_status'[i] \/ Moves(txn_status[i], txn_status'[i])]_vars
=============================================================================
