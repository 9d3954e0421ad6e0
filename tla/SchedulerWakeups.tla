-------------------------- MODULE SchedulerWakeups --------------------------
(***************************************************************************)
(* The steps of the scheduler keep what threads know of statuses, the      *)
(* waits on condition variables and the lists of dependents: a suspended   *)
(* transaction will be resumed; and they keep the types.                   *)
(***************************************************************************)
EXTENDS SchedulerInv, FiniteSetTheorems, TLAPS

(* The time for a step that names no prover.                               *)
USE SMTT(45), ZenonT(20)

(* The constructors of TransactionStatus make statuses.                    *)
LEMMA StatusTypes ==
  ASSUME NEW i \in Nat, NEW t \in Threads \cup {NoCondvar}
  PROVE  /\ ReadyToExecute(i, t) \in Statuses /\ Suspended(i, t) \in Statuses
         /\ Executing(i) \in Statuses /\ Executed(i) \in Statuses /\ Aborting(i) \in Statuses
  BY DEF ReadyToExecute, Suspended, Executing, Executed, Aborting, Status, Statuses, Kinds

(* The parts of a status.                                                  *)
LEMMA StatusParts ==
  ASSUME NEW s \in Statuses
  PROVE  s.incarnation \in Nat /\ s.condvar \in Threads \cup {NoCondvar}
  BY DEF Statuses

(* An index below NumTxns is a transaction of the block.                   *)
LEMMA TxnIs ==
  ASSUME NumTxnsAssumption, NEW i \in Nat, i < NumTxns
  PROVE  i \in Txns
  BY NumTxnsAssumption DEF Txns

PcType == pc \in [Threads -> Labels]
StatusType == txn_status \in [Txns -> Statuses]
LocalType ==
  /\ task \in [Threads -> Nat] /\ incarnation \in [Threads -> Nat]
  /\ condvar \in [Threads -> Threads \cup {NoCondvar}]
  /\ dependency \in [Threads -> Nat]
  /\ index \in [Threads -> Nat]
ListType == txn_dependency \in [Txns -> SUBSET Txns] /\ deps \in [Threads -> SUBSET Txns]
OtherType == 
  /\ execution_idx \in Nat /\ validation_idx \in Nat
  /\ done_marker \in BOOLEAN
  /\ num_active_tasks \in Nat
  /\ resolved \subseteq Threads
  /\ current \subseteq Threads
  /\ suffix \subseteq Threads

(***************************************************************************)
(* Most steps take a thread from one place where it has no say over a      *)
(* transaction's status to another, and change nothing that the invariants *)
(* about transactions mention.                                             *)
(***************************************************************************)
Special == Holding \cup {"notify", "try_incarnate", "take_deps", "resume",
                         "decrease_execution_idx", "decrease_aborted",
                         "count_aborted", "load_execution"}

Aside(t) ==
  /\ UNCHANGED <<execution_idx, txn_dependency, txn_status, resolved, deps>>
  /\ pc[t] \notin Special /\ pc'[t] \notin Special
  /\ \A u \in Threads \ {t} :
       /\ pc'[u] = pc[u] /\ task'[u] = task[u] /\ incarnation'[u] = incarnation[u]
       /\ condvar'[u] = condvar[u] /\ dependency'[u] = dependency[u]
       /\ index'[u] = index[u]

(* A step is one of those, or one of the few that matter to the transactions.  *)
LEMMA StepCases ==
  ASSUME PcType, LocalType, ListType, InHand, [Next]_vars
  PROVE  \/ UNCHANGED vars
         \/ \E t \in Threads :
              \/ Aside(t)
              \/ ClaimExecution(t)
              \/ TryIncarnate(t)
              \/ Notify(t)
              \/ Suspend(t)
              \/ Wait(t)
              \/ SetExecuted(t)
              \/ TakeDeps(t)
              \/ Resume(t)
              \/ DecreaseExecutionIdx(t)
              \/ TryAbort(t)
              \/ SetAborted(t)
              \/ DecreaseValidationIdx(t, "decrease_aborted", task[t] + 1, "count_aborted", "load_execution")
              \/ Count(t, "count_aborted", "load_execution")
              \/ LoadExecution(t)
              \/ \E d \in Txns : MeetDependency(t, d)
              \/ \E b \in BOOLEAN : Finish(t, b)
              \/ EstimatesMarked(t)
<1>1. ASSUME NEW t \in Threads, NextTask(t) PROVE Aside(t)
  BY <1>1 DEF NextTask, Goto, At, shared, local, PcType, LocalType, ListType, InHand, Aside,
     Special, Holding
<1>2. ASSUME NEW t \in Threads, LoadValidationIdx(t) PROVE Aside(t)
  BY <1>2 DEF LoadValidationIdx, Goto, At, shared, local, PcType, LocalType, ListType, InHand,
     Aside, Special, Holding
<1>3. ASSUME NEW t \in Threads, LoadExecutionIdx(t) PROVE Aside(t)
  BY <1>3 DEF LoadExecutionIdx, Goto, At, shared, local, PcType, LocalType, ListType, InHand,
     Aside, Special, Holding
<1>4. ASSUME NEW t \in Threads, TryValidate(t) PROVE Aside(t)
  BY <1>4 DEF TryValidate, Goto, At, shared, local, PcType, LocalType, ListType, InHand, Aside,
     Special, Holding
<1>5. ASSUME NEW t \in Threads, NewGuard(t, "guard_validation", "claim_validation") PROVE Aside(t)
  BY <1>5 DEF NewGuard, Counted, Goto, At, shared, local, PcType, LocalType, ListType, InHand,
     Aside, Special, Holding
<1>6. ASSUME NEW t \in Threads, ClaimValidation(t) PROVE Aside(t)
  BY <1>6 DEF ClaimValidation, Goto, At, shared, local, PcType, LocalType, ListType, InHand,
     Aside, Special, Holding
<1>7. ASSUME NEW t \in Threads, IsExecuted(t) PROVE Aside(t)
  BY <1>7 DEF IsExecuted, is_executed, Goto, At, shared, local, PcType, LocalType, ListType,
     InHand, Aside, Special, Holding
<1>8. ASSUME NEW t \in Threads, TryExecute(t) PROVE Aside(t)
  BY <1>8 DEF TryExecute, Goto, At, shared, local, PcType, LocalType, ListType, InHand, Aside,
     Special, Holding
<1>9. ASSUME NEW t \in Threads, NewGuard(t, "guard_execution", "claim_execution") PROVE Aside(t)
  BY <1>9 DEF NewGuard, Counted, Goto, At, shared, local, PcType, LocalType, ListType, InHand,
     Aside, Special, Holding
<1>10. ASSUME NEW t \in Threads, DropGuard(t) PROVE Aside(t)
  BY <1>10 DEF DropGuard, Goto, At, shared, local, PcType, LocalType, ListType, InHand, Aside,
     Special, Holding
<1>11. ASSUME NEW t \in Threads, LoadDecreaseCnt(t) PROVE Aside(t)
  BY <1>11 DEF LoadDecreaseCnt, Goto, At, shared, local, PcType, LocalType, ListType, InHand,
     Aside, Special, Holding
<1>12. ASSUME NEW t \in Threads, CheckValidationIdx(t) PROVE Aside(t)
  BY <1>12 DEF CheckValidationIdx, CheckLoad, Goto, At, shared, local, PcType, LocalType,
     ListType, InHand, Aside, Special, Holding
<1>13. ASSUME NEW t \in Threads, CheckExecutionIdx(t) PROVE Aside(t)
  BY <1>13 DEF CheckExecutionIdx, CheckLoad, Goto, At, shared, local, PcType, LocalType,
     ListType, InHand, Aside, Special, Holding
<1>14. ASSUME NEW t \in Threads, CheckActiveTasks(t) PROVE Aside(t)
  BY <1>14 DEF CheckActiveTasks, CheckLoad, Goto, At, shared, local, PcType, LocalType,
     ListType, InHand, Aside, Special, Holding
<1>15. ASSUME NEW t \in Threads, CheckDecreaseCnt(t) PROVE Aside(t)
  BY <1>15 DEF CheckDecreaseCnt, CheckLoad, SameCount, Goto, At, shared, local, PcType,
     LocalType, ListType, InHand, Aside, Special, Holding
<1>16. ASSUME NEW t \in Threads, SetDone(t) PROVE Aside(t)
  BY <1>16 DEF SetDone, Goto, At, shared, local, PcType, LocalType, ListType, InHand, Aside,
     Special, Holding
<1>17. ASSUME NEW t \in Threads, Count(t, "count_execution", "load_validation") PROVE Aside(t)
  BY <1>17 DEF Count, Goto, At, shared, local, PcType, LocalType, ListType, InHand, Aside,
     Special, Holding
<1>18. ASSUME NEW t \in Threads, LoadValidation(t) PROVE Aside(t)
  BY <1>18 DEF LoadValidation, Goto, At, shared, local, PcType, LocalType, ListType, InHand,
     Aside, Special, Holding
<1>19. ASSUME NEW t \in Threads, DecreaseValidationIdx(t, "decrease_suffix", task[t], "count_suffix", "drop_guard") PROVE Aside(t)
  BY <1>19 DEF DecreaseValidationIdx, Least, Goto, At, shared, local, PcType, LocalType,
     ListType, InHand, Aside, Special, Holding
<1>20. ASSUME NEW t \in Threads, Count(t, "count_suffix", "drop_guard") PROVE Aside(t)
  BY <1>20 DEF Count, Goto, At, shared, local, PcType, LocalType, ListType, InHand, Aside,
     Special, Holding
<1>21. ASSUME NEW t \in Threads, Pass(t) PROVE Aside(t)
  BY <1>21 DEF Pass, Goto, At, shared, local, PcType, LocalType, ListType, InHand, Aside,
     Special, Holding
<1>22. ASSUME NEW t \in Threads, Fail(t) PROVE Aside(t)
  BY <1>22 DEF Fail, Goto, At, shared, local, PcType, LocalType, ListType, InHand, Aside,
     Special, Holding
<1> QED
  BY <1>1, <1>2, <1>3, <1>4, <1>5, <1>6, <1>7, <1>8, <1>9, <1>10, <1>11, <1>12, <1>13, <1>14,
     <1>15, <1>16, <1>17, <1>18, <1>19, <1>20, <1>21, <1>22
  DEF Next, SchedulerStep, TaskStep

(* The fields of a status.                                                 *)
LEMMA Fields ==
  ASSUME NEW i, NEW cv
  PROVE  /\ ReadyToExecute(i, cv).kind = "ReadyToExecute" /\ Suspended(i, cv).kind = "Suspended"
         /\ Executing(i).kind = "Executing" /\ Executed(i).kind = "Executed"
         /\ Aborting(i).kind = "Aborting"
         /\ ReadyToExecute(i, cv).incarnation = i /\ Suspended(i, cv).incarnation = i
         /\ Executing(i).incarnation = i /\ Executed(i).incarnation = i
         /\ Aborting(i).incarnation = i
         /\ ReadyToExecute(i, cv).condvar = cv /\ Suspended(i, cv).condvar = cv
         /\ Executing(i).condvar = NoCondvar /\ Executed(i).condvar = NoCondvar
         /\ Aborting(i).condvar = NoCondvar
  BY Zenon DEF ReadyToExecute, Suspended, Executing, Executed, Aborting, Status

LEMMA ExecutingFields ==
  \A i : /\ Executing(i).kind = "Executing" /\ Executing(i).incarnation = i
        /\ Executing(i).condvar = NoCondvar
  BY Zenon, Fields

LEMMA SuspendedFields ==
  \A i, cv : /\ Suspended(i, cv).kind = "Suspended" /\ Suspended(i, cv).incarnation = i
            /\ Suspended(i, cv).condvar = cv
  BY Zenon DEF Suspended, Status

LEMMA ReadyFields ==
  \A i, cv : /\ ReadyToExecute(i, cv).kind = "ReadyToExecute"
            /\ ReadyToExecute(i, cv).incarnation = i /\ ReadyToExecute(i, cv).condvar = cv
  BY Zenon DEF ReadyToExecute, Status

LEMMA ExecutedFields ==
  \A i : /\ Executed(i).kind = "Executed" /\ Executed(i).incarnation = i
        /\ Executed(i).condvar = NoCondvar
  BY Zenon, Fields

LEMMA AbortingFields ==
  \A i : /\ Aborting(i).kind = "Aborting" /\ Aborting(i).incarnation = i
        /\ Aborting(i).condvar = NoCondvar
  BY Zenon, Fields

LEMMA ReadyOne ==
  ASSUME NEW i, NEW j, NEW v, NEW w, ReadyToExecute(i, v) = ReadyToExecute(j, w)
  PROVE  i = j /\ v = w
  BY Fields

LEMMA ReadyIs ==
  ASSUME NEW s \in Statuses, s.kind = "ReadyToExecute"
  PROVE  s = ReadyToExecute(s.incarnation, s.condvar)
  BY Zenon DEF ReadyToExecute, Status, Statuses

(***************************************************************************)
(* What the steps do to the statuses, to the condvars and to the threads   *)
(* that hold a transaction.                                                *)
(***************************************************************************)
Only(t) ==
  \A u \in Threads \ {t} :
    /\ pc'[u] = pc[u] /\ task'[u] = task[u] /\ incarnation'[u] = incarnation[u]
    /\ condvar'[u] = condvar[u]

SameVersion(t) == task'[t] = task[t] /\ incarnation'[t] = incarnation[t]

Becomes(i, s) ==
  /\ i \in Txns /\ txn_status'[i] = s
  /\ \A j \in Txns \ {i} : txn_status'[j] = txn_status[j]

Idles(t) ==
  /\ Only(t) /\ UNCHANGED <<txn_status, resolved>>
  /\ pc[t] \notin Holding \cup {"notify"} /\ pc'[t] \notin Holding \cup {"notify"}

Keeps(t) ==
  /\ Only(t) /\ UNCHANGED <<txn_status, resolved>> /\ SameVersion(t)
  /\ \/ pc[t] = "execute" /\ pc'[t] \in {"execute", "suspend", "set_executed"}
     \/ pc[t] = "mark_estimates" /\ pc'[t] = "set_aborted"

Incarnates(t) ==
  /\ Only(t) /\ UNCHANGED resolved /\ task'[t] = task[t]
  /\ pc[t] = "try_incarnate"
  /\ txn_status[task[t]] = ReadyToExecute(incarnation'[t], condvar'[t])
  /\ Becomes(task[t], Executing(incarnation'[t]))
  /\ \/ condvar'[t] = NoCondvar /\ pc'[t] = "execute"
     \/ condvar'[t] # NoCondvar /\ pc'[t] = "notify"

Notifies(t) ==
  /\ Only(t) /\ UNCHANGED txn_status
  /\ pc[t] = "notify" /\ pc'[t] = "drop_guard"
  /\ condvar[t] \in Threads /\ resolved' = resolved \cup {condvar[t]}

Suspends(t) ==
  /\ Only(t) /\ SameVersion(t) /\ resolved' = resolved \ {t}
  /\ pc[t] = "suspend" /\ pc'[t] = "wait"
  /\ Becomes(task[t], Suspended(txn_status[task[t]].incarnation, t))

Wakes(t) ==
  /\ Only(t) /\ SameVersion(t) /\ UNCHANGED txn_status
  /\ t \in resolved /\ resolved' = resolved \ {t}
  /\ pc[t] = "wait" /\ pc'[t] = "execute"

Executes(t) ==
  /\ Only(t) /\ SameVersion(t) /\ UNCHANGED resolved
  /\ pc[t] = "set_executed" /\ pc'[t] = "take_deps"
  /\ Becomes(task[t], Executed(incarnation[t]))

Resumes(t, d) ==
  /\ Only(t) /\ UNCHANGED resolved
  /\ pc[t] = "resume" /\ pc'[t] \in {"resume", "decrease_execution_idx"}
  /\ txn_status[d].kind = "Suspended"
  /\ Becomes(d, ReadyToExecute(txn_status[d].incarnation, txn_status[d].condvar))

Aborts(t) ==
  /\ Only(t) /\ SameVersion(t) /\ UNCHANGED resolved
  /\ pc[t] = "try_abort" /\ pc'[t] = "mark_estimates"
  /\ txn_status[task[t]] = Executed(incarnation[t])
  /\ Becomes(task[t], Aborting(incarnation[t]))

Readies(t) ==
  /\ Only(t) /\ SameVersion(t) /\ UNCHANGED resolved
  /\ pc[t] = "set_aborted" /\ pc'[t] = "decrease_aborted"
  /\ Becomes(task[t], ReadyToExecute(incarnation[t] + 1, NoCondvar))

StatusStep(t) ==
  \/ Idles(t) \/ Keeps(t) \/ Incarnates(t) \/ Notifies(t) \/ Suspends(t) \/ Wakes(t)
  \/ Executes(t) \/ (\E d \in Txns : Resumes(t, d)) \/ Aborts(t) \/ Readies(t)

LEMMA StatusSteps ==
  ASSUME NumTxnsAssumption, PcType, StatusType, LocalType, ListType, InHand, Lists, [Next]_vars
  PROVE  UNCHANGED vars \/ \E t \in Threads : StatusStep(t)
<1>1. ASSUME NEW t \in Threads, Aside(t) PROVE Idles(t)
  BY Zenon, <1>1 DEF Aside, Special, Idles, Only, Holding
<1>2. ASSUME NEW t \in Threads, ClaimExecution(t)
      PROVE  Idles(t)
  BY Zenon, <1>2 DEF ClaimExecution, Idles, Goto, At, shared, local, PcType, LocalType, StatusType,
     ListType, InHand, Tasked, Guarded, Only, SameVersion, Becomes, Holding
<1>3. ASSUME NEW t \in Threads, TryIncarnate(t)
      PROVE  Idles(t) \/ Incarnates(t)
  <2> DEFINE s == txn_status[task[t]]
  <2>1. CASE task[t] < NumTxns /\ s.kind = "ReadyToExecute"
    <3>1. task[t] \in Txns /\ s \in Statuses
      BY Zenon, <2>1, TxnIs DEF LocalType, StatusType
    <3>2. s = ReadyToExecute(s.incarnation, s.condvar)
      BY Zenon, <2>1, <3>1, ReadyIs
    <3>3. incarnation'[t] = s.incarnation /\ condvar'[t] = s.condvar
      BY Zenon, <1>3, <2>1 DEF TryIncarnate, LocalType
    <3>4. Becomes(task[t], Executing(s.incarnation))
      BY Zenon, <1>3, <2>1, <3>1 DEF TryIncarnate, Becomes, StatusType
    <3>5. Only(t) /\ UNCHANGED <<resolved, task>>
      BY Zenon, <1>3, <2>1 DEF TryIncarnate, Only, Goto, At, PcType, LocalType
    <3>6. pc[t] = "try_incarnate" /\ pc'[t] = IF s.condvar = NoCondvar THEN "execute" ELSE "notify"
      BY Zenon, <1>3, <2>1 DEF TryIncarnate, ExecutesOrNotifies, Goto, At, PcType
    <3> HIDE DEF s
    <3>7. txn_status[task[t]] = ReadyToExecute(incarnation'[t], condvar'[t])
      BY Zenon, <3>2, <3>3 DEF s
    <3>8. Becomes(task[t], Executing(incarnation'[t]))
      BY Zenon, <3>3, <3>4
    <3> QED
      BY Zenon, <3>3, <3>5, <3>6, <3>7, <3>8 DEF Incarnates
  <2>2. CASE ~(task[t] < NumTxns /\ s.kind = "ReadyToExecute")
    BY Zenon, <2>2, <1>3 DEF TryIncarnate, Idles, Goto, At, shared, local, PcType, LocalType,
       StatusType, ListType, InHand, Tasked, Guarded, Only, SameVersion, Becomes, Holding
  <2> QED
    BY Zenon, <2>1, <2>2
<1>4. ASSUME NEW t \in Threads, Notify(t)
      PROVE  Notifies(t)
  BY Zenon, <1>4 DEF Notify, Notifies, Goto, At, shared, local, PcType, LocalType, StatusType,
     ListType, InHand, Tasked, Guarded, Only, SameVersion, Becomes, Holding
<1>5. ASSUME NEW t \in Threads, Suspend(t)
      PROVE  Suspends(t)
  BY Zenon, <1>5 DEF Suspend, Suspends, Goto, At, shared, local, PcType, LocalType, StatusType,
     ListType, InHand, Tasked, Guarded, Only, SameVersion, Becomes, Holding
<1>6. ASSUME NEW t \in Threads, Wait(t)
      PROVE  Wakes(t)
  BY Zenon, <1>6 DEF Wait, Wakes, Goto, At, shared, local, PcType, LocalType, StatusType, ListType,
     InHand, Tasked, Guarded, Only, SameVersion, Becomes, Holding
<1>7. ASSUME NEW t \in Threads, SetExecuted(t)
      PROVE  Executes(t)
  BY Zenon, <1>7 DEF SetExecuted, Executes, Goto, At, shared, local, PcType, LocalType, StatusType,
     ListType, InHand, Tasked, Guarded, Only, SameVersion, Becomes, Holding
<1>8. ASSUME NEW t \in Threads, TakeDeps(t)
      PROVE  Idles(t)
  BY Zenon, <1>8 DEF TakeDeps, Idles, Goto, At, PcType, Only, Holding
<1>9. ASSUME NEW t \in Threads, Resume(t)
      PROVE  \E d \in Txns : Resumes(t, d)
  BY <1>9 DEF Resume, Resumes, Lists, Goto, At, StatusType, ListType, Only, Becomes
<1>10. ASSUME NEW t \in Threads, DecreaseExecutionIdx(t)
      PROVE  Idles(t)
  BY Zenon, <1>10 DEF DecreaseExecutionIdx, Least, Idles, Goto, At, shared, local, PcType, LocalType,
     StatusType, ListType, InHand, Tasked, Guarded, Only, SameVersion, Becomes, Holding
<1>11. ASSUME NEW t \in Threads, TryAbort(t)
      PROVE  Idles(t) \/ Aborts(t)
  BY <1>11 DEF TryAbort, Abortable, Idles, Aborts, Goto, At, local, PcType, StatusType, InHand,
     Tasked, Guarded, Only, SameVersion, Becomes, Holding
<1>12. ASSUME NEW t \in Threads, SetAborted(t)
      PROVE  Readies(t)
  BY Zenon, <1>12 DEF SetAborted, NextIncarnation, Readies, Goto, At, shared, local, PcType,
     LocalType, StatusType, ListType, InHand, Tasked, Guarded, Only, SameVersion, Becomes,
     Holding
<1>13. ASSUME NEW t \in Threads, DecreaseValidationIdx(t, "decrease_aborted", task[t] + 1, "count_aborted", "load_execution")
      PROVE  Idles(t)
  BY Zenon, <1>13 DEF DecreaseValidationIdx, Least, Idles, Goto, At, shared, local, PcType, LocalType,
     StatusType, ListType, InHand, Tasked, Guarded, Only, SameVersion, Becomes, Holding
<1>14. ASSUME NEW t \in Threads, Count(t, "count_aborted", "load_execution")
      PROVE  Idles(t)
  BY Zenon, <1>14 DEF Count, Idles, Goto, At, shared, local, PcType, LocalType, StatusType, ListType,
     InHand, Tasked, Guarded, Only, SameVersion, Becomes, Holding
<1>15. ASSUME NEW t \in Threads, LoadExecution(t)
      PROVE  Idles(t)
  BY Zenon, <1>15 DEF LoadExecution, Idles, Goto, At, shared, local, PcType, LocalType, StatusType,
     ListType, InHand, Tasked, Guarded, Only, SameVersion, Becomes, Holding
<1>16. ASSUME NEW t \in Threads, NEW d \in Txns, MeetDependency(t, d)
      PROVE  Keeps(t)
  BY Zenon, <1>16 DEF MeetDependency, is_executed, Keeps, Goto, At, shared, local, PcType, LocalType,
     StatusType, ListType, InHand, Tasked, Guarded, Only, SameVersion, Becomes, Holding
<1>17. ASSUME NEW t \in Threads, NEW b \in BOOLEAN, Finish(t, b)
      PROVE  Keeps(t)
  BY Zenon, <1>17 DEF Finish, Keeps, Goto, At, shared, local, PcType, LocalType, StatusType, ListType,
     InHand, Tasked, Guarded, Only, SameVersion, Becomes, Holding
<1>18. ASSUME NEW t \in Threads, EstimatesMarked(t)
      PROVE  Keeps(t)
  BY Zenon, <1>18 DEF EstimatesMarked, Keeps, Goto, At, shared, local, PcType, LocalType, StatusType,
     ListType, InHand, Tasked, Guarded, Only, SameVersion, Becomes, Holding
<1> QED
  BY Zenon, <1>1, <1>2, <1>3, <1>4, <1>5, <1>6, <1>7, <1>8, <1>9, <1>10, <1>11, <1>12, <1>13, <1>14,
     <1>15, <1>16, <1>17, <1>18, StepCases DEF StatusStep

(* The status that a thread with a transaction in hand finds.              *)
LEMMA HolderFinds ==
  ASSUME ThreadKnows, NEW u \in Threads, pc[u] \in Holding
  PROVE  /\ txn_status[task[u]].kind # "Executed"
         /\ txn_status[task[u]].kind = "ReadyToExecute" =>
              pc[u] = "wait" /\ txn_status[task[u]] = ReadyToExecute(incarnation[u], u)
  BY Fields DEF ThreadKnows, Holding

(* A thread's knowledge of its transaction is not made stale by another.   *)
LEMMA ThreadKnowsStep ==
  ASSUME NumTxnsAssumption, ThreadsAssumption, PcType, StatusType, LocalType, ListType, InHand, Lists,
         ThreadKnows, CondvarsWaited, Notified, OneHolder, [Next]_vars
  PROVE  ThreadKnows'
<1>1. ASSUME NEW t \in Threads, Idles(t) PROVE ThreadKnows'
  BY <1>1 DEF Idles, Only, ThreadKnows, Holding
<1>2. ASSUME NEW t \in Threads, Keeps(t) PROVE ThreadKnows'
  BY <1>2 DEF Keeps, Only, SameVersion, ThreadKnows
<1>3. ASSUME NEW t \in Threads, Incarnates(t) PROVE ThreadKnows'
  <2>1. txn_status[task[t]].kind = "ReadyToExecute" /\ pc[t] \notin Holding
    BY <1>3, Fields DEF Incarnates, Holding
  <2>2. ASSUME NEW u \in Threads \ {t}, pc[u] \in Holding, task[u] # task[t]
        PROVE  txn_status'[task'[u]] = txn_status[task[u]]
    BY Zenon, <1>3, <2>2 DEF Incarnates, Becomes, Only, InHand, Holding, Tasked, Guarded
  <2>3. ASSUME NEW u \in Threads \ {t}, pc[u] \in Holding, task[u] = task[t]
        PROVE  /\ pc[u] = "wait" /\ incarnation'[t] = incarnation[u] /\ condvar'[t] = u
               /\ txn_status'[task'[u]] = Executing(incarnation[u])
    <3>1. pc[u] = "wait" /\ txn_status[task[u]] = ReadyToExecute(incarnation[u], u)
      BY Zenon, <2>1, <2>3, HolderFinds
    <3>2. incarnation'[t] = incarnation[u] /\ condvar'[t] = u
      <4>1. ReadyToExecute(incarnation'[t], condvar'[t]) = ReadyToExecute(incarnation[u], u)
        BY Zenon, <1>3, <2>3, <3>1 DEF Incarnates
      <4> QED
        BY <4>1, ReadyOne
    <3>3. task'[u] = task[u]
      BY Zenon, <1>3, <2>3 DEF Incarnates, Only
    <3> QED
      BY Zenon, <1>3, <2>3, <3>1, <3>2, <3>3 DEF Incarnates, Becomes
  <2>4. condvar'[t] \in Threads => pc'[t] = "notify"
    BY Zenon, <1>3, ThreadsAssumption DEF Incarnates
  <2>5. pc'[t] \in Holding => pc'[t] = "execute" /\ txn_status'[task'[t]] = Executing(incarnation'[t])
    BY Zenon, <1>3 DEF Incarnates, Becomes, Holding
  <2> QED
    BY <1>3, <2>2, <2>3, <2>5 DEF Incarnates, Only, ThreadKnows, Holding
<1>4. ASSUME NEW t \in Threads, Notifies(t) PROVE ThreadKnows'
  BY <1>4 DEF Notifies, Only, ThreadKnows
<1>5. ASSUME NEW t \in Threads, Suspends(t) PROVE ThreadKnows'
  BY <1>5, Fields DEF Suspends, Only, SameVersion, Becomes, ThreadKnows, OneHolder, InHand,
     Holding, Tasked, Guarded
<1>6. ASSUME NEW t \in Threads, Wakes(t) PROVE ThreadKnows'
  BY <1>6 DEF Wakes, Only, SameVersion, ThreadKnows, Notified
<1>7. ASSUME NEW t \in Threads, Executes(t) PROVE ThreadKnows'
  BY <1>7 DEF Executes, Only, Becomes, ThreadKnows, OneHolder, InHand, Holding, Tasked, Guarded
<1>8. ASSUME NEW t \in Threads, NEW d \in Txns, Resumes(t, d) PROVE ThreadKnows'
  <2>1. ASSUME NEW u \in Threads, pc[u] \in Holding, task[u] = d
        PROVE  pc[u] = "wait" /\ txn_status'[d] = ReadyToExecute(incarnation[u], u)
    BY <1>8, <2>1, Fields DEF Resumes, Becomes, ThreadKnows, Holding
  <2>2. ASSUME NEW u \in Threads, pc[u] \in Holding, task[u] # d
        PROVE  txn_status'[task[u]] = txn_status[task[u]]
    BY Zenon, <1>8, <2>2 DEF Resumes, Becomes, InHand, Holding, Tasked, Guarded
  <2>3. \A u \in Threads : pc'[u] \in Holding \/ pc[u] \in Holding \/ pc'[u] = "notify" \/ pc[u] = "notify" => u # t
    BY Zenon, <1>8 DEF Resumes, Holding
  <2> QED
    BY <1>8, <2>1, <2>2 DEF Resumes, Only, ThreadKnows, Holding
<1>9. ASSUME NEW t \in Threads, Aborts(t) PROVE ThreadKnows'
  <2>1. \A u \in Threads : pc[u] \in Holding => task[u] # task[t] /\ u # t
    BY <1>9, HolderFinds, Fields DEF Aborts
  <2> QED
    BY <1>9, <2>1 DEF Aborts, Becomes, Only, SameVersion, ThreadKnows, InHand, Holding, Tasked,
       Guarded
<1>10. ASSUME NEW t \in Threads, Readies(t) PROVE ThreadKnows'
  BY <1>10 DEF Readies, Only, Becomes, ThreadKnows, OneHolder, InHand, Holding, Tasked, Guarded
<1>11. CASE UNCHANGED vars
  BY Zenon, <1>11 DEF vars, shared, local, ThreadKnows
<1> QED
  BY Zenon, <1>1, <1>2, <1>3, <1>4, <1>5, <1>6, <1>7, <1>8, <1>9, <1>10, <1>11, StatusSteps
     DEF StatusStep

(* The condvar in a status is that of the thread waiting there.            *)
LEMMA CondvarsWaitedStep ==
  ASSUME NumTxnsAssumption, ThreadsAssumption, PcType, StatusType, LocalType, ListType, InHand, Lists,
         ThreadKnows, CondvarsWaited, Notified, OneHolder, [Next]_vars
  PROVE  CondvarsWaited'
<1>1. ASSUME NEW t \in Threads, Idles(t) PROVE CondvarsWaited'
  BY <1>1 DEF Idles, Only, CondvarsWaited, Holding
<1>2. ASSUME NEW t \in Threads, Keeps(t) PROVE CondvarsWaited'
  BY <1>2 DEF Keeps, Only, CondvarsWaited
<1>3. ASSUME NEW t \in Threads, Incarnates(t) PROVE CondvarsWaited'
  BY <1>3, Fields DEF Incarnates, Only, Becomes, CondvarsWaited
<1>4. ASSUME NEW t \in Threads, Notifies(t) PROVE CondvarsWaited'
  BY <1>4 DEF Notifies, Only, CondvarsWaited
<1>5. ASSUME NEW t \in Threads, Suspends(t) PROVE CondvarsWaited'
  BY <1>5, Fields DEF Suspends, Only, SameVersion, Becomes, CondvarsWaited
<1>6. ASSUME NEW t \in Threads, Wakes(t) PROVE CondvarsWaited'
  <2>1. t \in resolved /\ txn_status[task[t]] = Executing(incarnation[t])
    BY Zenon, <1>6 DEF Wakes, Notified
  <2>2. txn_status[task[t]].condvar = NoCondvar
    BY <2>1, Fields
  <2>3. \A i \in Txns : txn_status[i].condvar # t
    BY <2>2 DEF CondvarsWaited
  <2> QED
    BY <1>6, <2>3 DEF Wakes, Only, CondvarsWaited
<1>7. ASSUME NEW t \in Threads, Executes(t) PROVE CondvarsWaited'
  BY <1>7, Fields DEF Executes, Only, Becomes, CondvarsWaited, OneHolder, Guarded
<1>8. ASSUME NEW t \in Threads, NEW d \in Txns, Resumes(t, d) PROVE CondvarsWaited'
  BY <1>8, Fields DEF Resumes, Only, Becomes, CondvarsWaited
<1>9. ASSUME NEW t \in Threads, Aborts(t) PROVE CondvarsWaited'
  <2>1. \A w \in Threads : pc[w] = "wait" => pc'[w] = "wait" /\ task'[w] = task[w]
    BY Zenon, <1>9 DEF Aborts, Only
  <2>2. txn_status'[task[t]].kind = "Aborting" /\ txn_status'[task[t]].condvar = NoCondvar
    BY <1>9, Fields DEF Aborts, Becomes
  <2> QED
    BY <1>9, <2>1, <2>2 DEF Aborts, Becomes, CondvarsWaited
<1>10. ASSUME NEW t \in Threads, Readies(t) PROVE CondvarsWaited'
  BY <1>10, Fields DEF Readies, Only, Becomes, CondvarsWaited
<1>11. CASE UNCHANGED vars
  BY Zenon, <1>11 DEF vars, shared, local, CondvarsWaited
<1> QED
  BY Zenon, <1>1, <1>2, <1>3, <1>4, <1>5, <1>6, <1>7, <1>8, <1>9, <1>10, <1>11, StatusSteps
     DEF StatusStep

(* A step on another transaction leaves a waiting thread's execution alone.  *)
LEMMA ExecutionKept ==
  ASSUME InHand, NEW t \in Threads, NEW i, NEW s, Only(t), Becomes(i, s),
         NEW v \in Threads, v # t, pc[v] = "wait", task[v] # i
  PROVE  /\ pc'[v] = "wait" /\ task'[v] = task[v] /\ incarnation'[v] = incarnation[v]
         /\ txn_status'[task'[v]] = txn_status[task[v]]
  BY Zenon DEF Only, Becomes, InHand, Tasked, Guarded

(* So notified threads stay notified, if nobody starts or ends a notification. *)
LEMMA NotifiedKept ==
  ASSUME Notified, NEW t \in Threads, Only(t), resolved' \subseteq resolved,
         pc[t] # "notify", pc'[t] # "notify",
         \A v \in Threads : pc[v] = "wait" /\ txn_status[task[v]] = Executing(incarnation[v]) =>
           /\ pc'[v] = "wait" /\ task'[v] = task[v] /\ txn_status'[task'[v]] = Executing(incarnation'[v])
  PROVE  Notified'
<1>1. \A x \in Threads : pc'[x] = "notify" =>
        x # t /\ pc[x] = "notify" /\ task'[x] = task[x] /\ condvar'[x] = condvar[x]
  BY Zenon DEF Only
<1>2. \A x, v \in Threads : pc'[x] = "notify" /\ condvar'[x] = v =>
        /\ pc'[v] = "wait" /\ task'[v] = task'[x] /\ v \notin resolved'
        /\ txn_status'[task'[v]] = Executing(incarnation'[v])
  BY <1>1 DEF Notified
<1>3. \A x, y \in Threads : pc'[x] = "notify" /\ pc'[y] = "notify" /\ x # y => condvar'[x] # condvar'[y]
  BY <1>1 DEF Notified
<1>4. \A v \in Threads : v \in resolved' =>
        pc'[v] = "wait" /\ txn_status'[task'[v]] = Executing(incarnation'[v])
  BY Zenon DEF Notified
<1> QED
  BY Zenon, <1>2, <1>3, <1>4 DEF Notified

(* An execution that a thread waits in is not disturbed by the others.     *)
LEMMA NotifiedStep ==
  ASSUME NumTxnsAssumption, ThreadsAssumption, PcType, StatusType, LocalType, ListType, InHand, Lists,
         ThreadKnows, CondvarsWaited, Notified, OneHolder, [Next]_vars
  PROVE  Notified'
<1>1. ASSUME NEW t \in Threads, Idles(t) PROVE Notified'
  BY <1>1 DEF Idles, Only, Notified, Holding
<1>2. ASSUME NEW t \in Threads, Keeps(t) PROVE Notified'
  BY <1>2 DEF Keeps, Only, Notified
<1>3. ASSUME NEW t \in Threads, Incarnates(t) PROVE Notified'
  <2>1. txn_status[task[t]] = ReadyToExecute(incarnation'[t], condvar'[t]) /\ pc[t] = "try_incarnate"
    BY Zenon, <1>3 DEF Incarnates
  <2>2. ASSUME NEW v \in Threads, pc[v] = "wait", txn_status[task[v]] = Executing(incarnation[v])
        PROVE  /\ pc'[v] = "wait" /\ task'[v] = task[v]
               /\ txn_status'[task'[v]] = Executing(incarnation'[v]) /\ condvar'[t] # v
    <3>1. task[v] # task[t] /\ v # t
      BY <2>1, <2>2, Fields
    <3>2. condvar'[t] # v
      BY <1>3, <3>1, Fields DEF CondvarsWaited, Incarnates, Becomes
    <3> QED
      BY <1>3, <2>2, <3>1, <3>2, ExecutionKept DEF Incarnates
  <2>3. ASSUME NEW v \in Threads, pc'[t] = "notify", condvar'[t] = v
        PROVE  /\ pc'[v] = "wait" /\ task'[v] = task'[t] /\ v \notin resolved
               /\ txn_status'[task'[v]] = Executing(incarnation'[v])
    <3>1. pc[v] = "wait" /\ task[v] = task[t]
      BY <1>3, <2>3, Fields DEF CondvarsWaited, Incarnates, Becomes
    <3>2. txn_status[task[v]] = ReadyToExecute(incarnation[v], v) /\ v # t
      BY <2>1, <3>1, HolderFinds, Fields DEF Holding
    <3>3. incarnation'[t] = incarnation[v] /\ v \notin resolved
      <4>1. ReadyToExecute(incarnation'[t], condvar'[t]) = ReadyToExecute(incarnation[v], v)
        BY Zenon, <2>1, <3>1, <3>2
      <4>2. incarnation'[t] = incarnation[v]
        BY Zenon, <4>1, ReadyOne
      <4>3. txn_status[task[v]] # Executing(incarnation[v])
        BY <3>2, Fields
      <4> QED
        BY Zenon, <4>2, <4>3 DEF Notified
    <3>4. pc'[v] = "wait" /\ task'[v] = task[v] /\ incarnation'[v] = incarnation[v] /\ task'[t] = task[t]
      BY Zenon, <1>3, <3>1, <3>2 DEF Incarnates, Only
    <3> QED
      BY Zenon, <1>3, <3>1, <3>3, <3>4 DEF Incarnates, Becomes
  <2>4. resolved' = resolved /\ \A x \in Threads \ {t} : pc'[x] = pc[x] /\ condvar'[x] = condvar[x]
    BY Zenon, <1>3 DEF Incarnates, Only
  <2>5. ASSUME NEW x \in Threads, NEW v \in Threads, pc'[x] = "notify", condvar'[x] = v
        PROVE  /\ pc'[v] = "wait" /\ task'[v] = task'[x] /\ v \notin resolved'
               /\ txn_status'[task'[v]] = Executing(incarnation'[v])
    <3>1. CASE x = t
      BY Zenon, <2>3, <2>4, <2>5, <3>1
    <3>2. CASE x # t
      <4>1. /\ pc[v] = "wait" /\ task[v] = task[x] /\ v \notin resolved
            /\ txn_status[task[v]] = Executing(incarnation[v])
        BY <2>4, <2>5, <3>2 DEF Notified
      <4>2. task'[x] = task[x]
        BY Zenon, <1>3, <3>2 DEF Incarnates, Only
      <4> QED
        BY Zenon, <2>2, <2>4, <4>1, <4>2
    <3> QED
      BY Zenon, <3>1, <3>2
  <2>6. ASSUME NEW x \in Threads \ {t}, pc[x] = "notify", pc'[t] = "notify"
        PROVE  condvar'[t] # condvar[x]
    <3>1. condvar[x] \in Threads
      BY Zenon, <2>6 DEF InHand
    <3>2. PICK v \in Threads : v = condvar[x]
      BY Zenon, <3>1
    <3>3. pc[v] = "wait" /\ txn_status[task[v]] = Executing(incarnation[v])
      BY Zenon, <2>6, <3>2 DEF Notified
    <3> QED
      BY Zenon, <2>2, <3>2, <3>3
  <2>7. \A x, y \in Threads : pc'[x] = "notify" /\ pc'[y] = "notify" /\ x # y
                                => condvar'[x] # condvar'[y]
    BY <2>4, <2>6 DEF Notified
  <2>8. \A v \in Threads : v \in resolved' =>
          pc'[v] = "wait" /\ txn_status'[task'[v]] = Executing(incarnation'[v])
    BY Zenon, <2>2, <2>4 DEF Notified
  <2> QED
    BY <2>5, <2>7, <2>8 DEF Notified
<1>4. ASSUME NEW t \in Threads, Notifies(t) PROVE Notified'
  BY <1>4 DEF Notifies, Only, Notified
<1>5. ASSUME NEW t \in Threads, Suspends(t) PROVE Notified'
  <2>1. ASSUME NEW v \in Threads, pc[v] = "wait", txn_status[task[v]] = Executing(incarnation[v])
        PROVE  /\ pc'[v] = "wait" /\ task'[v] = task[v]
               /\ txn_status'[task'[v]] = Executing(incarnation'[v])
    <3>1. v # t
      BY Zenon, <1>5, <2>1 DEF Suspends
    <3>2. task[v] # task[t]
      BY Zenon, <1>5, <2>1, <3>1 DEF Suspends, OneHolder, Holding
    <3> QED
      BY <1>5, <2>1, <3>1, <3>2, ExecutionKept DEF Suspends
  <2>2. Only(t) /\ resolved' \subseteq resolved /\ pc[t] # "notify" /\ pc'[t] # "notify"
    BY Zenon, <1>5 DEF Suspends
  <2> QED
    BY Zenon, <2>1, <2>2, NotifiedKept
<1>6. ASSUME NEW t \in Threads, Wakes(t) PROVE Notified'
  BY <1>6 DEF Wakes, Only, Notified
<1>7. ASSUME NEW t \in Threads, Executes(t) PROVE Notified'
  <2>1. ASSUME NEW v \in Threads, pc[v] = "wait", txn_status[task[v]] = Executing(incarnation[v])
        PROVE  /\ pc'[v] = "wait" /\ task'[v] = task[v]
               /\ txn_status'[task'[v]] = Executing(incarnation'[v])
    <3>1. v # t
      BY Zenon, <1>7, <2>1 DEF Executes
    <3>2. task[v] # task[t]
      BY Zenon, <1>7, <2>1, <3>1 DEF Executes, OneHolder, Holding
    <3> QED
      BY <1>7, <2>1, <3>1, <3>2, ExecutionKept DEF Executes
  <2>2. Only(t) /\ resolved' \subseteq resolved /\ pc[t] # "notify" /\ pc'[t] # "notify"
    BY Zenon, <1>7 DEF Executes
  <2> QED
    BY Zenon, <2>1, <2>2, NotifiedKept
<1>8. ASSUME NEW t \in Threads, NEW d \in Txns, Resumes(t, d) PROVE Notified'
  <2>1. ASSUME NEW v \in Threads, pc[v] = "wait", txn_status[task[v]] = Executing(incarnation[v])
        PROVE  /\ pc'[v] = "wait" /\ task'[v] = task[v]
               /\ txn_status'[task'[v]] = Executing(incarnation'[v])
    <3>1. task[v] # d /\ v # t
      BY Zenon, <1>8, <2>1, ExecutingFields DEF Resumes
    <3> QED
      BY <1>8, <2>1, <3>1, ExecutionKept DEF Resumes
  <2>2. Only(t) /\ resolved' \subseteq resolved /\ pc[t] # "notify" /\ pc'[t] # "notify"
    BY Zenon, <1>8 DEF Resumes
  <2> QED
    BY Zenon, <2>1, <2>2, NotifiedKept
<1>9. ASSUME NEW t \in Threads, Aborts(t) PROVE Notified'
  <2>1. ASSUME NEW v \in Threads, pc[v] = "wait", txn_status[task[v]] = Executing(incarnation[v])
        PROVE  /\ pc'[v] = "wait" /\ task'[v] = task[v]
               /\ txn_status'[task'[v]] = Executing(incarnation'[v])
    <3>1. task[v] # task[t] /\ v # t
      BY <1>9, <2>1, ExecutingFields, ExecutedFields DEF Aborts
    <3> QED
      BY <1>9, <2>1, <3>1, ExecutionKept DEF Aborts
  <2>2. Only(t) /\ resolved' \subseteq resolved /\ pc[t] # "notify" /\ pc'[t] # "notify"
    BY Zenon, <1>9 DEF Aborts
  <2> QED
    BY Zenon, <2>1, <2>2, NotifiedKept
<1>10. ASSUME NEW t \in Threads, Readies(t) PROVE Notified'
  <2>1. ASSUME NEW v \in Threads, pc[v] = "wait", txn_status[task[v]] = Executing(incarnation[v])
        PROVE  /\ pc'[v] = "wait" /\ task'[v] = task[v]
               /\ txn_status'[task'[v]] = Executing(incarnation'[v])
    <3>1. v # t
      BY Zenon, <1>10, <2>1 DEF Readies
    <3>2. task[v] # task[t]
      BY Zenon, <1>10, <2>1, <3>1 DEF Readies, OneHolder, Holding
    <3> QED
      BY <1>10, <2>1, <3>1, <3>2, ExecutionKept DEF Readies
  <2>2. Only(t) /\ resolved' \subseteq resolved /\ pc[t] # "notify" /\ pc'[t] # "notify"
    BY Zenon, <1>10 DEF Readies
  <2> QED
    BY Zenon, <2>1, <2>2, NotifiedKept
<1>11. CASE UNCHANGED vars
  BY Zenon, <1>11 DEF vars, shared, local, Notified
<1> QED
  BY Zenon, <1>1, <1>2, <1>3, <1>4, <1>5, <1>6, <1>7, <1>8, <1>9, <1>10, <1>11, StatusSteps
     DEF StatusStep

(* At most one thread holds a transaction: taking it needs its status      *)
(* ReadyToExecute, and no thread holds a ready one but the one waiting.     *)
LEMMA OneHolderStep ==
  ASSUME NumTxnsAssumption, ThreadsAssumption, PcType, StatusType, LocalType, ListType, InHand, Lists,
         ThreadKnows, CondvarsWaited, Notified, OneHolder, [Next]_vars
  PROVE  OneHolder'
<1>1. ASSUME NEW t \in Threads, Idles(t) PROVE OneHolder'
  BY <1>1 DEF Idles, Only, OneHolder
<1>2. ASSUME NEW t \in Threads, Keeps(t) PROVE OneHolder'
  BY <1>2 DEF Keeps, Only, SameVersion, OneHolder, Holding
<1>3. ASSUME NEW t \in Threads, Incarnates(t) PROVE OneHolder'
  <2>1. txn_status[task[t]] = ReadyToExecute(incarnation'[t], condvar'[t]) /\ pc[t] \notin Holding
    BY Zenon, <1>3 DEF Incarnates, Holding
  <2>2. ASSUME NEW u \in Threads, pc[u] \in Holding, task[u] = task[t]
        PROVE  condvar'[t] = u
    BY <2>1, <2>2, HolderFinds, Fields
  <2>3. CASE condvar'[t] = NoCondvar
    <3>1. pc'[t] \in Holding /\ \A u \in Threads \ {t} : pc'[u] \in Holding => task'[u] # task'[t]
      BY Zenon, <1>3, <2>2, <2>3, ThreadsAssumption DEF Incarnates, Only, Holding
    <3> QED
      BY <1>3, <3>1 DEF Incarnates, Only, Becomes, OneHolder
  <2>4. CASE condvar'[t] # NoCondvar
    <3>1. condvar'[t] \in Threads
      BY <1>3, <2>4, StatusParts, Fields DEF Incarnates, Becomes, StatusType
    <3>2. PICK w \in Threads : w = condvar'[t]
      BY Zenon, <3>1
    <3>3. pc[w] \in Holding /\ task[w] = task[t]
      BY <1>3, <3>2, Fields DEF CondvarsWaited, Incarnates, Becomes, Holding
    <3>4. pc'[t] \notin Holding /\ w # t
      BY Zenon, <1>3, <2>1, <2>4, <3>3 DEF Incarnates, Holding
    <3> QED
      BY <1>3, <3>3, <3>4 DEF Incarnates, Only, Becomes, OneHolder
  <2> QED
    BY Zenon, <2>3, <2>4
<1>4. ASSUME NEW t \in Threads, Notifies(t) PROVE OneHolder'
  BY <1>4 DEF Notifies, Only, OneHolder, Holding
<1>5. ASSUME NEW t \in Threads, Suspends(t) PROVE OneHolder'
  BY <1>5 DEF Suspends, Only, SameVersion, Becomes, OneHolder, Holding
<1>6. ASSUME NEW t \in Threads, Wakes(t) PROVE OneHolder'
  BY <1>6 DEF Wakes, Only, SameVersion, OneHolder, Holding
<1>7. ASSUME NEW t \in Threads, Executes(t) PROVE OneHolder'
  BY <1>7, Fields DEF Executes, Only, Becomes, OneHolder, Notified, InHand, Holding, Tasked
<1>8. ASSUME NEW t \in Threads, NEW d \in Txns, Resumes(t, d) PROVE OneHolder'
  BY <1>8 DEF Resumes, Only, Becomes, OneHolder, Holding
<1>9. ASSUME NEW t \in Threads, Aborts(t) PROVE OneHolder'
  <2>1. \A u \in Threads : pc[u] \in Holding => task[u] # task[t] /\ u # t
    BY <1>9, HolderFinds, Fields DEF Aborts
  <2>2. pc'[t] \in Holding /\ task'[t] = task[t]
    BY Zenon, <1>9 DEF Aborts, SameVersion, Holding
  <2> QED
    BY <1>9, <2>1, <2>2 DEF Aborts, Becomes, Only, OneHolder
<1>10. ASSUME NEW t \in Threads, Readies(t) PROVE OneHolder'
  BY <1>10, Fields DEF Readies, Only, Becomes, OneHolder, Holding
<1>11. CASE UNCHANGED vars
  BY Zenon, <1>11 DEF vars, shared, local, OneHolder
<1> QED
  BY Zenon, <1>1, <1>2, <1>3, <1>4, <1>5, <1>6, <1>7, <1>8, <1>9, <1>10, <1>11, StatusSteps
     DEF StatusStep

(* The lists of dependents shrink, and what is on them stays suspended.    *)
ListsKept ==
  /\ \A j \in Txns : txn_dependency'[j] = txn_dependency[j]
  /\ \A u \in Threads : /\ deps'[u] \subseteq deps[u]
                        /\ deps'[u] # {} => index'[u] = index[u]
  /\ \A d \in Txns : txn_status[d].kind = "Suspended" => txn_status'[d] = txn_status[d]

LEMMA ListSteps ==
  ASSUME NumTxnsAssumption, ThreadsAssumption, PcType, StatusType, LocalType, ListType, OtherType, InHand,
         ThreadKnows, [Next]_vars
  PROVE  ListsKept \/ \E t \in Threads : Suspend(t) \/ TakeDeps(t) \/ Resume(t)
<1>1. ASSUME NEW t \in Threads, Aside(t) PROVE ListsKept
  BY Zenon, <1>1 DEF Aside, Special, InHand, ListsKept
<1>2. ASSUME NEW t \in Threads, ClaimExecution(t)
      PROVE  ListsKept
  BY Zenon, <1>2 DEF ClaimExecution, ListsKept, Goto, At, shared, local, PcType, LocalType,
     StatusType, ListType, InHand, Tasked, Guarded
<1>3. ASSUME NEW t \in Threads, TryIncarnate(t)
      PROVE  ListsKept
  BY Zenon, <1>3 DEF TryIncarnate, ExecutesOrNotifies, ListsKept, Goto, At, shared, local, PcType,
     LocalType, StatusType, ListType, InHand, Tasked, Guarded
<1>4. ASSUME NEW t \in Threads, Notify(t)
      PROVE  ListsKept
  BY Zenon, <1>4 DEF Notify, ListsKept, Goto, At, shared, local, PcType, LocalType, StatusType,
     ListType, InHand, Tasked, Guarded
<1>6. ASSUME NEW t \in Threads, Wait(t)
      PROVE  ListsKept
  BY Zenon, <1>6 DEF Wait, ListsKept, Goto, At, shared, local, PcType, LocalType, StatusType,
     ListType, InHand, Tasked, Guarded
<1>7. ASSUME NEW t \in Threads, SetExecuted(t)
      PROVE  ListsKept
  <2>1. txn_status[task[t]].kind = "Executing"
    BY <1>7, Fields DEF SetExecuted, At, ThreadKnows
  <2>2. task[t] \in Txns /\ UNCHANGED <<txn_dependency, deps, index>>
    BY Zenon, <1>7 DEF SetExecuted, At, local, InHand, Tasked, Guarded
  <2>3. \A i \in Txns \ {task[t]} : txn_status'[i] = txn_status[i]
    BY Zenon, <1>7, <2>2 DEF SetExecuted, StatusType
  <2> QED
    BY Zenon, <2>1, <2>2, <2>3 DEF ListsKept
<1>10. ASSUME NEW t \in Threads, DecreaseExecutionIdx(t)
      PROVE  ListsKept
  BY Zenon, <1>10 DEF DecreaseExecutionIdx, ListsKept, Goto, At, shared, local, PcType, LocalType,
     StatusType, ListType, InHand, Tasked, Guarded
<1>11. ASSUME NEW t \in Threads, TryAbort(t)
      PROVE  ListsKept
  <2>1. txn_status' = txn_status \/ txn_status[task[t]].kind = "Executed"
    BY <1>11, Fields DEF TryAbort, Abortable
  <2>2. task[t] \in Txns /\ UNCHANGED <<txn_dependency, deps, index>>
    BY Zenon, <1>11 DEF TryAbort, At, local, InHand, Tasked, Guarded
  <2>3. \A i \in Txns \ {task[t]} : txn_status'[i] = txn_status[i]
    BY Zenon, <1>11, <2>2 DEF TryAbort, StatusType
  <2> QED
    BY Zenon, <2>1, <2>2, <2>3 DEF ListsKept
<1>12. ASSUME NEW t \in Threads, SetAborted(t)
      PROVE  ListsKept
  <2>1. txn_status[task[t]].kind = "Aborting"
    BY <1>12, Fields DEF SetAborted, At, ThreadKnows
  <2>2. task[t] \in Txns /\ UNCHANGED <<txn_dependency, deps, index>>
    BY Zenon, <1>12 DEF SetAborted, At, local, InHand, Tasked, Guarded
  <2>3. \A i \in Txns \ {task[t]} : txn_status'[i] = txn_status[i]
    BY Zenon, <1>12, <2>2 DEF SetAborted, StatusType
  <2> QED
    BY Zenon, <2>1, <2>2, <2>3 DEF ListsKept
<1>13. ASSUME NEW t \in Threads, DecreaseValidationIdx(t, "decrease_aborted", task[t] + 1, "count_aborted", "load_execution")
      PROVE  ListsKept
  BY Zenon, <1>13 DEF DecreaseValidationIdx, Least, ListsKept, Goto, At, shared, local, PcType,
     LocalType, StatusType, ListType, InHand, Tasked, Guarded
<1>14. ASSUME NEW t \in Threads, Count(t, "count_aborted", "load_execution")
      PROVE  ListsKept
  BY Zenon, <1>14 DEF Count, ListsKept, Goto, At, shared, local, PcType, LocalType, StatusType,
     ListType, InHand, Tasked, Guarded
<1>15. ASSUME NEW t \in Threads, LoadExecution(t)
      PROVE  ListsKept
  BY Zenon, <1>15 DEF LoadExecution, ListsKept, Goto, At, shared, local, PcType, LocalType,
     StatusType, ListType, InHand, Tasked, Guarded
<1>16. ASSUME NEW t \in Threads, NEW d \in Txns, MeetDependency(t, d)
      PROVE  ListsKept
  BY Zenon, <1>16 DEF MeetDependency, is_executed, ListsKept, Goto, At, shared, local, PcType,
     LocalType, StatusType, ListType, InHand, Tasked, Guarded
<1>17. ASSUME NEW t \in Threads, NEW b \in BOOLEAN, Finish(t, b)
      PROVE  ListsKept
  BY Zenon, <1>17 DEF Finish, ListsKept, Goto, At, shared, local, PcType, LocalType, StatusType,
     ListType, InHand, Tasked, Guarded
<1>18. ASSUME NEW t \in Threads, EstimatesMarked(t)
      PROVE  ListsKept
  BY Zenon, <1>18 DEF EstimatesMarked, ListsKept, Goto, At, shared, local, PcType, LocalType,
     StatusType, ListType, InHand, Tasked, Guarded
<1>30. CASE UNCHANGED vars
  BY Zenon, <1>30 DEF vars, shared, local, ListsKept
<1> QED
  BY Zenon, <1>1, <1>2, <1>3, <1>4, <1>6, <1>7, <1>10, <1>11, <1>12, <1>13, <1>14, <1>15, <1>16,
     <1>17, <1>18, <1>30, StepCases

(* A transaction is put on one list, while it is suspended, and taken off  *)
(* when it is resumed.                                                     *)
LEMMA ListsStep ==
  ASSUME NumTxnsAssumption, ThreadsAssumption, PcType, StatusType, LocalType, ListType, OtherType, InHand,
         ThreadKnows, Lists, [Next]_vars
  PROVE  Lists'
<1>1. CASE ListsKept
  BY <1>1 DEF ListsKept, Lists, ListType
<1>2. ASSUME NEW t \in Threads, Suspend(t) PROVE Lists'
  <2> DEFINE i == task[t]
  <2> DEFINE j == dependency[t]
  <2>1. i \in Txns /\ j \in Txns /\ txn_status[i].kind = "Executing"
    BY <1>2, Fields DEF Suspend, At, InHand, Tasked, Guarded, ThreadKnows
  <2>2. /\ txn_dependency'[j] = txn_dependency[j] \cup {i}
        /\ \A k \in Txns \ {j} : txn_dependency'[k] = txn_dependency[k]
        /\ deps' = deps /\ index' = index
    BY Zenon, <1>2, <2>1 DEF Suspend, local, ListType
  <2>3. /\ txn_status'[i].kind = "Suspended"
        /\ \A k \in Txns \ {i} : txn_status'[k] = txn_status[k]
    BY Zenon, <1>2, <2>1, SuspendedFields DEF Suspend, StatusType
  <2>4. /\ \A k \in Txns : i \notin txn_dependency[k]
        /\ \A u \in Threads : i \notin deps[u]
    BY Zenon, <2>1 DEF Lists
  <2> HIDE DEF i, j
  <2> QED
    BY <2>1, <2>2, <2>3 DEF Lists, ListType
<1>3. ASSUME NEW t \in Threads, TakeDeps(t) PROVE Lists'
  <2> DEFINE j == task[t]
  <2>1. j \in Txns /\ deps[t] = {}
    BY Zenon, <1>3 DEF TakeDeps, At, InHand, Tasked, Guarded
  <2>2. /\ txn_dependency'[j] = {} /\ deps'[t] = txn_dependency[j]
        /\ \A k \in Txns \ {j} : txn_dependency'[k] = txn_dependency[k]
        /\ \A u \in Threads \ {t} : deps'[u] = deps[u] /\ index'[u] = index[u]
        /\ txn_status' = txn_status
    BY Zenon, <1>3, <2>1 DEF TakeDeps, LeftAfterTake, ListType, LocalType
  <2>3. \A d \in deps'[t] : index'[t] <= d
    BY Zenon, <1>3, <2>2 DEF TakeDeps, LocalType
  <2> HIDE DEF j
  <2> QED
    BY <2>1, <2>2, <2>3 DEF Lists
<1>4. ASSUME NEW t \in Threads, Resume(t) PROVE Lists'
  <2>1. PICK d \in deps[t] :
          /\ txn_status' = [txn_status EXCEPT ![d] =
               ReadyToExecute(txn_status[d].incarnation, txn_status[d].condvar)]
          /\ deps' = [deps EXCEPT ![t] = deps[t] \ {d}]
    BY Zenon, <1>4 DEF Resume
  <2>2. d \in Txns /\ txn_dependency' = txn_dependency /\ index' = index
    BY Zenon, <1>4, <2>1 DEF Resume, ListType
  <2>3. /\ \A k \in Txns \ {d} : txn_status'[k] = txn_status[k]
        /\ deps'[t] = deps[t] \ {d} /\ \A u \in Threads \ {t} : deps'[u] = deps[u]
    BY Zenon, <2>1, <2>2 DEF StatusType, ListType
  <2>4. /\ \A k \in Txns : d \notin txn_dependency[k]
        /\ \A u \in Threads \ {t} : d \notin deps[u]
    BY Zenon, <2>1 DEF Lists
  <2> QED
    BY <2>2, <2>3 DEF Lists, ListType
<1> QED
  BY Zenon, <1>1, <1>2, <1>3, <1>4, ListSteps

(***************************************************************************)
(* Suspended transactions.  Few steps put a thread to wait, take a list,   *)
(* or finish an execution; the others leave them alone.                    *)
(***************************************************************************)
Others(t) ==
  \A u \in Threads \ {t} :
    /\ pc'[u] = pc[u] /\ task'[u] = task[u] /\ dependency'[u] = dependency[u]
    /\ deps'[u] = deps[u]

Waiting == {"suspend", "wait", "take_deps", "resume"}

Plain(t) ==
  /\ Others(t) /\ UNCHANGED txn_dependency
  /\ pc[t] \notin Waiting /\ pc'[t] \notin Waiting
  /\ \A i \in Txns : txn_status'[i].kind \in {"Executed", "Suspended"}
                       => txn_status'[i].kind = txn_status[i].kind

Meets(t) ==
  /\ Others(t) /\ UNCHANGED <<txn_dependency, txn_status, task>>
  /\ pc[t] = "execute" /\ pc'[t] = "suspend"
  /\ dependency'[t] \in Txns /\ txn_status[dependency'[t]].kind # "Executed"

LEMMA ResumeSteps ==
  ASSUME NumTxnsAssumption, ThreadsAssumption, PcType, StatusType, LocalType, ListType, OtherType, InHand, ThreadKnows, [Next]_vars
  PROVE  \/ UNCHANGED vars
         \/ \E t \in Threads :
              Plain(t) \/ Meets(t) \/ Suspend(t) \/ Wait(t) \/ SetExecuted(t) \/ TakeDeps(t) \/ Resume(t)
<1>1. ASSUME NEW t \in Threads, Aside(t) PROVE Plain(t)
  BY Zenon, <1>1 DEF Aside, Special, Holding, Plain, Others, Waiting
<1>2. ASSUME NEW t \in Threads, ClaimExecution(t)
      PROVE  Plain(t)
  BY Zenon, <1>2 DEF ClaimExecution, Plain, Goto, At, shared, local, PcType, LocalType, StatusType,
     ListType, InHand, Tasked, Guarded, Others, Waiting
<1>3. ASSUME NEW t \in Threads, TryIncarnate(t)
      PROVE  Plain(t)
  <2>1. Others(t) /\ UNCHANGED txn_dependency /\ pc[t] \notin Waiting /\ pc'[t] \notin Waiting
    BY Zenon, <1>3 DEF TryIncarnate, ExecutesOrNotifies, Goto, At, PcType, Others, Waiting
  <2>2. \A i \in Txns : txn_status'[i] = txn_status[i] \/ txn_status'[i].kind \notin {"Executed", "Suspended"}
    BY <1>3, Fields DEF TryIncarnate, StatusType
  <2> QED
    BY Zenon, <2>1, <2>2 DEF Plain
<1>4. ASSUME NEW t \in Threads, Notify(t)
      PROVE  Plain(t)
  BY Zenon, <1>4 DEF Notify, Plain, Goto, At, shared, local, PcType, LocalType, StatusType, ListType,
     InHand, Tasked, Guarded, Others, Waiting
<1>10. ASSUME NEW t \in Threads, DecreaseExecutionIdx(t)
      PROVE  Plain(t)
  BY Zenon, <1>10 DEF DecreaseExecutionIdx, Least, Plain, Goto, At, shared, local, PcType, LocalType,
     StatusType, ListType, InHand, Tasked, Guarded, Others, Waiting
<1>11. ASSUME NEW t \in Threads, TryAbort(t)
      PROVE  Plain(t)
  <2>1. Others(t) /\ UNCHANGED txn_dependency /\ pc[t] \notin Waiting /\ pc'[t] \notin Waiting
    BY Zenon, <1>11 DEF TryAbort, Goto, At, local, PcType, Others, Waiting
  <2>2. \A i \in Txns : txn_status'[i] = txn_status[i] \/ txn_status'[i].kind \notin {"Executed", "Suspended"}
    BY <1>11, Fields DEF TryAbort, StatusType
  <2> QED
    BY Zenon, <2>1, <2>2 DEF Plain
<1>12. ASSUME NEW t \in Threads, SetAborted(t)
      PROVE  Plain(t)
  <2>1. Others(t) /\ UNCHANGED txn_dependency /\ pc[t] \notin Waiting /\ pc'[t] \notin Waiting
    BY Zenon, <1>12 DEF SetAborted, ExecutesOrNotifies, Goto, At, shared, local, PcType, LocalType,
       StatusType, ListType, InHand, Tasked, Guarded, Others, Waiting
  <2>2. \A i \in Txns : txn_status'[i] = txn_status[i] \/ txn_status'[i].kind \notin {"Executed", "Suspended"}
    BY <1>12, Fields DEF SetAborted
  <2> QED
    BY Zenon, <2>1, <2>2 DEF Plain
<1>13. ASSUME NEW t \in Threads, DecreaseValidationIdx(t, "decrease_aborted", task[t] + 1, "count_aborted", "load_execution")
      PROVE  Plain(t)
  BY Zenon, <1>13 DEF DecreaseValidationIdx, Least, Plain, Goto, At, shared, local, PcType, LocalType,
     StatusType, ListType, InHand, Tasked, Guarded, Others, Waiting
<1>14. ASSUME NEW t \in Threads, Count(t, "count_aborted", "load_execution")
      PROVE  Plain(t)
  BY Zenon, <1>14 DEF Count, Plain, Goto, At, shared, local, PcType, LocalType, StatusType, ListType,
     InHand, Tasked, Guarded, Others, Waiting
<1>15. ASSUME NEW t \in Threads, LoadExecution(t)
      PROVE  Plain(t)
  BY Zenon, <1>15 DEF LoadExecution, Plain, Goto, At, shared, local, PcType, LocalType, StatusType,
     ListType, InHand, Tasked, Guarded, Others, Waiting
<1>16. ASSUME NEW t \in Threads, NEW d \in Txns, MeetDependency(t, d)
      PROVE  Plain(t) \/ Meets(t)
  <2>1. CASE is_executed(d)
    <3>1. UNCHANGED <<pc, task, dependency, txn_dependency, txn_status, deps>> /\ pc[t] = "execute"
      BY Zenon, <1>16, <2>1 DEF MeetDependency, At, shared
    <3> QED
      BY Zenon, <3>1 DEF Plain, Others, Waiting
  <2>2. CASE ~is_executed(d)
    <3>1. /\ UNCHANGED <<task, txn_dependency, txn_status, deps>> /\ pc[t] = "execute"
          /\ pc' = [pc EXCEPT ![t] = "suspend"] /\ dependency' = [dependency EXCEPT ![t] = d]
      BY Zenon, <1>16, <2>2 DEF MeetDependency, Goto, At, shared
    <3>2. pc'[t] = "suspend" /\ dependency'[t] = d
      BY Zenon, <3>1 DEF PcType, LocalType
    <3>3. Others(t)
      BY Zenon, <3>1 DEF PcType, LocalType, Others
    <3> QED
      BY <2>2, <3>1, <3>2, <3>3 DEF is_executed, Txns, Meets
  <2> QED
    BY Zenon, <2>1, <2>2
<1>17. ASSUME NEW t \in Threads, NEW b \in BOOLEAN, Finish(t, b)
      PROVE  Plain(t)
  BY Zenon, <1>17 DEF Finish, Plain, Goto, At, shared, local, PcType, LocalType, StatusType, ListType,
     InHand, Tasked, Guarded, Others, Waiting
<1>18. ASSUME NEW t \in Threads, EstimatesMarked(t)
      PROVE  Plain(t)
  BY Zenon, <1>18 DEF EstimatesMarked, Plain, Goto, At, shared, local, PcType, LocalType, StatusType,
     ListType, InHand, Tasked, Guarded, Others, Waiting
<1> QED
  BY Zenon, <1>1, <1>2, <1>3, <1>4, <1>10, <1>11, <1>12, <1>13, <1>14, <1>15, <1>16, <1>17, <1>18,
     StepCases

(* A transaction that will take its list does, or goes on to be about to.  *)
LEMMA WillTakeStep ==
  ASSUME NumTxnsAssumption, ThreadsAssumption, PcType, StatusType, LocalType, ListType, OtherType, InHand, ThreadKnows, NEW d \in Txns, WillTake(d), [Next]_vars
  PROVE  WillTake(d)' \/ \E t \in Threads : TakeDeps(t) /\ task[t] = d
<1>1. ASSUME NEW t \in Threads, Plain(t) PROVE WillTake(d)'
  BY Zenon, <1>1 DEF Plain, Others, Waiting, WillTake, At
<1>2. ASSUME NEW t \in Threads, Meets(t) PROVE WillTake(d)'
  BY Zenon, <1>2 DEF Meets, Others, WillTake, At
<1>3. ASSUME NEW t \in Threads, Suspend(t) PROVE WillTake(d)'
  <2>1. \A i \in Txns : txn_status'[i] = txn_status[i] \/ txn_status'[i].kind = "Suspended"
    BY Zenon, <1>3, SuspendedFields DEF Suspend, StatusType
  <2>2. \A u \in Threads : pc[u] = "take_deps" => pc'[u] = "take_deps" /\ task'[u] = task[u]
    BY Zenon, <1>3 DEF Suspend, At, Goto, local, PcType
  <2> QED
    BY Zenon, <2>1, <2>2 DEF WillTake, At
<1>4. ASSUME NEW t \in Threads, Wait(t) PROVE WillTake(d)'
  BY Zenon, <1>4 DEF Wait, At, Goto, PcType, WillTake
<1>5. ASSUME NEW t \in Threads, SetExecuted(t) PROVE WillTake(d)'
  <2>1. \A i \in Txns : txn_status'[i] = txn_status[i] \/ i = task[t]
    BY Zenon, <1>5 DEF SetExecuted, StatusType
  <2>2. pc'[t] = "take_deps" /\ task' = task /\ \A u \in Threads : pc[u] = "take_deps" => pc'[u] = "take_deps"
    BY Zenon, <1>5 DEF SetExecuted, At, Goto, local, PcType
  <2> QED
    BY Zenon, <2>1, <2>2 DEF WillTake, At
<1>6. ASSUME NEW t \in Threads, TakeDeps(t), task[t] # d PROVE WillTake(d)'
  BY Zenon, <1>6 DEF TakeDeps, At, Goto, PcType, WillTake
<1>7. ASSUME NEW t \in Threads, Resume(t) PROVE WillTake(d)'
  <2>1. \A i \in Txns : txn_status'[i] = txn_status[i] \/ txn_status'[i].kind = "ReadyToExecute"
    <3>1. PICK e \in deps[t] : txn_status' = [txn_status EXCEPT ![e] =
            ReadyToExecute(txn_status[e].incarnation, txn_status[e].condvar)]
      BY Zenon, <1>7 DEF Resume
    <3>2. ASSUME NEW i \in Txns, i # e PROVE txn_status'[i] = txn_status[i]
      BY Zenon, <3>1, <3>2 DEF StatusType
    <3>3. ASSUME e \in Txns PROVE txn_status'[e].kind = "ReadyToExecute"
      BY Zenon, <3>1, <3>3, ReadyFields DEF StatusType
    <3> QED
      BY Zenon, <3>2, <3>3
  <2>2. \A u \in Threads : pc[u] = "take_deps" => pc'[u] = "take_deps" /\ task'[u] = task[u]
    BY Zenon, <1>7 DEF Resume, At, Goto, PcType
  <2> QED
    BY Zenon, <2>1, <2>2 DEF WillTake, At
<1>8. CASE UNCHANGED vars
  BY Zenon, <1>8 DEF vars, shared, local, WillTake, At
<1> QED
  BY Zenon, <1>1, <1>2, <1>3, <1>4, <1>5, <1>6, <1>7, <1>8, ResumeSteps

(* A thread waiting on d keeps TakeDeps(d) out until it is on d's list.    *)
Suspending == \A t \in Threads : pc[t] = "suspend" => WillTake(dependency[t])
OnList(t) ==
  \/ task[t] \in txn_dependency[dependency[t]] /\ WillTake(dependency[t])
  \/ \E u \in Threads : pc[u] = "resume" /\ task[t] \in deps[u]

LEMMA WillBeResumedStep ==
  ASSUME NumTxnsAssumption, ThreadsAssumption, PcType, StatusType, LocalType, ListType, OtherType, InHand, ThreadKnows, OneHolder, Lists, WillBeResumed, [Next]_vars
  PROVE  WillBeResumed'
<1>1. Suspending /\ \A t \in Threads : pc[t] = "wait" /\ txn_status[task[t]].kind = "Suspended" => OnList(t)
  BY Zenon DEF WillBeResumed, Suspending, OnList
<1>2. SUFFICES Suspending' /\ \A t \in Threads : pc'[t] = "wait" /\ txn_status'[task'[t]].kind = "Suspended" => OnList(t)'
  BY Zenon DEF WillBeResumed, Suspending, OnList
<1>3. ASSUME NEW u \in Threads, pc[u] = "suspend", NEW t \in Threads, TakeDeps(t), task[t] = dependency[u]
      PROVE  FALSE
  BY Zenon, <1>3 DEF TakeDeps, Locked, At
<1>4. Suspending'
  <2>1. SUFFICES ASSUME NEW u \in Threads, pc'[u] = "suspend" PROVE WillTake(dependency[u])'
    BY Zenon DEF Suspending
  <2>2. CASE pc[u] = "suspend" /\ dependency'[u] = dependency[u]
    <3>1. dependency[u] \in Txns /\ WillTake(dependency[u])
      BY Zenon, <1>1, <2>2 DEF Suspending, InHand
    <3>2. WillTake(dependency[u])' \/ \E t \in Threads : TakeDeps(t) /\ task[t] = dependency[u]
      <4> DEFINE d == dependency[u]
      <4>1. d \in Txns /\ WillTake(d)
        BY Zenon, <3>1
      <4> HIDE DEF d
      <4> QED
        BY Zenon, <4>1, WillTakeStep, <2>2 DEF d, WillTake
    <3> QED
      BY Zenon, <1>3, <2>2, <3>2
  <2>3. CASE \E t \in Threads : Meets(t)
    <3>1. PICK t \in Threads : Meets(t)
      BY Zenon, <2>3
    <3>2. CASE u = t
      BY Zenon, <3>1, <3>2 DEF Meets, WillTake
    <3>3. CASE u # t
      BY Zenon, <2>1, <2>2, <3>1, <3>3 DEF Meets, Others
    <3> QED
      BY Zenon, <3>2, <3>3
  <2>4. ASSUME NEW t \in Threads, Plain(t) PROVE pc[u] = "suspend" /\ dependency'[u] = dependency[u]
    BY Zenon, <2>1, <2>4 DEF Plain, Others, Waiting
  <2>5. ASSUME NEW t \in Threads, Suspend(t) \/ Wait(t) \/ SetExecuted(t) \/ TakeDeps(t) \/ Resume(t)
        PROVE  pc[u] = "suspend" /\ dependency'[u] = dependency[u]
    BY Zenon, <2>1, <2>5 DEF Suspend, Wait, SetExecuted, TakeDeps, Resume, At, Goto, local, PcType,
       LocalType
  <2>6. CASE UNCHANGED vars
    BY Zenon, <2>1, <2>2, <2>6 DEF vars, local
  <2> QED
    BY Zenon, <2>2, <2>3, <2>4, <2>5, <2>6, ResumeSteps
<1>5. ASSUME NEW v \in Threads, pc'[v] = "wait", txn_status'[task'[v]].kind = "Suspended" PROVE OnList(v)'
  <2> DEFINE d == dependency[v]
             Stays == /\ pc[v] = "wait" /\ txn_status[task[v]].kind = "Suspended"
                      /\ task'[v] = task[v] /\ dependency'[v] = d
             Taken == \E u \in Threads : pc[u] = "resume" /\ task[v] \in deps[u]
  <2>1. ASSUME Stays, Taken, \A u \in Threads : pc[u] = "resume" /\ task[v] \in deps[u] => pc'[u] = "resume" /\ task[v] \in deps'[u]
        PROVE  OnList(v)'
    BY Zenon, <2>1 DEF OnList
  <2>2. ASSUME Stays, task[v] \in txn_dependency[d], WillTake(d), task[v] \in txn_dependency'[d],
               \A t \in Threads : ~(TakeDeps(t) /\ task[t] = d)
        PROVE  OnList(v)'
    <3>1. PICK c \in Txns : c = d
      BY Zenon, <2>2 DEF InHand
    <3>2. WillTake(c)'
      BY Zenon, <2>2, <3>1, WillTakeStep
    <3> QED
      BY Zenon, <2>2, <3>1, <3>2 DEF OnList, WillTake
  <2>3. Stays => Taken \/ (task[v] \in txn_dependency[d] /\ WillTake(d))
    BY Zenon, <1>1 DEF OnList
  <2>4. ASSUME NEW t \in Threads, Plain(t) PROVE OnList(v)'
    <3>1. Stays /\ v # t
      BY Zenon, <1>5, <2>4 DEF Plain, Others, Waiting, InHand, Tasked, Guarded
    <3>2. \A u \in Threads : pc[u] = "resume" => pc'[u] = "resume" /\ deps'[u] = deps[u]
      BY Zenon, <2>4 DEF Plain, Others, Waiting
    <3>3. \A u \in Threads : ~TakeDeps(u)
      BY Zenon, <2>4 DEF Plain, Others, Waiting, TakeDeps, At, Goto, PcType
    <3> QED
      BY Zenon, <2>1, <2>2, <2>3, <2>4, <3>1, <3>2, <3>3 DEF Plain
  <2>5. ASSUME NEW t \in Threads, Meets(t) PROVE OnList(v)'
    <3>1. Stays /\ v # t
      BY Zenon, <1>5, <2>5 DEF Meets, Others
    <3>2. \A u \in Threads : pc[u] = "resume" => pc'[u] = "resume" /\ deps'[u] = deps[u]
      BY Zenon, <2>5 DEF Meets, Others
    <3>3. \A u \in Threads : ~TakeDeps(u)
      BY Zenon, <2>5 DEF Meets, Others, TakeDeps, At, Goto, PcType
    <3> QED
      BY Zenon, <2>1, <2>2, <2>3, <2>5, <3>1, <3>2, <3>3 DEF Meets
  <2>6. ASSUME NEW t \in Threads, Suspend(t) PROVE OnList(v)'
    <3>1. /\ task[t] \in Txns /\ dependency[t] \in Txns
          /\ deps' = deps /\ task' = task /\ dependency' = dependency
          /\ \A u \in Threads \ {t} : pc'[u] = pc[u]
          /\ pc[t] = "suspend"
          /\ \A j \in Txns : txn_dependency[j] \subseteq txn_dependency'[j]
          /\ task[t] \in txn_dependency'[dependency[t]]
          /\ \A j \in Txns \ {task[t]} : txn_status'[j] = txn_status[j]
      BY Zenon, <2>6 DEF Suspend, At, Goto, local, InHand, Tasked, Guarded, PcType, ListType,
         StatusType
    <3>2. \A u \in Threads : ~TakeDeps(u)
      BY Zenon, <2>6 DEF Suspend, TakeDeps, At, Goto, PcType
    <3>3. CASE v = t
      <4>1. WillTake(d)
        BY Zenon, <1>1, <3>1, <3>3 DEF Suspending
      <4>2. PICK c \in Txns : c = d
        BY Zenon, <3>1, <3>3
      <4>3. WillTake(c)'
        BY Zenon, <3>2, <4>1, <4>2, WillTakeStep
      <4> QED
        BY Zenon, <3>1, <3>3, <4>2, <4>3 DEF OnList, WillTake
    <3>4. CASE v # t
      <4>1. task[v] # task[t] /\ task[v] \in Txns /\ pc[v] = "wait" /\ d \in Txns
        BY <1>5, <3>1, <3>4 DEF OneHolder, Holding, InHand, Tasked, Guarded
      <4>2. Stays
        BY Zenon, <1>5, <3>1, <3>4, <4>1
      <4> QED
        BY Zenon, <2>1, <2>2, <2>3, <3>1, <3>2, <4>1, <4>2
    <3> QED
      BY Zenon, <3>3, <3>4
  <2>7. ASSUME NEW t \in Threads, Wait(t) PROVE OnList(v)'
    <3>1. Stays
      BY Zenon, <1>5, <2>7 DEF Wait, At, Goto, PcType, LocalType
    <3>2. /\ txn_dependency' = txn_dependency /\ deps' = deps
          /\ \A u \in Threads : pc[u] = "resume" => pc'[u] = "resume"
      BY Zenon, <2>7 DEF Wait, At, Goto, PcType
    <3>3. \A u \in Threads : ~TakeDeps(u)
      BY Zenon, <2>7 DEF Wait, TakeDeps, At, Goto, PcType
    <3> QED
      BY Zenon, <2>1, <2>2, <2>3, <3>1, <3>2, <3>3
  <2>8. ASSUME NEW t \in Threads, SetExecuted(t) PROVE OnList(v)'
    <3>1. /\ task[t] \in Txns /\ task' = task /\ dependency' = dependency /\ deps' = deps
          /\ txn_dependency' = txn_dependency /\ pc'[t] = "take_deps"
          /\ \A u \in Threads \ {t} : pc'[u] = pc[u]
          /\ pc[t] = "set_executed"
      BY Zenon, <2>8 DEF SetExecuted, At, Goto, local, InHand, Tasked, Guarded, PcType
    <3>2. \A j \in Txns : txn_status'[j] = txn_status[j] \/ txn_status'[j].kind = "Executed"
      BY Zenon, <2>8, ExecutedFields DEF SetExecuted, StatusType
    <3>3. Stays
      BY Zenon, <1>5, <3>1, <3>2 DEF InHand, Tasked, Guarded
    <3>4. \A u \in Threads : ~TakeDeps(u)
      BY Zenon, <2>8 DEF SetExecuted, TakeDeps, At, Goto, PcType
    <3> QED
      BY Zenon, <2>1, <2>2, <2>3, <3>1, <3>3, <3>4
  <2>9. ASSUME NEW t \in Threads, TakeDeps(t) PROVE OnList(v)'
    <3>1. /\ task[t] \in Txns /\ task' = task /\ dependency' = dependency /\ txn_status' = txn_status
          /\ \A u \in Threads \ {t} : pc'[u] = pc[u] /\ deps'[u] = deps[u]
          /\ pc[t] = "take_deps" /\ pc'[t] # "wait"
          /\ deps'[t] = txn_dependency[task[t]]
          /\ deps'[t] # {} => pc'[t] = "resume"
          /\ \A j \in Txns \ {task[t]} : txn_dependency'[j] = txn_dependency[j]
      BY Zenon, <2>9 DEF TakeDeps, At, Goto, InHand, Tasked, Guarded, PcType, ListType
    <3>2. Stays /\ d \in Txns
      BY Zenon, <1>5, <3>1 DEF InHand
    <3>3. \A u \in Threads : TakeDeps(u) => u = t
      BY Zenon, <2>9 DEF TakeDeps, At, Goto, PcType
    <3>4. CASE Taken
      BY Zenon, <2>1, <3>1, <3>2, <3>4
    <3>5. CASE task[v] \in txn_dependency[d] /\ d = task[t]
      BY Zenon, <3>1, <3>2, <3>5 DEF OnList
    <3>6. CASE task[v] \in txn_dependency[d] /\ d # task[t] /\ WillTake(d)
      BY Zenon, <2>2, <3>1, <3>2, <3>3, <3>6
    <3> QED
      BY Zenon, <2>3, <3>2, <3>4, <3>5, <3>6
  <2>10. ASSUME NEW t \in Threads, Resume(t) PROVE OnList(v)'
    <3>1. PICK c \in deps[t] :
            /\ txn_status' = [txn_status EXCEPT ![c] =
                 ReadyToExecute(txn_status[c].incarnation, txn_status[c].condvar)]
            /\ deps' = [deps EXCEPT ![t] = deps[t] \ {c}]
            /\ Goto(t, IF deps[t] = {c} THEN "decrease_execution_idx" ELSE "resume")
      BY Zenon, <2>10 DEF Resume
    <3>2. c \in Txns /\ txn_dependency' = txn_dependency /\ task' = task /\ dependency' = dependency
      BY Zenon, <2>10, <3>1 DEF Resume, ListType
    <3>3. /\ \A u \in Threads \ {t} : pc'[u] = pc[u] /\ deps'[u] = deps[u]
          /\ pc'[t] # "wait" /\ deps'[t] = deps[t] \ {c}
          /\ deps'[t] # {} => pc'[t] = "resume"
      BY Zenon, <2>10, <3>1 DEF Resume, Goto, PcType, ListType
    <3>4. txn_status'[c].kind = "ReadyToExecute" /\ \A k \in Txns \ {c} : txn_status'[k] = txn_status[k]
      BY <3>1, <3>2, Fields DEF StatusType
    <3>5. Stays /\ task[v] # c
      BY Zenon, <1>5, <3>2, <3>3, <3>4 DEF InHand, Tasked, Guarded
    <3>6. \A u \in Threads : ~TakeDeps(u)
      BY Zenon, <2>10 DEF Resume, TakeDeps, At, Goto, PcType
    <3>7. \A u \in Threads : pc[u] = "resume" /\ task[v] \in deps[u] => pc'[u] = "resume" /\ task[v] \in deps'[u]
      BY Zenon, <3>3, <3>5
    <3> QED
      BY Zenon, <2>1, <2>2, <2>3, <3>2, <3>5, <3>6, <3>7
  <2>11. CASE UNCHANGED vars
    BY Zenon, <1>1, <1>5, <2>11 DEF vars, shared, local, OnList, WillTake, At
  <2> QED
    BY Zenon, <2>4, <2>5, <2>6, <2>7, <2>8, <2>9, <2>10, <2>11, ResumeSteps
<1> QED
  BY Zenon, <1>2, <1>4, <1>5

-----------------------------------------------------------------------------
(***************************************************************************)
(* Type correctness; every thread with a guard is counted in               *)
(* num_active_tasks.                                                       *)
(***************************************************************************)

(* Every label a thread goes to is a label.                                *)
LEMMA PcTypeStep ==
  ASSUME PcType, [Next]_vars
  PROVE  PcType'
<1> USE DEF Goto, At, shared, local, PcType, Labels, Guarded, Unguarded
<1>1. ASSUME NEW t \in Threads, NextTask(t) PROVE PcType'
  BY <1>1 DEF NextTask
<1>2. ASSUME NEW t \in Threads, LoadValidationIdx(t) PROVE PcType'
  BY <1>2 DEF LoadValidationIdx
<1>3. ASSUME NEW t \in Threads, LoadExecutionIdx(t) PROVE PcType'
  BY <1>3 DEF LoadExecutionIdx
<1>4. ASSUME NEW t \in Threads, TryValidate(t) PROVE PcType'
  BY <1>4 DEF TryValidate
<1>5. ASSUME NEW t \in Threads, NewGuard(t, "guard_validation", "claim_validation") PROVE PcType'
  BY <1>5 DEF NewGuard, Counted
<1>6. ASSUME NEW t \in Threads, ClaimValidation(t) PROVE PcType'
  BY <1>6 DEF ClaimValidation
<1>7. ASSUME NEW t \in Threads, IsExecuted(t) PROVE PcType'
  BY <1>7 DEF IsExecuted, is_executed
<1>8. ASSUME NEW t \in Threads, TryExecute(t) PROVE PcType'
  BY <1>8 DEF TryExecute
<1>9. ASSUME NEW t \in Threads, NewGuard(t, "guard_execution", "claim_execution") PROVE PcType'
  BY <1>9 DEF NewGuard, Counted
<1>10. ASSUME NEW t \in Threads, ClaimExecution(t) PROVE PcType'
  BY <1>10 DEF ClaimExecution
<1>11. ASSUME NEW t \in Threads, TryIncarnate(t) PROVE PcType'
  BY <1>11 DEF TryIncarnate, ExecutesOrNotifies
<1>12. ASSUME NEW t \in Threads, Notify(t) PROVE PcType'
  BY <1>12 DEF Notify
<1>13. ASSUME NEW t \in Threads, DropGuard(t) PROVE PcType'
  BY <1>13 DEF DropGuard
<1>14. ASSUME NEW t \in Threads, LoadDecreaseCnt(t) PROVE PcType'
  BY <1>14 DEF LoadDecreaseCnt
<1>15. ASSUME NEW t \in Threads, CheckValidationIdx(t) PROVE PcType'
  BY <1>15 DEF CheckValidationIdx, CheckLoad
<1>16. ASSUME NEW t \in Threads, CheckExecutionIdx(t) PROVE PcType'
  BY <1>16 DEF CheckExecutionIdx, CheckLoad
<1>17. ASSUME NEW t \in Threads, CheckActiveTasks(t) PROVE PcType'
  BY <1>17 DEF CheckActiveTasks, CheckLoad
<1>18. ASSUME NEW t \in Threads, CheckDecreaseCnt(t) PROVE PcType'
  BY <1>18 DEF CheckDecreaseCnt, CheckLoad, SameCount
<1>19. ASSUME NEW t \in Threads, SetDone(t) PROVE PcType'
  BY <1>19 DEF SetDone
<1>20. ASSUME NEW t \in Threads, Suspend(t) PROVE PcType'
  BY <1>20 DEF Suspend
<1>21. ASSUME NEW t \in Threads, Wait(t) PROVE PcType'
  BY <1>21 DEF Wait
<1>22. ASSUME NEW t \in Threads, SetExecuted(t) PROVE PcType'
  BY <1>22 DEF SetExecuted
<1>23. ASSUME NEW t \in Threads, TakeDeps(t) PROVE PcType'
  BY <1>23 DEF TakeDeps, LeftAfterTake
<1>24. ASSUME NEW t \in Threads, Resume(t) PROVE PcType'
  BY <1>24 DEF Resume
<1>25. ASSUME NEW t \in Threads, DecreaseExecutionIdx(t) PROVE PcType'
  BY <1>25 DEF DecreaseExecutionIdx, Least
<1>26. ASSUME NEW t \in Threads, Count(t, "count_execution", "load_validation") PROVE PcType'
  BY <1>26 DEF Count
<1>27. ASSUME NEW t \in Threads, LoadValidation(t) PROVE PcType'
  BY <1>27 DEF LoadValidation
<1>28. ASSUME NEW t \in Threads, DecreaseValidationIdx(t, "decrease_suffix", task[t], "count_suffix", "drop_guard") PROVE PcType'
  BY <1>28 DEF DecreaseValidationIdx, Least
<1>29. ASSUME NEW t \in Threads, Count(t, "count_suffix", "drop_guard") PROVE PcType'
  BY <1>29 DEF Count
<1>30. ASSUME NEW t \in Threads, TryAbort(t) PROVE PcType'
  BY <1>30 DEF TryAbort, Abortable
<1>31. ASSUME NEW t \in Threads, SetAborted(t) PROVE PcType'
  BY <1>31 DEF SetAborted, NextIncarnation
<1>32. ASSUME NEW t \in Threads, DecreaseValidationIdx(t, "decrease_aborted", task[t] + 1, "count_aborted", "load_execution") PROVE PcType'
  BY <1>32 DEF DecreaseValidationIdx, Least
<1>33. ASSUME NEW t \in Threads, Count(t, "count_aborted", "load_execution") PROVE PcType'
  BY <1>33 DEF Count
<1>34. ASSUME NEW t \in Threads, LoadExecution(t) PROVE PcType'
  BY <1>34 DEF LoadExecution
<1>35. ASSUME NEW t \in Threads, NEW d \in Txns, MeetDependency(t, d) PROVE PcType'
  BY <1>35 DEF MeetDependency, is_executed
<1>36. ASSUME NEW t \in Threads, NEW b \in BOOLEAN, Finish(t, b) PROVE PcType'
  BY <1>36 DEF Finish
<1>37. ASSUME NEW t \in Threads, Pass(t) PROVE PcType'
  BY <1>37 DEF Pass
<1>38. ASSUME NEW t \in Threads, Fail(t) PROVE PcType'
  BY <1>38 DEF Fail
<1>39. ASSUME NEW t \in Threads, EstimatesMarked(t) PROVE PcType'
  BY <1>39 DEF EstimatesMarked
<1>40. CASE UNCHANGED vars
  BY Zenon, <1>40 DEF vars
<1> QED
  BY Zenon, <1>1, <1>2, <1>3, <1>4, <1>5, <1>6, <1>7, <1>8, <1>9, <1>10, <1>11, <1>12, <1>13, <1>14,
     <1>15, <1>16, <1>17, <1>18, <1>19, <1>20, <1>21, <1>22, <1>23, <1>24, <1>25, <1>26, <1>27,
     <1>28, <1>29, <1>30, <1>31, <1>32, <1>33, <1>34, <1>35, <1>36, <1>37, <1>38, <1>39, <1>40
     DEF Next, SchedulerStep, TaskStep

(* The versions, condvars and indices that the threads have in hand.       *)
LEMMA LocalTypeStep ==
  ASSUME NumTxnsAssumption, StatusType, LocalType, ListType, OtherType, InHand, [Next]_vars
  PROVE  LocalType'
<1> USE DEF Goto, At, shared, local, LocalType, NoTxn
<1>1. ASSUME NEW t \in Threads, NextTask(t) PROVE LocalType'
  BY <1>1 DEF NextTask
<1>2. ASSUME NEW t \in Threads, LoadValidationIdx(t) PROVE LocalType'
  BY <1>2 DEF LoadValidationIdx, OtherType
<1>3. ASSUME NEW t \in Threads, LoadExecutionIdx(t) PROVE LocalType'
  BY <1>3 DEF LoadExecutionIdx
<1>4. ASSUME NEW t \in Threads, TryValidate(t) PROVE LocalType'
  BY <1>4 DEF TryValidate
<1>5. ASSUME NEW t \in Threads, NewGuard(t, "guard_validation", "claim_validation") PROVE LocalType'
  BY <1>5 DEF NewGuard, Counted
<1>6. ASSUME NEW t \in Threads, ClaimValidation(t) PROVE LocalType'
  BY <1>6 DEF ClaimValidation, OtherType
<1>7. ASSUME NEW t \in Threads, IsExecuted(t) PROVE LocalType'
  <2>1. CASE is_executed(task[t])
    <3>1. txn_status[task[t]] \in Statuses
      BY <2>1 DEF is_executed, LocalType, StatusType, Txns
    <3> QED
      BY <2>1, <3>1, StatusParts, <1>7 DEF IsExecuted
  <2>2. CASE ~is_executed(task[t])
    BY <2>2, <1>7 DEF IsExecuted
  <2> QED
    BY <2>1, <2>2
<1>8. ASSUME NEW t \in Threads, TryExecute(t) PROVE LocalType'
  BY <1>8 DEF TryExecute
<1>9. ASSUME NEW t \in Threads, NewGuard(t, "guard_execution", "claim_execution") PROVE LocalType'
  BY <1>9 DEF NewGuard, Counted
<1>10. ASSUME NEW t \in Threads, ClaimExecution(t) PROVE LocalType'
  BY <1>10 DEF ClaimExecution, OtherType
<1>11. ASSUME NEW t \in Threads, TryIncarnate(t) PROVE LocalType'
  <2> DEFINE s == txn_status[task[t]]
  <2>1. CASE task[t] < NumTxns /\ s.kind = "ReadyToExecute"
    <3>1. s \in Statuses
      BY <2>1 DEF LocalType, StatusType, Txns
    <3>2. s.incarnation \in Nat /\ s.condvar \in Threads \cup {NoCondvar}
      BY <3>1, StatusParts
    <3> HIDE DEF s
    <3> QED
      BY <2>1, <3>2, <1>11 DEF TryIncarnate, s
  <2>2. CASE ~(task[t] < NumTxns /\ s.kind = "ReadyToExecute")
    BY <2>2, <1>11 DEF TryIncarnate
  <2> QED
    BY <2>1, <2>2
<1>12. ASSUME NEW t \in Threads, Notify(t) PROVE LocalType'
  BY <1>12 DEF Notify
<1>13. ASSUME NEW t \in Threads, DropGuard(t) PROVE LocalType'
  BY <1>13 DEF DropGuard
<1>14. ASSUME NEW t \in Threads, LoadDecreaseCnt(t) PROVE LocalType'
  BY <1>14 DEF LoadDecreaseCnt
<1>15. ASSUME NEW t \in Threads, CheckValidationIdx(t) PROVE LocalType'
  BY <1>15 DEF CheckValidationIdx, CheckLoad
<1>16. ASSUME NEW t \in Threads, CheckExecutionIdx(t) PROVE LocalType'
  BY <1>16 DEF CheckExecutionIdx, CheckLoad
<1>17. ASSUME NEW t \in Threads, CheckActiveTasks(t) PROVE LocalType'
  BY <1>17 DEF CheckActiveTasks, CheckLoad
<1>18. ASSUME NEW t \in Threads, CheckDecreaseCnt(t) PROVE LocalType'
  BY <1>18 DEF CheckDecreaseCnt, CheckLoad, SameCount
<1>19. ASSUME NEW t \in Threads, SetDone(t) PROVE LocalType'
  BY <1>19 DEF SetDone
<1>20. ASSUME NEW t \in Threads, Suspend(t) PROVE LocalType'
  BY <1>20 DEF Suspend
<1>21. ASSUME NEW t \in Threads, Wait(t) PROVE LocalType'
  BY <1>21 DEF Wait
<1>22. ASSUME NEW t \in Threads, SetExecuted(t) PROVE LocalType'
  BY <1>22 DEF SetExecuted
<1>23. ASSUME NEW t \in Threads, TakeDeps(t) PROVE LocalType'
  <2> DEFINE taken == txn_dependency[task[t]]
  <2>1. task[t] \in Txns /\ Txns \subseteq Nat
    BY <1>23, NumTxnsAssumption DEF TakeDeps, InHand, Tasked, Guarded, Txns
  <2>2. taken \subseteq Nat
    BY Zenon, <2>1 DEF ListType
  <2> HIDE DEF taken
  <2> QED
    BY <1>23, <2>2 DEF TakeDeps, taken, NoTxn
<1>24. ASSUME NEW t \in Threads, Resume(t) PROVE LocalType'
  BY <1>24 DEF Resume
<1>25. ASSUME NEW t \in Threads, DecreaseExecutionIdx(t) PROVE LocalType'
  BY <1>25 DEF DecreaseExecutionIdx, Least
<1>26. ASSUME NEW t \in Threads, Count(t, "count_execution", "load_validation") PROVE LocalType'
  BY <1>26 DEF Count
<1>27. ASSUME NEW t \in Threads, LoadValidation(t) PROVE LocalType'
  BY <1>27 DEF LoadValidation
<1>28. ASSUME NEW t \in Threads, DecreaseValidationIdx(t, "decrease_suffix", task[t], "count_suffix", "drop_guard") PROVE LocalType'
  BY <1>28 DEF DecreaseValidationIdx, Least
<1>29. ASSUME NEW t \in Threads, Count(t, "count_suffix", "drop_guard") PROVE LocalType'
  BY <1>29 DEF Count
<1>30. ASSUME NEW t \in Threads, TryAbort(t) PROVE LocalType'
  BY <1>30 DEF TryAbort, Abortable
<1>31. ASSUME NEW t \in Threads, SetAborted(t) PROVE LocalType'
  BY <1>31 DEF SetAborted, NextIncarnation
<1>32. ASSUME NEW t \in Threads, DecreaseValidationIdx(t, "decrease_aborted", task[t] + 1, "count_aborted", "load_execution") PROVE LocalType'
  BY <1>32 DEF DecreaseValidationIdx, Least
<1>33. ASSUME NEW t \in Threads, Count(t, "count_aborted", "load_execution") PROVE LocalType'
  BY <1>33 DEF Count
<1>34. ASSUME NEW t \in Threads, LoadExecution(t) PROVE LocalType'
  BY <1>34 DEF LoadExecution
<1>35. ASSUME NEW t \in Threads, NEW d \in Txns, MeetDependency(t, d) PROVE LocalType'
  BY <1>35 DEF MeetDependency, Txns
<1>36. ASSUME NEW t \in Threads, NEW b \in BOOLEAN, Finish(t, b) PROVE LocalType'
  BY <1>36 DEF Finish
<1>37. ASSUME NEW t \in Threads, Pass(t) PROVE LocalType'
  BY <1>37 DEF Pass
<1>38. ASSUME NEW t \in Threads, Fail(t) PROVE LocalType'
  BY <1>38 DEF Fail
<1>39. ASSUME NEW t \in Threads, EstimatesMarked(t) PROVE LocalType'
  BY <1>39 DEF EstimatesMarked
<1>40. CASE UNCHANGED vars
  BY <1>40 DEF vars
<1> QED
  BY Zenon, <1>1, <1>2, <1>3, <1>4, <1>5, <1>6, <1>7, <1>8, <1>9, <1>10, <1>11, <1>12, <1>13, <1>14,
     <1>15, <1>16, <1>17, <1>18, <1>19, <1>20, <1>21, <1>22, <1>23, <1>24, <1>25, <1>26, <1>27,
     <1>28, <1>29, <1>30, <1>31, <1>32, <1>33, <1>34, <1>35, <1>36, <1>37, <1>38, <1>39, <1>40
     DEF Next, SchedulerStep, TaskStep

(* A thread with a guard is counted.                                       *)
LEMMA GuardPositive ==
  ASSUME ThreadsAssumption, GuardsCounted, NEW t \in Threads, pc[t] \in Guarded
  PROVE  num_active_tasks \in Nat /\ num_active_tasks > 0
<1>1. IsFiniteSet(GuardedThreads)
  BY ThreadsAssumption, FS_Subset DEF GuardedThreads
<1>2. GuardedThreads # {}
  BY DEF GuardedThreads
<1>3. Cardinality(GuardedThreads) \in Nat /\ Cardinality(GuardedThreads) # 0
  BY Zenon, <1>1, <1>2, FS_CardinalityType, FS_EmptySet
<1> QED
  BY <1>3 DEF GuardsCounted

(* The indices, the flags and the count of tasks.                          *)
LEMMA OtherTypeStep ==
  ASSUME LocalType, OtherType, InHand, GuardsCounted, ThreadsAssumption, [Next]_vars
  PROVE  OtherType'
<1> USE DEF Goto, At, shared, local, OtherType
<1>1. ASSUME NEW t \in Threads, NextTask(t) PROVE OtherType'
  BY <1>1 DEF NextTask
<1>2. ASSUME NEW t \in Threads, LoadValidationIdx(t) PROVE OtherType'
  BY <1>2 DEF LoadValidationIdx
<1>3. ASSUME NEW t \in Threads, LoadExecutionIdx(t) PROVE OtherType'
  BY <1>3 DEF LoadExecutionIdx
<1>4. ASSUME NEW t \in Threads, TryValidate(t) PROVE OtherType'
  BY <1>4 DEF TryValidate
<1>5. ASSUME NEW t \in Threads, NewGuard(t, "guard_validation", "claim_validation") PROVE OtherType'
  BY <1>5 DEF NewGuard, Counted
<1>6. ASSUME NEW t \in Threads, ClaimValidation(t) PROVE OtherType'
  BY <1>6 DEF ClaimValidation
<1>7. ASSUME NEW t \in Threads, IsExecuted(t) PROVE OtherType'
  BY <1>7 DEF IsExecuted, is_executed
<1>8. ASSUME NEW t \in Threads, TryExecute(t) PROVE OtherType'
  BY <1>8 DEF TryExecute
<1>9. ASSUME NEW t \in Threads, NewGuard(t, "guard_execution", "claim_execution") PROVE OtherType'
  BY <1>9 DEF NewGuard, Counted
<1>10. ASSUME NEW t \in Threads, ClaimExecution(t) PROVE OtherType'
  BY <1>10 DEF ClaimExecution
<1>11. ASSUME NEW t \in Threads, TryIncarnate(t) PROVE OtherType'
  BY <1>11 DEF TryIncarnate, ExecutesOrNotifies
<1>12. ASSUME NEW t \in Threads, Notify(t) PROVE OtherType'
  BY <1>12 DEF Notify, InHand
<1>13. ASSUME NEW t \in Threads, DropGuard(t) PROVE OtherType'
  <2>1. num_active_tasks > 0
    BY <1>13, GuardPositive DEF DropGuard, Guarded
  <2> QED
    BY <1>13, <2>1 DEF DropGuard
<1>14. ASSUME NEW t \in Threads, LoadDecreaseCnt(t) PROVE OtherType'
  BY <1>14 DEF LoadDecreaseCnt
<1>15. ASSUME NEW t \in Threads, CheckValidationIdx(t) PROVE OtherType'
  BY <1>15 DEF CheckValidationIdx, CheckLoad
<1>16. ASSUME NEW t \in Threads, CheckExecutionIdx(t) PROVE OtherType'
  BY <1>16 DEF CheckExecutionIdx, CheckLoad
<1>17. ASSUME NEW t \in Threads, CheckActiveTasks(t) PROVE OtherType'
  BY <1>17 DEF CheckActiveTasks, CheckLoad
<1>18. ASSUME NEW t \in Threads, CheckDecreaseCnt(t) PROVE OtherType'
  BY <1>18 DEF CheckDecreaseCnt, CheckLoad, SameCount
<1>19. ASSUME NEW t \in Threads, SetDone(t) PROVE OtherType'
  BY Zenon, <1>19 DEF SetDone
<1>20. ASSUME NEW t \in Threads, Suspend(t) PROVE OtherType'
  BY <1>20 DEF Suspend
<1>21. ASSUME NEW t \in Threads, Wait(t) PROVE OtherType'
  BY <1>21 DEF Wait
<1>22. ASSUME NEW t \in Threads, SetExecuted(t) PROVE OtherType'
  BY Zenon, <1>22 DEF SetExecuted
<1>23. ASSUME NEW t \in Threads, TakeDeps(t) PROVE OtherType'
  BY <1>23 DEF TakeDeps, LeftAfterTake
<1>24. ASSUME NEW t \in Threads, Resume(t) PROVE OtherType'
  BY <1>24 DEF Resume
<1>25. ASSUME NEW t \in Threads, DecreaseExecutionIdx(t) PROVE OtherType'
  BY <1>25 DEF DecreaseExecutionIdx, Least, LocalType
<1>26. ASSUME NEW t \in Threads, Count(t, "count_execution", "load_validation") PROVE OtherType'
  BY <1>26 DEF Count
<1>27. ASSUME NEW t \in Threads, LoadValidation(t) PROVE OtherType'
  BY Zenon, <1>27 DEF LoadValidation
<1>28. ASSUME NEW t \in Threads, DecreaseValidationIdx(t, "decrease_suffix", task[t], "count_suffix", "drop_guard") PROVE OtherType'
  BY <1>28 DEF DecreaseValidationIdx, Least, LocalType
<1>29. ASSUME NEW t \in Threads, Count(t, "count_suffix", "drop_guard") PROVE OtherType'
  BY <1>29 DEF Count
<1>30. ASSUME NEW t \in Threads, TryAbort(t) PROVE OtherType'
  BY <1>30 DEF TryAbort, Abortable
<1>31. ASSUME NEW t \in Threads, SetAborted(t) PROVE OtherType'
  BY <1>31 DEF SetAborted, NextIncarnation
<1>32. ASSUME NEW t \in Threads, DecreaseValidationIdx(t, "decrease_aborted", task[t] + 1, "count_aborted", "load_execution") PROVE OtherType'
  BY <1>32 DEF DecreaseValidationIdx, Least, LocalType
<1>33. ASSUME NEW t \in Threads, Count(t, "count_aborted", "load_execution") PROVE OtherType'
  BY <1>33 DEF Count
<1>34. ASSUME NEW t \in Threads, LoadExecution(t) PROVE OtherType'
  BY Zenon, <1>34 DEF LoadExecution
<1>35. ASSUME NEW t \in Threads, NEW d \in Txns, MeetDependency(t, d) PROVE OtherType'
  BY <1>35 DEF MeetDependency, is_executed
<1>36. ASSUME NEW t \in Threads, NEW b \in BOOLEAN, Finish(t, b) PROVE OtherType'
  BY <1>36 DEF Finish
<1>37. ASSUME NEW t \in Threads, Pass(t) PROVE OtherType'
  BY <1>37 DEF Pass
<1>38. ASSUME NEW t \in Threads, Fail(t) PROVE OtherType'
  BY <1>38 DEF Fail
<1>39. ASSUME NEW t \in Threads, EstimatesMarked(t) PROVE OtherType'
  BY <1>39 DEF EstimatesMarked
<1>40. CASE UNCHANGED vars
  BY <1>40 DEF vars
<1> QED
  BY Zenon, <1>1, <1>2, <1>3, <1>4, <1>5, <1>6, <1>7, <1>8, <1>9, <1>10, <1>11, <1>12, <1>13, <1>14,
     <1>15, <1>16, <1>17, <1>18, <1>19, <1>20, <1>21, <1>22, <1>23, <1>24, <1>25, <1>26, <1>27,
     <1>28, <1>29, <1>30, <1>31, <1>32, <1>33, <1>34, <1>35, <1>36, <1>37, <1>38, <1>39, <1>40
     DEF Next, SchedulerStep, TaskStep

(* The statuses.                                                           *)
LEMMA StatusTypeStep ==
  ASSUME NumTxnsAssumption, PcType, StatusType, LocalType, ListType, InHand, [Next]_vars
  PROVE  StatusType'
<1> USE DEF Goto, At, shared, local, StatusType
<1>1. ASSUME NEW t \in Threads, Aside(t) PROVE StatusType'
  BY <1>1 DEF Aside, Special, Holding
<1>2. ASSUME NEW t \in Threads, ClaimExecution(t) PROVE StatusType'
  BY <1>2 DEF ClaimExecution
<1>3. ASSUME NEW t \in Threads, TryIncarnate(t) PROVE StatusType'
  <2> DEFINE s == txn_status[task[t]]
  <2>1. CASE task[t] < NumTxns /\ s.kind = "ReadyToExecute"
    <3>1. s \in Statuses
      BY <2>1, TxnIs DEF LocalType
    <3>2. Executing(s.incarnation) \in Statuses
      BY Zenon, <3>1, StatusParts, StatusTypes
    <3> HIDE DEF s
    <3> QED
      BY <2>1, <3>2, <1>3 DEF TryIncarnate, s
  <2>2. CASE ~(task[t] < NumTxns /\ s.kind = "ReadyToExecute")
    BY <2>2, <1>3 DEF TryIncarnate
  <2> QED
    BY Zenon, <2>1, <2>2
<1>4. ASSUME NEW t \in Threads, Notify(t) PROVE StatusType'
  BY Zenon, <1>4 DEF Notify
<1>5. ASSUME NEW t \in Threads, Suspend(t) PROVE StatusType'
  BY Zenon, <1>5, StatusTypes, StatusParts DEF Suspend, InHand, Tasked, Guarded, LocalType, ListType
<1>6. ASSUME NEW t \in Threads, Wait(t) PROVE StatusType'
  BY <1>6 DEF Wait
<1>7. ASSUME NEW t \in Threads, SetExecuted(t) PROVE StatusType'
  BY Zenon, <1>7, StatusTypes, StatusParts DEF SetExecuted, InHand, Tasked, Guarded, LocalType,
     ListType
<1>8. ASSUME NEW t \in Threads, TakeDeps(t) PROVE StatusType'
  BY Zenon, <1>8 DEF TakeDeps, LeftAfterTake
<1>9. ASSUME NEW t \in Threads, Resume(t) PROVE StatusType'
  BY <1>9, StatusTypes, StatusParts DEF Resume, InHand, Tasked, Guarded, LocalType, ListType
<1>10. ASSUME NEW t \in Threads, DecreaseExecutionIdx(t) PROVE StatusType'
  BY <1>10 DEF DecreaseExecutionIdx, Least
<1>11. ASSUME NEW t \in Threads, TryAbort(t) PROVE StatusType'
  <2>1. Aborting(incarnation[t]) \in Statuses
    BY StatusTypes DEF LocalType
  <2> QED
    BY <1>11, <2>1 DEF TryAbort
<1>12. ASSUME NEW t \in Threads, SetAborted(t) PROVE StatusType'
  <2>1. incarnation[t] + 1 \in Nat
    BY DEF LocalType
  <2>2. ReadyToExecute(incarnation[t] + 1, NoCondvar) \in Statuses
    BY <2>1, StatusTypes
  <2> QED
    BY Zenon, <1>12, <2>2 DEF SetAborted, NextIncarnation
<1>13. ASSUME NEW t \in Threads, DecreaseValidationIdx(t, "decrease_aborted", task[t] + 1, "count_aborted", "load_execution")
      PROVE  StatusType'
  BY <1>13 DEF DecreaseValidationIdx, Least
<1>14. ASSUME NEW t \in Threads, Count(t, "count_aborted", "load_execution")
      PROVE  StatusType'
  BY <1>14 DEF Count
<1>15. ASSUME NEW t \in Threads, LoadExecution(t) PROVE StatusType'
  BY <1>15 DEF LoadExecution
<1>16. ASSUME NEW t \in Threads, NEW d \in Txns, MeetDependency(t, d) PROVE StatusType'
  BY <1>16 DEF MeetDependency, is_executed
<1>17. ASSUME NEW t \in Threads, NEW b \in BOOLEAN, Finish(t, b) PROVE StatusType'
  BY <1>17 DEF Finish
<1>18. ASSUME NEW t \in Threads, EstimatesMarked(t) PROVE StatusType'
  BY <1>18 DEF EstimatesMarked
<1>19. CASE UNCHANGED vars
  BY Zenon, <1>19 DEF vars
<1> QED
  BY Zenon, <1>1, <1>2, <1>3, <1>4, <1>5, <1>6, <1>7, <1>8, <1>9, <1>10, <1>11, <1>12, <1>13, <1>14,
     <1>15, <1>16, <1>17, <1>18, <1>19, StepCases

(* The lists of dependents.                                                *)
LEMMA ListTypeStep ==
  ASSUME NumTxnsAssumption, PcType, StatusType, LocalType, ListType, InHand, [Next]_vars
  PROVE  ListType'
<1> USE DEF Goto, At, shared, local, ListType
<1>1. ASSUME NEW t \in Threads, Aside(t) PROVE ListType'
  BY Zenon, <1>1 DEF Aside, Special, Holding
<1>2. ASSUME NEW t \in Threads, ClaimExecution(t) PROVE ListType'
  BY Zenon, <1>2 DEF ClaimExecution
<1>3. ASSUME NEW t \in Threads, TryIncarnate(t) PROVE ListType'
  BY Zenon, <1>3 DEF TryIncarnate, ExecutesOrNotifies
<1>4. ASSUME NEW t \in Threads, Notify(t) PROVE ListType'
  BY Zenon, <1>4 DEF Notify
<1>5. ASSUME NEW t \in Threads, Suspend(t) PROVE ListType'
  BY <1>5 DEF Suspend, InHand, Tasked, Guarded
<1>6. ASSUME NEW t \in Threads, Wait(t) PROVE ListType'
  BY <1>6 DEF Wait
<1>7. ASSUME NEW t \in Threads, SetExecuted(t) PROVE ListType'
  BY Zenon, <1>7 DEF SetExecuted
<1>8. ASSUME NEW t \in Threads, TakeDeps(t) PROVE ListType'
  BY <1>8 DEF TakeDeps, LeftAfterTake, InHand, Tasked, Guarded
<1>9. ASSUME NEW t \in Threads, Resume(t) PROVE ListType'
  BY <1>9 DEF Resume
<1>10. ASSUME NEW t \in Threads, DecreaseExecutionIdx(t) PROVE ListType'
  BY Zenon, <1>10 DEF DecreaseExecutionIdx, Least
<1>11. ASSUME NEW t \in Threads, TryAbort(t) PROVE ListType'
  BY Zenon, <1>11 DEF TryAbort, Abortable
<1>12. ASSUME NEW t \in Threads, SetAborted(t) PROVE ListType'
  BY <1>12 DEF SetAborted, NextIncarnation
<1>13. ASSUME NEW t \in Threads, DecreaseValidationIdx(t, "decrease_aborted", task[t] + 1, "count_aborted", "load_execution")
      PROVE  ListType'
  BY <1>13 DEF DecreaseValidationIdx, Least
<1>14. ASSUME NEW t \in Threads, Count(t, "count_aborted", "load_execution")
      PROVE  ListType'
  BY <1>14 DEF Count
<1>15. ASSUME NEW t \in Threads, LoadExecution(t) PROVE ListType'
  BY <1>15 DEF LoadExecution
<1>16. ASSUME NEW t \in Threads, NEW d \in Txns, MeetDependency(t, d) PROVE ListType'
  BY <1>16 DEF MeetDependency, is_executed
<1>17. ASSUME NEW t \in Threads, NEW b \in BOOLEAN, Finish(t, b) PROVE ListType'
  BY <1>17 DEF Finish
<1>18. ASSUME NEW t \in Threads, EstimatesMarked(t) PROVE ListType'
  BY <1>18 DEF EstimatesMarked
<1>19. CASE UNCHANGED vars
  BY Zenon, <1>19 DEF vars
<1> QED
  BY Zenon, <1>1, <1>2, <1>3, <1>4, <1>5, <1>6, <1>7, <1>8, <1>9, <1>10, <1>11, <1>12, <1>13, <1>14,
     <1>15, <1>16, <1>17, <1>18, <1>19, StepCases

(* What a thread has in hand is of the block.                              *)
LEMMA InHandStep ==
  ASSUME NumTxnsAssumption, PcType, StatusType, LocalType, ListType, InHand, [Next]_vars
  PROVE  InHand'
<1> USE DEF Goto, At, shared, local, InHand, PcType, LocalType, ListType, Tasked, Guarded
<1>1. ASSUME NEW t \in Threads, NextTask(t) PROVE InHand'
  BY Zenon, <1>1 DEF NextTask
<1>2. ASSUME NEW t \in Threads, LoadValidationIdx(t) PROVE InHand'
  BY Zenon, <1>2 DEF LoadValidationIdx
<1>3. ASSUME NEW t \in Threads, LoadExecutionIdx(t) PROVE InHand'
  BY Zenon, <1>3 DEF LoadExecutionIdx
<1>4. ASSUME NEW t \in Threads, TryValidate(t) PROVE InHand'
  BY Zenon, <1>4 DEF TryValidate
<1>5. ASSUME NEW t \in Threads, NewGuard(t, "guard_validation", "claim_validation") PROVE InHand'
  BY Zenon, <1>5 DEF NewGuard, Counted
<1>6. ASSUME NEW t \in Threads, ClaimValidation(t) PROVE InHand'
  BY Zenon, <1>6 DEF ClaimValidation
<1>7. ASSUME NEW t \in Threads, IsExecuted(t) PROVE InHand'
  BY <1>7, TxnIs DEF IsExecuted, is_executed
<1>8. ASSUME NEW t \in Threads, TryExecute(t) PROVE InHand'
  BY Zenon, <1>8 DEF TryExecute
<1>9. ASSUME NEW t \in Threads, NewGuard(t, "guard_execution", "claim_execution") PROVE InHand'
  BY Zenon, <1>9 DEF NewGuard, Counted
<1>10. ASSUME NEW t \in Threads, ClaimExecution(t) PROVE InHand'
  BY Zenon, <1>10 DEF ClaimExecution
<1>11. ASSUME NEW t \in Threads, TryIncarnate(t) PROVE InHand'
  <2> DEFINE s == txn_status[task[t]]
  <2>1. CASE task[t] < NumTxns /\ s.kind = "ReadyToExecute"
    <3>1. s \in Statuses
      BY Zenon, <2>1, TxnIs DEF StatusType
    <3>2. s.condvar \in Threads \cup {NoCondvar}
      BY Zenon, <3>1, StatusParts
    <3> HIDE DEF s
    <3> QED
      BY <2>1, <3>2, TxnIs, <1>11 DEF TryIncarnate, ExecutesOrNotifies, s
  <2>2. CASE ~(task[t] < NumTxns /\ s.kind = "ReadyToExecute")
    BY <2>2, <1>11 DEF TryIncarnate
  <2> QED
    BY Zenon, <2>1, <2>2
<1>12. ASSUME NEW t \in Threads, Notify(t) PROVE InHand'
  BY Zenon, <1>12 DEF Notify
<1>13. ASSUME NEW t \in Threads, DropGuard(t) PROVE InHand'
  BY Zenon, <1>13 DEF DropGuard
<1>14. ASSUME NEW t \in Threads, LoadDecreaseCnt(t) PROVE InHand'
  BY Zenon, <1>14 DEF LoadDecreaseCnt
<1>15. ASSUME NEW t \in Threads, CheckValidationIdx(t) PROVE InHand'
  BY Zenon, <1>15 DEF CheckValidationIdx, CheckLoad
<1>16. ASSUME NEW t \in Threads, CheckExecutionIdx(t) PROVE InHand'
  BY Zenon, <1>16 DEF CheckExecutionIdx, CheckLoad
<1>17. ASSUME NEW t \in Threads, CheckActiveTasks(t) PROVE InHand'
  BY Zenon, <1>17 DEF CheckActiveTasks, CheckLoad
<1>18. ASSUME NEW t \in Threads, CheckDecreaseCnt(t) PROVE InHand'
  BY Zenon, <1>18 DEF CheckDecreaseCnt, CheckLoad, SameCount
<1>19. ASSUME NEW t \in Threads, SetDone(t) PROVE InHand'
  BY Zenon, <1>19 DEF SetDone
<1>20. ASSUME NEW t \in Threads, Suspend(t) PROVE InHand'
  BY Zenon, <1>20 DEF Suspend
<1>21. ASSUME NEW t \in Threads, Wait(t) PROVE InHand'
  BY Zenon, <1>21 DEF Wait
<1>22. ASSUME NEW t \in Threads, SetExecuted(t) PROVE InHand'
  BY Zenon, <1>22 DEF SetExecuted
<1>23. ASSUME NEW t \in Threads, TakeDeps(t) PROVE InHand'
  BY <1>23 DEF TakeDeps, LeftAfterTake
<1>24. ASSUME NEW t \in Threads, Resume(t) PROVE InHand'
  BY <1>24 DEF Resume
<1>25. ASSUME NEW t \in Threads, DecreaseExecutionIdx(t) PROVE InHand'
  BY Zenon, <1>25 DEF DecreaseExecutionIdx, Least
<1>26. ASSUME NEW t \in Threads, Count(t, "count_execution", "load_validation") PROVE InHand'
  BY Zenon, <1>26 DEF Count
<1>27. ASSUME NEW t \in Threads, LoadValidation(t) PROVE InHand'
  BY Zenon, <1>27 DEF LoadValidation
<1>28. ASSUME NEW t \in Threads, DecreaseValidationIdx(t, "decrease_suffix", task[t], "count_suffix", "drop_guard") PROVE InHand'
  BY Zenon, <1>28 DEF DecreaseValidationIdx, Least
<1>29. ASSUME NEW t \in Threads, Count(t, "count_suffix", "drop_guard") PROVE InHand'
  BY Zenon, <1>29 DEF Count
<1>30. ASSUME NEW t \in Threads, TryAbort(t) PROVE InHand'
  BY <1>30 DEF TryAbort
<1>31. ASSUME NEW t \in Threads, SetAborted(t) PROVE InHand'
  BY Zenon, <1>31 DEF SetAborted, NextIncarnation
<1>32. ASSUME NEW t \in Threads, DecreaseValidationIdx(t, "decrease_aborted", task[t] + 1, "count_aborted", "load_execution") PROVE InHand'
  BY Zenon, <1>32 DEF DecreaseValidationIdx, Least
<1>33. ASSUME NEW t \in Threads, Count(t, "count_aborted", "load_execution") PROVE InHand'
  BY Zenon, <1>33 DEF Count
<1>34. ASSUME NEW t \in Threads, LoadExecution(t) PROVE InHand'
  BY Zenon, <1>34 DEF LoadExecution
<1>35. ASSUME NEW t \in Threads, NEW d \in Txns, MeetDependency(t, d) PROVE InHand'
  BY <1>35 DEF MeetDependency, is_executed
<1>36. ASSUME NEW t \in Threads, NEW b \in BOOLEAN, Finish(t, b) PROVE InHand'
  BY Zenon, <1>36 DEF Finish
<1>37. ASSUME NEW t \in Threads, Pass(t) PROVE InHand'
  BY Zenon, <1>37 DEF Pass
<1>38. ASSUME NEW t \in Threads, Fail(t) PROVE InHand'
  BY Zenon, <1>38 DEF Fail
<1>39. ASSUME NEW t \in Threads, EstimatesMarked(t) PROVE InHand'
  BY Zenon, <1>39 DEF EstimatesMarked
<1>40. CASE UNCHANGED vars
  BY <1>40 DEF vars
<1> QED
  BY Zenon, <1>1, <1>2, <1>3, <1>4, <1>5, <1>6, <1>7, <1>8, <1>9, <1>10, <1>11, <1>12, <1>13, <1>14,
     <1>15, <1>16, <1>17, <1>18, <1>19, <1>20, <1>21, <1>22, <1>23, <1>24, <1>25, <1>26, <1>27,
     <1>28, <1>29, <1>30, <1>31, <1>32, <1>33, <1>34, <1>35, <1>36, <1>37, <1>38, <1>39, <1>40
     DEF Next, SchedulerStep, TaskStep

(* One more guard, one less guard.                                         *)
LEMMA GuardsAdded ==
  ASSUME ThreadsAssumption, GuardsCounted, NEW t \in Threads,
         GuardedThreads' = GuardedThreads \cup {t}, t \notin GuardedThreads,
         num_active_tasks' = num_active_tasks + 1
  PROVE  GuardsCounted'
<1>1. IsFiniteSet(GuardedThreads)
  BY ThreadsAssumption, FS_Subset DEF GuardedThreads
<1>2. Cardinality(GuardedThreads') = Cardinality(GuardedThreads) + 1
  BY Zenon, <1>1, FS_AddElement
<1> QED
  BY <1>2 DEF GuardsCounted

LEMMA GuardsRemoved ==
  ASSUME ThreadsAssumption, GuardsCounted, NEW t \in Threads,
         GuardedThreads' = GuardedThreads \ {t}, t \in GuardedThreads,
         num_active_tasks' = num_active_tasks - 1
  PROVE  GuardsCounted'
<1>1. IsFiniteSet(GuardedThreads)
  BY ThreadsAssumption, FS_Subset DEF GuardedThreads
<1>2. Cardinality(GuardedThreads') = Cardinality(GuardedThreads) - 1
  BY Zenon, <1>1, FS_RemoveElement
<1> QED
  BY <1>2 DEF GuardsCounted

(* Only the making and the dropping of a guard change who holds one.       *)
LEMMA GuardsCountedStep ==
  ASSUME ThreadsAssumption, PcType, GuardsCounted, [Next]_vars
  PROVE  GuardsCounted'
<1> USE DEF Goto, At, shared, local, PcType
<1> DEFINE Same == num_active_tasks' = num_active_tasks /\ GuardedThreads' = GuardedThreads
<1>1. ASSUME NEW t \in Threads, NextTask(t) PROVE Same
  BY <1>1 DEF NextTask, GuardedThreads, Guarded
<1>2. ASSUME NEW t \in Threads, LoadValidationIdx(t) PROVE Same
  BY <1>2 DEF LoadValidationIdx, GuardedThreads, Guarded
<1>3. ASSUME NEW t \in Threads, LoadExecutionIdx(t) PROVE Same
  BY <1>3 DEF LoadExecutionIdx, GuardedThreads, Guarded
<1>4. ASSUME NEW t \in Threads, TryValidate(t) PROVE Same
  BY <1>4 DEF TryValidate, GuardedThreads, Guarded
<1>5. ASSUME NEW t \in Threads, NewGuard(t, "guard_validation", "claim_validation") PROVE GuardsCounted'
  <2>1. GuardedThreads' = GuardedThreads \cup {t} /\ t \notin GuardedThreads
    BY <1>5 DEF NewGuard, GuardedThreads, Guarded
  <2> QED
    BY Zenon, <1>5, <2>1, GuardsAdded DEF NewGuard, Counted
<1>6. ASSUME NEW t \in Threads, ClaimValidation(t) PROVE Same
  BY Zenon, <1>6 DEF ClaimValidation, GuardedThreads, Guarded
<1>7. ASSUME NEW t \in Threads, IsExecuted(t) PROVE Same
  BY <1>7 DEF IsExecuted, is_executed, GuardedThreads, Guarded
<1>8. ASSUME NEW t \in Threads, TryExecute(t) PROVE Same
  BY <1>8 DEF TryExecute, GuardedThreads, Guarded
<1>9. ASSUME NEW t \in Threads, NewGuard(t, "guard_execution", "claim_execution") PROVE GuardsCounted'
  <2>1. GuardedThreads' = GuardedThreads \cup {t} /\ t \notin GuardedThreads
    BY <1>9 DEF NewGuard, GuardedThreads, Guarded
  <2> QED
    BY <1>9, <2>1, GuardsAdded DEF NewGuard, Counted
<1>10. ASSUME NEW t \in Threads, ClaimExecution(t) PROVE Same
  BY Zenon, <1>10 DEF ClaimExecution, GuardedThreads, Guarded
<1>11. ASSUME NEW t \in Threads, TryIncarnate(t) PROVE Same
  BY <1>11 DEF TryIncarnate, ExecutesOrNotifies, GuardedThreads, Guarded
<1>12. ASSUME NEW t \in Threads, Notify(t) PROVE Same
  BY <1>12 DEF Notify, GuardedThreads, Guarded
<1>13. ASSUME NEW t \in Threads, DropGuard(t) PROVE GuardsCounted'
  <2>1. GuardedThreads' = GuardedThreads \ {t} /\ t \in GuardedThreads
    BY <1>13 DEF DropGuard, GuardedThreads, Guarded
  <2> QED
    BY Zenon, <1>13, <2>1, GuardsRemoved DEF DropGuard
<1>14. ASSUME NEW t \in Threads, LoadDecreaseCnt(t) PROVE Same
  BY <1>14 DEF LoadDecreaseCnt, GuardedThreads, Guarded
<1>15. ASSUME NEW t \in Threads, CheckValidationIdx(t) PROVE Same
  BY <1>15 DEF CheckValidationIdx, CheckLoad, GuardedThreads, Guarded
<1>16. ASSUME NEW t \in Threads, CheckExecutionIdx(t) PROVE Same
  BY <1>16 DEF CheckExecutionIdx, CheckLoad, GuardedThreads, Guarded
<1>17. ASSUME NEW t \in Threads, CheckActiveTasks(t) PROVE Same
  BY <1>17 DEF CheckActiveTasks, CheckLoad, GuardedThreads, Guarded
<1>18. ASSUME NEW t \in Threads, CheckDecreaseCnt(t) PROVE Same
  BY <1>18 DEF CheckDecreaseCnt, CheckLoad, SameCount, GuardedThreads, Guarded
<1>19. ASSUME NEW t \in Threads, SetDone(t) PROVE Same
  BY Zenon, <1>19 DEF SetDone, GuardedThreads, Guarded
<1>20. ASSUME NEW t \in Threads, Suspend(t) PROVE Same
  BY <1>20 DEF Suspend, GuardedThreads, Guarded
<1>21. ASSUME NEW t \in Threads, Wait(t) PROVE Same
  BY Zenon, <1>21 DEF Wait, GuardedThreads, Guarded
<1>22. ASSUME NEW t \in Threads, SetExecuted(t) PROVE Same
  BY Zenon, <1>22 DEF SetExecuted, GuardedThreads, Guarded
<1>23. ASSUME NEW t \in Threads, TakeDeps(t) PROVE Same
  BY Zenon, <1>23 DEF TakeDeps, LeftAfterTake, GuardedThreads, Guarded
<1>24. ASSUME NEW t \in Threads, Resume(t) PROVE Same
  BY <1>24 DEF Resume, GuardedThreads, Guarded
<1>25. ASSUME NEW t \in Threads, DecreaseExecutionIdx(t) PROVE Same
  BY <1>25 DEF DecreaseExecutionIdx, Least, GuardedThreads, Guarded
<1>26. ASSUME NEW t \in Threads, Count(t, "count_execution", "load_validation") PROVE Same
  BY <1>26 DEF Count, GuardedThreads, Guarded
<1>27. ASSUME NEW t \in Threads, LoadValidation(t) PROVE Same
  BY <1>27 DEF LoadValidation, GuardedThreads, Guarded
<1>28. ASSUME NEW t \in Threads, DecreaseValidationIdx(t, "decrease_suffix", task[t], "count_suffix", "drop_guard") PROVE Same
  BY <1>28 DEF DecreaseValidationIdx, Least, GuardedThreads, Guarded
<1>29. ASSUME NEW t \in Threads, Count(t, "count_suffix", "drop_guard") PROVE Same
  BY Zenon, <1>29 DEF Count, GuardedThreads, Guarded
<1>30. ASSUME NEW t \in Threads, TryAbort(t) PROVE Same
  BY Zenon, <1>30 DEF TryAbort, Abortable, GuardedThreads, Guarded
<1>31. ASSUME NEW t \in Threads, SetAborted(t) PROVE Same
  BY <1>31 DEF SetAborted, NextIncarnation, GuardedThreads, Guarded
<1>32. ASSUME NEW t \in Threads, DecreaseValidationIdx(t, "decrease_aborted", task[t] + 1, "count_aborted", "load_execution") PROVE Same
  BY <1>32 DEF DecreaseValidationIdx, Least, GuardedThreads, Guarded
<1>33. ASSUME NEW t \in Threads, Count(t, "count_aborted", "load_execution") PROVE Same
  BY <1>33 DEF Count, GuardedThreads, Guarded
<1>34. ASSUME NEW t \in Threads, LoadExecution(t) PROVE Same
  BY Zenon, <1>34 DEF LoadExecution, GuardedThreads, Guarded
<1>35. ASSUME NEW t \in Threads, NEW d \in Txns, MeetDependency(t, d) PROVE Same
  BY <1>35 DEF MeetDependency, is_executed, GuardedThreads, Guarded
<1>36. ASSUME NEW t \in Threads, NEW b \in BOOLEAN, Finish(t, b) PROVE Same
  BY <1>36 DEF Finish, GuardedThreads, Guarded
<1>37. ASSUME NEW t \in Threads, Pass(t) PROVE Same
  BY <1>37 DEF Pass, GuardedThreads, Guarded
<1>38. ASSUME NEW t \in Threads, Fail(t) PROVE Same
  BY <1>38 DEF Fail, GuardedThreads, Guarded
<1>39. ASSUME NEW t \in Threads, EstimatesMarked(t) PROVE Same
  BY <1>39 DEF EstimatesMarked, GuardedThreads, Guarded
<1>40. CASE UNCHANGED vars
  BY <1>40 DEF vars, GuardsCounted, GuardedThreads
<1>41. Same => GuardsCounted'
  BY DEF GuardsCounted
<1> HIDE DEF Same
<1> QED
  BY Zenon, <1>1, <1>2, <1>3, <1>4, <1>5, <1>6, <1>7, <1>8, <1>9, <1>10, <1>11, <1>12, <1>13, <1>14,
     <1>15, <1>16, <1>17, <1>18, <1>19, <1>20, <1>21, <1>22, <1>23, <1>24, <1>25, <1>26, <1>27,
     <1>28, <1>29, <1>30, <1>31, <1>32, <1>33, <1>34, <1>35, <1>36, <1>37, <1>38, <1>39, <1>40,
     <1>41
     DEF Next, SchedulerStep, TaskStep

=============================================================================
