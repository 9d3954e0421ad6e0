-------------------------- MODULE SchedulerTheorems -------------------------
(***************************************************************************)
(* The scheduler is correct for every number of transactions and threads:  *)
(* its assertions hold, a transaction is in the hands of one thread, no    *)
(* wakeup is lost, and it is done only when all is over.                   *)
(***************************************************************************)
EXTENDS SchedulerWakeups

(* The time for a step that names no prover.                               *)
USE SMTT(45), ZenonT(20)

(***************************************************************************)
(* Ready transactions.  The execution index does not pass one unseen.      *)
(***************************************************************************)
Bringing == {"resume", "decrease_execution_idx", "try_incarnate", "decrease_aborted",
             "count_aborted", "load_execution"}
Leaves(t) == \A u \in Threads \ {t} : pc'[u] = pc[u] /\ task'[u] = task[u] /\ index'[u] = index[u]
NoneReadied == \A i \in Txns : txn_status'[i].kind = "ReadyToExecute" => txn_status[i].kind = "ReadyToExecute"

LEMMA DueElsewhere ==
  ASSUME NEW t \in Threads, Leaves(t), NEW i \in Txns, Due(i)
  PROVE  \/ Due(i)' \/ execution_idx <= i \/ Brings(t, i)
<1>1. ASSUME NEW u \in Threads, u # t, Brings(u, i) PROVE Brings(u, i)'
  BY Zenon, <1>1 DEF Leaves, Brings, At
<1> QED
  BY Zenon, <1>1 DEF Due

LEMMA DueKept ==
  ASSUME NEW t \in Threads, Leaves(t), pc[t] \notin Bringing, UNCHANGED execution_idx, NoneReadied, ReadyIsDue
  PROVE  ReadyIsDue'
<1>1. ASSUME NEW i \in Txns, Due(i) PROVE Due(i)'
  <2>1. ~Brings(t, i)
    BY Zenon DEF Bringing, Brings, At
  <2> QED
    BY Zenon, <1>1, <2>1, DueElsewhere DEF Due
<1> QED
  BY Zenon, <1>1 DEF ReadyIsDue, NoneReadied

LEMMA ReadyIsDueStep ==
  ASSUME NumTxnsAssumption, ThreadsAssumption, PcType, StatusType, LocalType, ListType, OtherType, InHand,
         ThreadKnows, Lists, ReadyIsDue, [Next]_vars
  PROVE  ReadyIsDue'
<1>1. ASSUME NEW t \in Threads, Aside(t) PROVE ReadyIsDue'
  BY Zenon, <1>1, DueKept DEF Aside, Special, Bringing, Leaves, NoneReadied
<1>2. ASSUME NEW t \in Threads, ClaimExecution(t) PROVE  ReadyIsDue'
  <2>1. /\ Leaves(t) /\ pc'[t] = "try_incarnate" /\ task'[t] = execution_idx /\ execution_idx' = execution_idx + 1
        /\ txn_status' = txn_status /\ ~\E i \in Txns : Brings(t, i)
    BY Zenon, <1>2 DEF ClaimExecution, Leaves, Brings, Goto, At, shared, local, PcType, StatusType,
       LocalType, ListType, InHand, Tasked, Guarded
  <2>2. ASSUME NEW i \in Txns, Due(i) PROVE Due(i)'
    <3>1. i \in Nat /\ execution_idx \in Nat
      BY NumTxnsAssumption DEF Txns, OtherType
    <3>2. CASE execution_idx = i
      BY Zenon, <2>1, <3>2 DEF Due, Brings, At
    <3>3. CASE execution_idx <= i /\ execution_idx # i
      BY <2>1, <3>1, <3>3 DEF Due
    <3> QED
      BY Zenon, <2>1, <2>2, <3>2, <3>3, DueElsewhere
  <2> QED
    BY Zenon, <2>1, <2>2 DEF ReadyIsDue
<1>3. ASSUME NEW t \in Threads, TryIncarnate(t) PROVE  ReadyIsDue'
  <2>1. Leaves(t) /\ UNCHANGED execution_idx /\ NoneReadied
    <3>1. Leaves(t) /\ UNCHANGED execution_idx
      BY Zenon, <1>3 DEF TryIncarnate, Leaves, Goto, At, shared, local, PcType, StatusType, LocalType,
         ListType, InHand, Tasked, Guarded
    <3>2. \A i \in Txns : txn_status'[i] = txn_status[i] \/ txn_status'[i].kind = "Executing"
      BY <1>3, Fields DEF TryIncarnate, StatusType
    <3> QED
      BY Zenon, <3>1, <3>2 DEF NoneReadied
  <2>2. ASSUME NEW i \in Txns, Brings(t, i) PROVE txn_status'[i].kind # "ReadyToExecute"
    <3>1. task[t] = i /\ i < NumTxns
      BY <1>3, <2>2, NumTxnsAssumption DEF TryIncarnate, Brings, At, Txns
    <3>2. CASE txn_status[i].kind = "ReadyToExecute"
      BY <1>3, <3>1, <3>2, Fields DEF TryIncarnate, StatusType
    <3>3. CASE txn_status[i].kind # "ReadyToExecute"
      BY Zenon, <1>3, <3>1, <3>3 DEF TryIncarnate
    <3> QED
      BY Zenon, <3>2, <3>3
  <2> QED
    BY Zenon, <2>1, <2>2, DueElsewhere DEF ReadyIsDue, NoneReadied, Due
<1>4. ASSUME NEW t \in Threads, Notify(t) PROVE  ReadyIsDue'
  <2>1. Leaves(t) /\ UNCHANGED execution_idx /\ pc[t] \notin Bringing
    BY Zenon, <1>4 DEF Notify, Leaves, Bringing, Goto, At, shared, local, PcType, StatusType,
       LocalType, ListType, InHand, Tasked, Guarded
  <2>2. NoneReadied
    BY Zenon, <1>4, Fields DEF Notify, shared, StatusType, NoneReadied
  <2> QED
    BY Zenon, <2>1, <2>2, DueKept
<1>5. ASSUME NEW t \in Threads, Suspend(t) PROVE  ReadyIsDue'
  <2>1. Leaves(t) /\ UNCHANGED execution_idx /\ pc[t] \notin Bringing
    BY Zenon, <1>5 DEF Suspend, Leaves, Bringing, Goto, At, shared, local, PcType, StatusType,
       LocalType, ListType, InHand, Tasked, Guarded
  <2>2. NoneReadied
    BY <1>5, Fields DEF Suspend, shared, StatusType, NoneReadied
  <2> QED
    BY Zenon, <2>1, <2>2, DueKept
<1>6. ASSUME NEW t \in Threads, Wait(t) PROVE  ReadyIsDue'
  <2>1. Leaves(t) /\ UNCHANGED execution_idx /\ pc[t] \notin Bringing
    BY Zenon, <1>6 DEF Wait, Leaves, Bringing, Goto, At, shared, local, PcType, StatusType, LocalType,
       ListType, InHand, Tasked, Guarded
  <2>2. NoneReadied
    BY Zenon, <1>6, Fields DEF Wait, shared, StatusType, NoneReadied
  <2> QED
    BY Zenon, <2>1, <2>2, DueKept
<1>7. ASSUME NEW t \in Threads, SetExecuted(t) PROVE  ReadyIsDue'
  <2>1. Leaves(t) /\ UNCHANGED execution_idx /\ pc[t] \notin Bringing
    BY Zenon, <1>7 DEF SetExecuted, Leaves, Bringing, Goto, At, shared, local, PcType, StatusType,
       LocalType, ListType, InHand, Tasked, Guarded
  <2>2. NoneReadied
    BY <1>7, Fields DEF SetExecuted, shared, StatusType, NoneReadied
  <2> QED
    BY Zenon, <2>1, <2>2, DueKept
<1>8. ASSUME NEW t \in Threads, TakeDeps(t) PROVE  ReadyIsDue'
  <2>1. Leaves(t) /\ UNCHANGED execution_idx /\ pc[t] \notin Bringing
    BY Zenon, <1>8 DEF TakeDeps, LeftAfterTake, Leaves, Bringing, Goto, At, shared, local, PcType,
       StatusType, LocalType, ListType, InHand, Tasked, Guarded
  <2>2. NoneReadied
    BY Zenon, <1>8, Fields DEF TakeDeps, LeftAfterTake, shared, StatusType, NoneReadied
  <2> QED
    BY Zenon, <2>1, <2>2, DueKept
<1>9. ASSUME NEW t \in Threads, Resume(t) PROVE  ReadyIsDue'
  <2>1. PICK c \in deps[t] :
          /\ txn_status' = [txn_status EXCEPT ![c] =
               ReadyToExecute(txn_status[c].incarnation, txn_status[c].condvar)]
          /\ Goto(t, IF deps[t] = {c} THEN "decrease_execution_idx" ELSE "resume")
    BY Zenon, <1>9 DEF Resume
  <2>2. c \in Txns /\ \A i \in Txns \ {c} : txn_status'[i] = txn_status[i]
    BY Zenon, <2>1 DEF ListType, StatusType
  <2>3. /\ Leaves(t) /\ UNCHANGED <<execution_idx, index>> /\ pc[t] = "resume"
        /\ pc'[t] \in {"resume", "decrease_execution_idx"}
    BY Zenon, <1>9, <2>1 DEF Resume, Leaves, Goto, At, PcType
  <2>4. Brings(t, c)'
    BY Zenon, <2>1, <2>3 DEF Brings, Lists
  <2>5. ASSUME NEW i \in Txns, Due(i) PROVE Due(i)'
    BY Zenon, <2>3, <2>5, DueElsewhere DEF Due, Brings, At
  <2> QED
    BY Zenon, <2>2, <2>4, <2>5 DEF ReadyIsDue, Due
<1>10. ASSUME NEW t \in Threads, DecreaseExecutionIdx(t) PROVE  ReadyIsDue'
  <2>1. /\ Leaves(t) /\ execution_idx' = Least(execution_idx, index[t]) /\ txn_status' = txn_status
        /\ pc[t] = "decrease_execution_idx" /\ execution_idx \in Int /\ index[t] \in Int
    BY <1>10, NumTxnsAssumption DEF DecreaseExecutionIdx, Leaves, OtherType, Txns, NoTxn, Goto,
       At, shared, local, PcType, StatusType, LocalType, ListType, InHand, Tasked, Guarded
  <2>2. ASSUME NEW i \in Txns, Due(i) PROVE Due(i)'
    <3>1. i \in Int /\ (Brings(t, i) => index[t] <= i)
      BY <2>1, NumTxnsAssumption DEF Txns, Brings, At
    <3>2. execution_idx <= i \/ index[t] <= i => execution_idx' <= i
      BY <2>1, <3>1 DEF Least
    <3> QED
      BY Zenon, <2>1, <2>2, <3>1, <3>2, DueElsewhere DEF Due
  <2> QED
    BY Zenon, <2>1, <2>2 DEF ReadyIsDue
<1>11. ASSUME NEW t \in Threads, TryAbort(t) PROVE  ReadyIsDue'
  <2>1. Leaves(t) /\ UNCHANGED execution_idx /\ pc[t] \notin Bringing
    BY Zenon, <1>11 DEF TryAbort, Abortable, Leaves, Bringing, Goto, At, shared, local, PcType,
       StatusType, LocalType, ListType, InHand, Tasked, Guarded
  <2>2. NoneReadied
    BY <1>11, Fields DEF TryAbort, Abortable, shared, StatusType, NoneReadied
  <2> QED
    BY Zenon, <2>1, <2>2, DueKept
<1>12. ASSUME NEW t \in Threads, SetAborted(t) PROVE  ReadyIsDue'
  <2>1. /\ Leaves(t) /\ UNCHANGED <<execution_idx, task>> /\ pc[t] = "set_aborted" /\ pc'[t] = "decrease_aborted"
        /\ \A i \in Txns \ {task[t]} : txn_status'[i] = txn_status[i]
    BY Zenon, <1>12 DEF SetAborted, Leaves, Goto, At, shared, local, PcType, StatusType, LocalType,
       ListType, InHand, Tasked, Guarded
  <2>2. Brings(t, task[t])'
    BY Zenon, <2>1 DEF Brings
  <2>3. ASSUME NEW i \in Txns, Due(i) PROVE Due(i)'
    BY Zenon, <2>1, <2>3, DueElsewhere DEF Due, Brings, At
  <2> QED
    BY Zenon, <2>1, <2>2, <2>3 DEF ReadyIsDue, Due
<1>13. ASSUME NEW t \in Threads, DecreaseValidationIdx(t, "decrease_aborted", task[t] + 1, "count_aborted", "load_execution")
      PROVE  ReadyIsDue'
  <2>1. /\ Leaves(t) /\ UNCHANGED <<execution_idx, task, txn_status>>
        /\ pc[t] \in {"decrease_aborted", "count_aborted"} /\ pc'[t] \in {"count_aborted", "load_execution"}
    BY Zenon, <1>13 DEF DecreaseValidationIdx, Leaves, Goto, At, shared, local, PcType, StatusType,
       LocalType, ListType, InHand, Tasked, Guarded
  <2>2. ASSUME NEW i \in Txns, Due(i) PROVE Due(i)'
    BY Zenon, <2>1, <2>2, DueElsewhere DEF Due, Brings, At
  <2> QED
    BY Zenon, <2>1, <2>2 DEF ReadyIsDue
<1>14. ASSUME NEW t \in Threads, Count(t, "count_aborted", "load_execution")
      PROVE  ReadyIsDue'
  <2>1. /\ Leaves(t) /\ UNCHANGED <<execution_idx, task, txn_status>>
        /\ pc[t] \in {"decrease_aborted", "count_aborted"} /\ pc'[t] \in {"count_aborted", "load_execution"}
    BY Zenon, <1>14 DEF Count, Leaves, Goto, At, shared, local, PcType, StatusType, LocalType,
       ListType, InHand, Tasked, Guarded
  <2>2. ASSUME NEW i \in Txns, Due(i) PROVE Due(i)'
    BY Zenon, <2>1, <2>2, DueElsewhere DEF Due, Brings, At
  <2> QED
    BY Zenon, <2>1, <2>2 DEF ReadyIsDue
<1>15. ASSUME NEW t \in Threads, LoadExecution(t) PROVE  ReadyIsDue'
  <2>1. /\ Leaves(t) /\ UNCHANGED <<execution_idx, task, txn_status>> /\ pc[t] = "load_execution"
        /\ pc'[t] = IF execution_idx > task[t] THEN "try_incarnate" ELSE "drop_guard"
    BY Zenon, <1>15 DEF LoadExecution, Leaves, Goto, At, shared, local, PcType, StatusType, LocalType,
       ListType, InHand, Tasked, Guarded
  <2>2. ASSUME NEW i \in Txns, Due(i) PROVE Due(i)'
    <3>1. execution_idx \in Int /\ i \in Int
      BY NumTxnsAssumption DEF OtherType, Txns
    <3> QED
      BY <2>1, <2>2, <3>1, DueElsewhere DEF Due, Brings, At
  <2> QED
    BY Zenon, <2>1, <2>2 DEF ReadyIsDue
<1>16. ASSUME NEW t \in Threads, NEW d \in Txns, MeetDependency(t, d) PROVE  ReadyIsDue'
  <2>1. Leaves(t) /\ UNCHANGED execution_idx /\ pc[t] \notin Bringing
    BY Zenon, <1>16 DEF MeetDependency, is_executed, Leaves, Bringing, Goto, At, shared, local,
       PcType, StatusType, LocalType, ListType, InHand, Tasked, Guarded
  <2>2. NoneReadied
    BY Zenon, <1>16, Fields DEF MeetDependency, is_executed, shared, StatusType, NoneReadied
  <2> QED
    BY Zenon, <2>1, <2>2, DueKept
<1>17. ASSUME NEW t \in Threads, NEW b \in BOOLEAN, Finish(t, b) PROVE  ReadyIsDue'
  <2>1. Leaves(t) /\ UNCHANGED execution_idx /\ pc[t] \notin Bringing
    BY Zenon, <1>17 DEF Finish, Leaves, Bringing, Goto, At, shared, local, PcType, StatusType,
       LocalType, ListType, InHand, Tasked, Guarded
  <2>2. NoneReadied
    BY Zenon, <1>17, Fields DEF Finish, shared, StatusType, NoneReadied
  <2> QED
    BY Zenon, <2>1, <2>2, DueKept
<1>18. ASSUME NEW t \in Threads, EstimatesMarked(t) PROVE  ReadyIsDue'
  <2>1. Leaves(t) /\ UNCHANGED execution_idx /\ pc[t] \notin Bringing
    BY Zenon, <1>18 DEF EstimatesMarked, Leaves, Bringing, Goto, At, shared, local, PcType,
       StatusType, LocalType, ListType, InHand, Tasked, Guarded
  <2>2. NoneReadied
    BY Zenon, <1>18, Fields DEF EstimatesMarked, shared, StatusType, NoneReadied
  <2> QED
    BY Zenon, <2>1, <2>2, DueKept
<1>19. CASE UNCHANGED vars
  BY Zenon, <1>19 DEF vars, shared, local, ReadyIsDue, Due, Brings, At
<1> QED
  BY Zenon, <1>1, <1>2, <1>3, <1>4, <1>5, <1>6, <1>7, <1>8, <1>9, <1>10, <1>11, <1>12, <1>13, <1>14,
     <1>15, <1>16, <1>17, <1>18, <1>19, StepCases

(* What is over stays over.                                                *)
LEMMA AllOverStep ==
  ASSUME NumTxnsAssumption, ThreadsAssumption, PcType, StatusType, LocalType, ListType, OtherType, InHand,
         AllOver,
         [Next]_vars
  PROVE  AllOver'
<1>1. ASSUME NEW t \in Threads, NextTask(t) PROVE  AllOver'
  BY <1>1, Fields DEF NextTask, Goto, At, shared, local, AllOver, Quiet, Unguarded, Guarded,
     PcType, StatusType, LocalType, OtherType
<1>2. ASSUME NEW t \in Threads, LoadValidationIdx(t) PROVE  AllOver'
  BY <1>2, Fields DEF LoadValidationIdx, Goto, At, shared, local, AllOver, Quiet, Unguarded,
     Guarded, PcType, StatusType, LocalType, OtherType
<1>3. ASSUME NEW t \in Threads, LoadExecutionIdx(t) PROVE  AllOver'
  BY <1>3, Fields DEF LoadExecutionIdx, Goto, At, shared, local, AllOver, Quiet, Unguarded,
     Guarded, PcType, StatusType, LocalType, OtherType
<1>4. ASSUME NEW t \in Threads, TryValidate(t) PROVE  AllOver'
  BY <1>4, Fields DEF TryValidate, Goto, At, shared, local, AllOver, Quiet, Unguarded, Guarded,
     PcType, StatusType, LocalType, OtherType
<1>5. ASSUME NEW t \in Threads, NewGuard(t, "guard_validation", "claim_validation")
      PROVE  AllOver'
  BY <1>5, Fields DEF NewGuard, Counted, Goto, At, shared, local, AllOver, Quiet, Unguarded,
     Guarded, PcType, StatusType, LocalType, OtherType
<1>6. ASSUME NEW t \in Threads, ClaimValidation(t) PROVE  AllOver'
  BY <1>6, Fields DEF ClaimValidation, Goto, At, shared, local, AllOver, Quiet, Unguarded,
     Guarded, PcType, StatusType, LocalType, OtherType
<1>7. ASSUME NEW t \in Threads, IsExecuted(t) PROVE  AllOver'
  BY <1>7, Fields DEF IsExecuted, is_executed, Goto, At, shared, local, AllOver, Quiet,
     Unguarded, Guarded, PcType, StatusType, LocalType, OtherType
<1>8. ASSUME NEW t \in Threads, TryExecute(t) PROVE  AllOver'
  BY <1>8, Fields DEF TryExecute, Goto, At, shared, local, AllOver, Quiet, Unguarded, Guarded,
     PcType, StatusType, LocalType, OtherType
<1>9. ASSUME NEW t \in Threads, NewGuard(t, "guard_execution", "claim_execution")
      PROVE  AllOver'
  BY <1>9, Fields DEF NewGuard, Counted, Goto, At, shared, local, AllOver, Quiet, Unguarded,
     Guarded, PcType, StatusType, LocalType, OtherType
<1>10. ASSUME NEW t \in Threads, ClaimExecution(t) PROVE  AllOver'
  BY <1>10, Fields DEF ClaimExecution, Goto, At, shared, local, AllOver, Quiet, Unguarded,
     Guarded, PcType, StatusType, LocalType, OtherType
<1>11. ASSUME NEW t \in Threads, TryIncarnate(t) PROVE  AllOver'
  BY <1>11, Fields DEF TryIncarnate, ExecutesOrNotifies, Goto, At, shared, local, AllOver,
     Quiet, Unguarded, Guarded, PcType, StatusType, LocalType, OtherType
<1>12. ASSUME NEW t \in Threads, Notify(t) PROVE  AllOver'
  BY Zenon, <1>12, Fields DEF Notify, Goto, At, shared, local, AllOver, Quiet, Unguarded, Guarded,
     PcType, StatusType, LocalType, OtherType
<1>13. ASSUME NEW t \in Threads, DropGuard(t) PROVE  AllOver'
  BY <1>13, Fields DEF DropGuard, Goto, At, shared, local, AllOver, Quiet, Unguarded, Guarded,
     PcType, StatusType, LocalType, OtherType
<1>14. ASSUME NEW t \in Threads, LoadDecreaseCnt(t) PROVE  AllOver'
  BY <1>14, Fields DEF LoadDecreaseCnt, Goto, At, shared, local, AllOver, Quiet, Unguarded,
     Guarded, PcType, StatusType, LocalType, OtherType
<1>15. ASSUME NEW t \in Threads, CheckValidationIdx(t) PROVE  AllOver'
  BY <1>15, Fields DEF CheckValidationIdx, CheckLoad, Goto, At, shared, local, AllOver, Quiet,
     Unguarded, Guarded, PcType, StatusType, LocalType, OtherType
<1>16. ASSUME NEW t \in Threads, CheckExecutionIdx(t) PROVE  AllOver'
  BY <1>16, Fields DEF CheckExecutionIdx, CheckLoad, Goto, At, shared, local, AllOver, Quiet,
     Unguarded, Guarded, PcType, StatusType, LocalType, OtherType
<1>17. ASSUME NEW t \in Threads, CheckActiveTasks(t) PROVE  AllOver'
  BY <1>17, Fields DEF CheckActiveTasks, CheckLoad, Goto, At, shared, local, AllOver, Quiet,
     Unguarded, Guarded, PcType, StatusType, LocalType, OtherType
<1>18. ASSUME NEW t \in Threads, CheckDecreaseCnt(t) PROVE  AllOver'
  BY <1>18, Fields DEF CheckDecreaseCnt, CheckLoad, SameCount, Goto, At, shared, local,
     AllOver, Quiet, Unguarded, Guarded, PcType, StatusType, LocalType, OtherType
<1>19. ASSUME NEW t \in Threads, SetDone(t) PROVE  AllOver'
  BY <1>19, Fields DEF SetDone, Goto, At, shared, local, AllOver, Quiet, Unguarded, Guarded,
     PcType, StatusType, LocalType, OtherType
<1>20. ASSUME NEW t \in Threads, Suspend(t) PROVE  AllOver'
  BY Zenon, <1>20, Fields DEF Suspend, Goto, At, shared, local, AllOver, Quiet, Unguarded, Guarded,
     PcType, StatusType, LocalType, OtherType
<1>21. ASSUME NEW t \in Threads, Wait(t) PROVE  AllOver'
  BY Zenon, <1>21, Fields DEF Wait, Goto, At, shared, local, AllOver, Quiet, Unguarded, Guarded,
     PcType, StatusType, LocalType, OtherType
<1>22. ASSUME NEW t \in Threads, SetExecuted(t) PROVE  AllOver'
  BY Zenon, <1>22, Fields DEF SetExecuted, Goto, At, shared, local, AllOver, Quiet, Unguarded,
     Guarded, PcType, StatusType, LocalType, OtherType
<1>23. ASSUME NEW t \in Threads, TakeDeps(t) PROVE  AllOver'
  BY Zenon, <1>23, Fields DEF TakeDeps, LeftAfterTake, Goto, At, shared, local, AllOver, Quiet,
     Unguarded, Guarded, PcType, StatusType, LocalType, OtherType
<1>24. ASSUME NEW t \in Threads, Resume(t) PROVE  AllOver'
  BY Zenon, <1>24, Fields DEF Resume, Goto, At, shared, local, AllOver, Quiet, Unguarded, Guarded,
     PcType, StatusType, LocalType, OtherType
<1>25. ASSUME NEW t \in Threads, DecreaseExecutionIdx(t) PROVE  AllOver'
  BY Zenon, <1>25, Fields DEF DecreaseExecutionIdx, Least, Goto, At, shared, local, AllOver, Quiet,
     Unguarded, Guarded, PcType, StatusType, LocalType, OtherType
<1>26. ASSUME NEW t \in Threads, Count(t, "count_execution", "load_validation")
      PROVE  AllOver'
  BY Zenon, <1>26, Fields DEF Count, Goto, At, shared, local, AllOver, Quiet, Unguarded, Guarded,
     PcType, StatusType, LocalType, OtherType
<1>27. ASSUME NEW t \in Threads, LoadValidation(t) PROVE  AllOver'
  BY Zenon, <1>27, Fields DEF LoadValidation, Goto, At, shared, local, AllOver, Quiet, Unguarded,
     Guarded, PcType, StatusType, LocalType, OtherType
<1>28. ASSUME NEW t \in Threads, DecreaseValidationIdx(t, "decrease_suffix", task[t], "count_suffix", "drop_guard")
      PROVE  AllOver'
  BY Zenon, <1>28, Fields DEF DecreaseValidationIdx, Least, Goto, At, shared, local, AllOver, Quiet,
     Unguarded, Guarded, PcType, StatusType, LocalType, OtherType
<1>29. ASSUME NEW t \in Threads, Count(t, "count_suffix", "drop_guard")
      PROVE  AllOver'
  BY Zenon, <1>29, Fields DEF Count, Goto, At, shared, local, AllOver, Quiet, Unguarded, Guarded,
     PcType, StatusType, LocalType, OtherType
<1>30. ASSUME NEW t \in Threads, TryAbort(t) PROVE  AllOver'
  BY Zenon, <1>30, Fields DEF TryAbort, Abortable, Goto, At, shared, local, AllOver, Quiet, Unguarded,
     Guarded, PcType, StatusType, LocalType, OtherType
<1>31. ASSUME NEW t \in Threads, SetAborted(t) PROVE  AllOver'
  BY Zenon, <1>31, Fields DEF SetAborted, NextIncarnation, Goto, At, shared, local, AllOver, Quiet,
     Unguarded, Guarded, PcType, StatusType, LocalType, OtherType
<1>32. ASSUME NEW t \in Threads, DecreaseValidationIdx(t, "decrease_aborted", task[t] + 1, "count_aborted", "load_execution")
      PROVE  AllOver'
  BY Zenon, <1>32, Fields DEF DecreaseValidationIdx, Least, Goto, At, shared, local, AllOver, Quiet,
     Unguarded, Guarded, PcType, StatusType, LocalType, OtherType
<1>33. ASSUME NEW t \in Threads, Count(t, "count_aborted", "load_execution")
      PROVE  AllOver'
  BY Zenon, <1>33, Fields DEF Count, Goto, At, shared, local, AllOver, Quiet, Unguarded, Guarded,
     PcType, StatusType, LocalType, OtherType
<1>34. ASSUME NEW t \in Threads, LoadExecution(t) PROVE  AllOver'
  BY Zenon, <1>34, Fields DEF LoadExecution, Goto, At, shared, local, AllOver, Quiet, Unguarded,
     Guarded, PcType, StatusType, LocalType, OtherType
<1>35. ASSUME NEW t \in Threads, NEW d \in Txns, MeetDependency(t, d) PROVE  AllOver'
  BY Zenon, <1>35, Fields DEF MeetDependency, is_executed, Goto, At, shared, local, AllOver, Quiet,
     Unguarded, Guarded, PcType, StatusType, LocalType, OtherType
<1>36. ASSUME NEW t \in Threads, NEW b \in BOOLEAN, Finish(t, b) PROVE  AllOver'
  BY Zenon, <1>36, Fields DEF Finish, Goto, At, shared, local, AllOver, Quiet, Unguarded, Guarded,
     PcType, StatusType, LocalType, OtherType
<1>37. ASSUME NEW t \in Threads, Pass(t) PROVE  AllOver'
  BY Zenon, <1>37, Fields DEF Pass, Goto, At, shared, local, AllOver, Quiet, Unguarded, Guarded,
     PcType, StatusType, LocalType, OtherType
<1>38. ASSUME NEW t \in Threads, Fail(t) PROVE  AllOver'
  BY Zenon, <1>38, Fields DEF Fail, Goto, At, shared, local, AllOver, Quiet, Unguarded, Guarded,
     PcType, StatusType, LocalType, OtherType
<1>39. ASSUME NEW t \in Threads, EstimatesMarked(t) PROVE  AllOver'
  BY Zenon, <1>39, Fields DEF EstimatesMarked, Goto, At, shared, local, AllOver, Quiet, Unguarded,
     Guarded, PcType, StatusType, LocalType, OtherType
<1>40. CASE UNCHANGED vars
  BY Zenon, <1>40 DEF vars, shared, local, AllOver, Quiet, Unguarded, Guarded, PcType, StatusType,
     LocalType, OtherType
<1> QED
  BY Zenon, <1>1, <1>2, <1>3, <1>4, <1>5, <1>6, <1>7, <1>8, <1>9, <1>10, <1>11, <1>12, <1>13, <1>14,
     <1>15, <1>16, <1>17, <1>18, <1>19, <1>20, <1>21, <1>22, <1>23, <1>24, <1>25, <1>26, <1>27,
     <1>28, <1>29, <1>30, <1>31, <1>32, <1>33, <1>34, <1>35, <1>36, <1>37, <1>38, <1>39, <1>40
  DEF Next, SchedulerStep, TaskStep

(***************************************************************************)
(* check_done.  What it has seen holds until a decrease is counted.        *)
(***************************************************************************)
Checking == {"check_execution_idx", "check_active_tasks", "check_decrease_cnt", "set_done"}
Counting == {"count_execution", "count_suffix", "count_aborted"}

Rises(t) ==
  /\ UNCHANGED <<current, done_marker>>
  /\ \A u \in Threads \ {t} : pc'[u] = pc[u]
  /\ pc'[t] \notin Checking /\ pc[t] \notin Counting
  /\ validation_idx <= validation_idx' \/ pc'[t] \in Counting
  /\ execution_idx <= execution_idx' \/ pc'[t] \in Counting

Counts(t) ==
  /\ current' = {} /\ UNCHANGED done_marker
  /\ \A u \in Threads \ {t} : pc'[u] = pc[u]
  /\ pc'[t] \notin Checking

Checks(t) ==
  \/ LoadDecreaseCnt(t) \/ CheckValidationIdx(t) \/ CheckExecutionIdx(t)
  \/ CheckActiveTasks(t) \/ CheckDecreaseCnt(t) \/ SetDone(t)

LEMMA CheckSteps ==
  ASSUME NumTxnsAssumption, ThreadsAssumption, PcType, StatusType, LocalType, ListType, OtherType, InHand, [Next]_vars
  PROVE  \/ UNCHANGED vars
         \/ \E t \in Threads : Rises(t) \/ Counts(t) \/ Checks(t)
<1>1. ASSUME NEW t \in Threads, NextTask(t) PROVE  Rises(t)
  BY <1>1 DEF NextTask, Goto, At, shared, local, PcType, LocalType, OtherType, Checking,
     Counting, Rises
<1>2. ASSUME NEW t \in Threads, LoadValidationIdx(t) PROVE  Rises(t)
  BY <1>2 DEF LoadValidationIdx, Goto, At, shared, local, PcType, LocalType, OtherType,
     Checking, Counting, Rises
<1>3. ASSUME NEW t \in Threads, LoadExecutionIdx(t) PROVE  Rises(t)
  BY <1>3 DEF LoadExecutionIdx, Goto, At, shared, local, PcType, LocalType, OtherType,
     Checking, Counting, Rises
<1>4. ASSUME NEW t \in Threads, TryValidate(t) PROVE  Rises(t)
  BY <1>4 DEF TryValidate, Goto, At, shared, local, PcType, LocalType, OtherType, Checking,
     Counting, Rises
<1>5. ASSUME NEW t \in Threads, NewGuard(t, "guard_validation", "claim_validation")
      PROVE  Rises(t)
  BY <1>5 DEF NewGuard, Counted, Goto, At, shared, local, PcType, LocalType, OtherType,
     Checking, Counting, Rises
<1>6. ASSUME NEW t \in Threads, ClaimValidation(t) PROVE  Rises(t)
  BY <1>6 DEF ClaimValidation, Goto, At, shared, local, PcType, LocalType, OtherType, Checking,
     Counting, Rises
<1>7. ASSUME NEW t \in Threads, IsExecuted(t) PROVE  Rises(t)
  BY <1>7 DEF IsExecuted, is_executed, Goto, At, shared, local, PcType, LocalType, OtherType,
     Checking, Counting, Rises
<1>8. ASSUME NEW t \in Threads, TryExecute(t) PROVE  Rises(t)
  BY <1>8 DEF TryExecute, Goto, At, shared, local, PcType, LocalType, OtherType, Checking,
     Counting, Rises
<1>9. ASSUME NEW t \in Threads, NewGuard(t, "guard_execution", "claim_execution")
      PROVE  Rises(t)
  BY <1>9 DEF NewGuard, Counted, Goto, At, shared, local, PcType, LocalType, OtherType,
     Checking, Counting, Rises
<1>10. ASSUME NEW t \in Threads, ClaimExecution(t) PROVE  Rises(t)
  BY <1>10 DEF ClaimExecution, Goto, At, shared, local, PcType, LocalType, OtherType, Checking,
     Counting, Rises
<1>11. ASSUME NEW t \in Threads, TryIncarnate(t) PROVE  Rises(t)
  BY <1>11 DEF TryIncarnate, ExecutesOrNotifies, Goto, At, shared, local, PcType, LocalType,
     OtherType, Checking, Counting, Rises
<1>12. ASSUME NEW t \in Threads, Notify(t) PROVE  Rises(t)
  BY <1>12 DEF Notify, Goto, At, shared, local, PcType, LocalType, OtherType, Checking,
     Counting, Rises
<1>13. ASSUME NEW t \in Threads, DropGuard(t) PROVE  Rises(t)
  BY <1>13 DEF DropGuard, Goto, At, shared, local, PcType, LocalType, OtherType, Checking,
     Counting, Rises
<1>14. ASSUME NEW t \in Threads, Suspend(t) PROVE  Rises(t)
  BY <1>14 DEF Suspend, Goto, At, shared, local, PcType, LocalType, OtherType, Checking,
     Counting, Rises
<1>15. ASSUME NEW t \in Threads, Wait(t) PROVE  Rises(t)
  BY <1>15 DEF Wait, Goto, At, shared, local, PcType, LocalType, OtherType, Checking, Counting,
     Rises
<1>16. ASSUME NEW t \in Threads, SetExecuted(t) PROVE  Rises(t)
  BY <1>16 DEF SetExecuted, Goto, At, shared, local, PcType, LocalType, OtherType, Checking,
     Counting, Rises
<1>17. ASSUME NEW t \in Threads, TakeDeps(t) PROVE  Rises(t)
  BY <1>17 DEF TakeDeps, LeftAfterTake, Goto, At, shared, local, PcType, LocalType, OtherType,
     Checking, Counting, Rises
<1>18. ASSUME NEW t \in Threads, Resume(t) PROVE  Rises(t)
  BY <1>18 DEF Resume, Goto, At, shared, local, PcType, LocalType, OtherType, Checking,
     Counting, Rises
<1>19. ASSUME NEW t \in Threads, DecreaseExecutionIdx(t) PROVE  Rises(t)
  BY <1>19 DEF DecreaseExecutionIdx, Least, Goto, At, shared, local, PcType, LocalType,
     OtherType, Checking, Counting, Rises
<1>20. ASSUME NEW t \in Threads, Count(t, "count_execution", "load_validation")
      PROVE  Counts(t)
  BY Zenon, <1>20 DEF Count, Goto, At, shared, local, PcType, LocalType, OtherType, Checking,
     Counting, Counts
<1>21. ASSUME NEW t \in Threads, LoadValidation(t) PROVE  Rises(t)
  BY <1>21 DEF LoadValidation, Goto, At, shared, local, PcType, LocalType, OtherType, Checking,
     Counting, Rises
<1>22. ASSUME NEW t \in Threads, DecreaseValidationIdx(t, "decrease_suffix", task[t], "count_suffix", "drop_guard")
      PROVE  Rises(t)
  BY <1>22 DEF DecreaseValidationIdx, Least, Goto, At, shared, local, PcType, LocalType,
     OtherType, Checking, Counting, Rises
<1>23. ASSUME NEW t \in Threads, Count(t, "count_suffix", "drop_guard")
      PROVE  Counts(t)
  BY Zenon, <1>23 DEF Count, Goto, At, shared, local, PcType, LocalType, OtherType, Checking,
     Counting, Counts
<1>24. ASSUME NEW t \in Threads, TryAbort(t) PROVE  Rises(t)
  BY <1>24 DEF TryAbort, Abortable, Goto, At, shared, local, PcType, LocalType, OtherType,
     Checking, Counting, Rises
<1>25. ASSUME NEW t \in Threads, SetAborted(t) PROVE  Rises(t)
  BY <1>25 DEF SetAborted, NextIncarnation, Goto, At, shared, local, PcType, LocalType,
     OtherType, Checking, Counting, Rises
<1>26. ASSUME NEW t \in Threads, DecreaseValidationIdx(t, "decrease_aborted", task[t] + 1, "count_aborted", "load_execution")
      PROVE  Rises(t)
  BY <1>26 DEF DecreaseValidationIdx, Least, Goto, At, shared, local, PcType, LocalType,
     OtherType, Checking, Counting, Rises
<1>27. ASSUME NEW t \in Threads, Count(t, "count_aborted", "load_execution")
      PROVE  Counts(t)
  BY Zenon, <1>27 DEF Count, Goto, At, shared, local, PcType, LocalType, OtherType, Checking,
     Counting, Counts
<1>28. ASSUME NEW t \in Threads, LoadExecution(t) PROVE  Rises(t)
  BY <1>28 DEF LoadExecution, Goto, At, shared, local, PcType, LocalType, OtherType, Checking,
     Counting, Rises
<1>29. ASSUME NEW t \in Threads, NEW d \in Txns, MeetDependency(t, d) PROVE  Rises(t)
  BY <1>29 DEF MeetDependency, is_executed, Goto, At, shared, local, PcType, LocalType,
     OtherType, Checking, Counting, Rises
<1>30. ASSUME NEW t \in Threads, NEW b \in BOOLEAN, Finish(t, b) PROVE  Rises(t)
  BY <1>30 DEF Finish, Goto, At, shared, local, PcType, LocalType, OtherType, Checking,
     Counting, Rises
<1>31. ASSUME NEW t \in Threads, Pass(t) PROVE  Rises(t)
  BY <1>31 DEF Pass, Goto, At, shared, local, PcType, LocalType, OtherType, Checking, Counting,
     Rises
<1>32. ASSUME NEW t \in Threads, Fail(t) PROVE  Rises(t)
  BY <1>32 DEF Fail, Goto, At, shared, local, PcType, LocalType, OtherType, Checking, Counting,
     Rises
<1>33. ASSUME NEW t \in Threads, EstimatesMarked(t) PROVE  Rises(t)
  BY <1>33 DEF EstimatesMarked, Goto, At, shared, local, PcType, LocalType, OtherType,
     Checking, Counting, Rises
<1> QED
  BY Zenon, <1>1, <1>2, <1>3, <1>4, <1>5, <1>6, <1>7, <1>8, <1>9, <1>10, <1>11, <1>12, <1>13, <1>14,
     <1>15, <1>16, <1>17, <1>18, <1>19, <1>20, <1>21, <1>22, <1>23, <1>24, <1>25, <1>26, <1>27,
     <1>28, <1>29, <1>30, <1>31, <1>32, <1>33
  DEF Next, SchedulerStep, TaskStep, Checks

LEMMA SeenOver ==
  ASSUME NumTxnsAssumption, ThreadsAssumption, PcType, StatusType, LocalType, ListType, OtherType, InHand, GuardsCounted, OneHolder, ReadyIsDue, CheckDone,
         NEW t \in Threads, t \in current, pc[t] = "check_active_tasks", num_active_tasks = 0
  PROVE  AllOver
<1>1. \A u \in Threads : pc[u] \notin Guarded
  <2>1. IsFiniteSet(GuardedThreads)
    BY Zenon, ThreadsAssumption, FS_Subset DEF GuardedThreads
  <2>2. GuardedThreads = {}
    BY Zenon, <2>1, FS_EmptySet DEF GuardsCounted
  <2> QED
    BY Zenon, <2>2 DEF GuardedThreads
<1>2. \A u \in Threads : pc[u] \in Unguarded
  BY Zenon, <1>1 DEF PcType, Labels
<1>3. execution_idx >= NumTxns /\ validation_idx >= NumTxns
  <2>1. ~Decreased
    BY Zenon, <1>1 DEF Decreased, Guarded
  <2> QED
    BY Zenon, <2>1 DEF CheckDone
<1>4. ASSUME NEW i \in Txns PROVE txn_status[i].kind = "Executed"
  <2>1. txn_status[i].kind \notin {"Executing", "Suspended", "Aborting"}
    BY <1>1 DEF OneHolder, Holding, Guarded
  <2>2. ~Due(i)
    <3>1. \A u \in Threads : ~Brings(u, i)
      BY Zenon, <1>1 DEF Brings, At, Guarded
    <3>2. ~(execution_idx <= i)
      BY <1>3, NumTxnsAssumption DEF Txns, OtherType
    <3> QED
      BY Zenon, <3>1, <3>2 DEF Due
  <2>3. txn_status[i].kind # "ReadyToExecute"
    BY Zenon, <2>2 DEF ReadyIsDue
  <2> QED
    BY Zenon, <2>1, <2>3 DEF StatusType, Statuses, Kinds
<1> QED
  BY Zenon, <1>2, <1>3, <1>4 DEF AllOver, Quiet

LEMMA CheckDoneStep ==
  ASSUME NumTxnsAssumption, ThreadsAssumption, PcType, StatusType, LocalType, ListType, OtherType, InHand, GuardsCounted, OneHolder, ReadyIsDue, CheckDone, [Next]_vars
  PROVE  CheckDone'
<1>1. AllOver => AllOver'
  BY Zenon, AllOverStep
<1> DEFINE Seen(t) ==
      /\ pc[t] \in {"check_execution_idx", "check_active_tasks"} => validation_idx >= NumTxns \/ Decreased
      /\ pc[t] = "check_active_tasks" => execution_idx >= NumTxns \/ Decreased
      /\ pc[t] = "check_decrease_cnt" => AllOver
<1>2. /\ \A t \in Threads : t \in current => Seen(t)
      /\ \A t \in Threads : pc[t] = "set_done" => AllOver
      /\ done_marker => AllOver
  BY Zenon DEF CheckDone, DoneIsOver
<1>3. SUFFICES /\ \A t \in Threads : t \in current' => Seen(t)'
               /\ \A t \in Threads : pc'[t] = "set_done" => AllOver'
               /\ done_marker' => AllOver'
  BY Zenon DEF CheckDone, DoneIsOver
<1>4. ASSUME NEW t \in Threads, Rises(t)
      PROVE  /\ \A u \in Threads : u \in current' => Seen(u)'
             /\ \A u \in Threads : pc'[u] = "set_done" => AllOver'
             /\ done_marker' => AllOver'
  <2>1. Decreased => Decreased'
    BY Zenon, <1>4 DEF Rises, Decreased, Counting
  <2>2. validation_idx >= NumTxns \/ Decreased => validation_idx' >= NumTxns \/ Decreased'
    <3>1. pc'[t] \in Counting => Decreased'
      BY Zenon DEF Decreased, Counting
    <3> QED
      BY <1>4, <2>1, <3>1, OtherTypeStep, NumTxnsAssumption DEF Rises, OtherType
  <2>3. execution_idx >= NumTxns \/ Decreased => execution_idx' >= NumTxns \/ Decreased'
    <3>1. pc'[t] \in Counting => Decreased'
      BY Zenon DEF Decreased, Counting
    <3> QED
      BY <1>4, <2>1, <3>1, OtherTypeStep, NumTxnsAssumption DEF Rises, OtherType
  <2>4. \A u \in Threads : pc'[u] \in Checking => pc'[u] = pc[u]
    BY Zenon, <1>4 DEF Rises
  <2>5. ASSUME NEW u \in Threads, u \in current' PROVE Seen(u)'
    <3>1. u \in current /\ Seen(u)
      BY Zenon, <1>2, <1>4, <2>5 DEF Rises
    <3> QED
      BY Zenon, <1>1, <2>2, <2>3, <2>4, <3>1 DEF Checking
  <2> QED
    BY Zenon, <1>1, <1>2, <1>4, <2>4, <2>5 DEF Rises, Checking
<1>5. ASSUME NEW t \in Threads, Counts(t)
      PROVE  /\ \A u \in Threads : u \in current' => Seen(u)'
             /\ \A u \in Threads : pc'[u] = "set_done" => AllOver'
             /\ done_marker' => AllOver'
  BY Zenon, <1>1, <1>2, <1>5 DEF Counts, Checking
<1>6. ASSUME NEW t \in Threads, Checks(t)
      PROVE  /\ \A u \in Threads : u \in current' => Seen(u)'
             /\ \A u \in Threads : pc'[u] = "set_done" => AllOver'
             /\ done_marker' => AllOver'
  <2>1. /\ \A u \in Threads \ {t} : pc'[u] = pc[u] /\ (u \in current' => u \in current)
        /\ UNCHANGED <<validation_idx, execution_idx>>
        /\ pc[t] \notin Counting
    BY Zenon, <1>6 DEF Checks, LoadDecreaseCnt, CheckValidationIdx, CheckExecutionIdx,
       CheckActiveTasks,
                CheckDecreaseCnt, SetDone, CheckLoad, SameCount, Goto, At, PcType, Counting
  <2>2. Decreased => Decreased'
    BY Zenon, <2>1 DEF Decreased, Counting
  <2>3. ASSUME NEW u \in Threads \ {t}, u \in current' PROVE Seen(u)'
    <3>1. Seen(u) /\ pc'[u] = pc[u]
      BY Zenon, <1>2, <2>1, <2>3
    <3> QED
      BY Zenon, <1>1, <2>1, <2>2, <3>1
  <2>4. /\ t \in current' => Seen(t)'
        /\ pc'[t] = "set_done" => AllOver'
        /\ done_marker' => AllOver'
    <3>1. CASE LoadDecreaseCnt(t)
      BY Zenon, <1>1, <1>2, <3>1 DEF LoadDecreaseCnt, Goto, At, PcType
    <3>2. CASE CheckValidationIdx(t)
      BY Zenon, <1>1, <1>2, <3>2 DEF CheckValidationIdx, CheckLoad, Goto, At, PcType
    <3>3. CASE CheckExecutionIdx(t)
      <4>1. /\ pc[t] = "check_execution_idx" /\ UNCHANGED done_marker
            /\ \/ pc'[t] = "next_task"
               \/ pc'[t] = "check_active_tasks" /\ execution_idx >= NumTxns /\ current' = current
        BY Zenon, <3>3 DEF CheckExecutionIdx, CheckLoad, Goto, At, PcType
      <4> QED
        BY Zenon, <1>1, <1>2, <2>1, <2>2, <4>1
    <3>4. CASE CheckActiveTasks(t)
      <4>1. /\ pc[t] = "check_active_tasks" /\ UNCHANGED done_marker
            /\ \/ pc'[t] = "next_task"
               \/ pc'[t] = "check_decrease_cnt" /\ num_active_tasks = 0 /\ current' = current
        BY Zenon, <3>4 DEF CheckActiveTasks, CheckLoad, Goto, At, PcType
      <4>2. t \in current /\ num_active_tasks = 0 => AllOver
        BY Zenon, <4>1, SeenOver
      <4> QED
        BY Zenon, <1>1, <1>2, <4>1, <4>2
    <3>5. CASE CheckDecreaseCnt(t)
      <4>1. /\ pc[t] = "check_decrease_cnt" /\ UNCHANGED done_marker
            /\ pc'[t] = "next_task" \/ (pc'[t] = "set_done" /\ t \in current)
        BY Zenon, <3>5 DEF CheckDecreaseCnt, CheckLoad, SameCount, Goto, At, PcType
      <4> QED
        BY Zenon, <1>1, <1>2, <4>1
    <3>6. CASE SetDone(t)
      BY Zenon, <1>1, <1>2, <3>6 DEF SetDone, Goto, At, PcType
    <3> QED
      BY Zenon, <1>6, <3>1, <3>2, <3>3, <3>4, <3>5, <3>6 DEF Checks
  <2>5. ASSUME NEW u \in Threads, pc'[u] = "set_done" PROVE AllOver'
    BY Zenon, <1>1, <1>2, <2>1, <2>4, <2>5
  <2> HIDE DEF Seen
  <2> QED
    BY Zenon, <2>3, <2>4, <2>5
<1>7. CASE UNCHANGED vars
  BY Zenon, <1>1, <1>2, <1>7 DEF vars, shared, local, Decreased
<1> HIDE DEF Seen
<1> QED
  BY Zenon, <1>4, <1>5, <1>6, <1>7, CheckSteps

(* The arrows of the diagram.                                              *)
LEMMA Arrows ==
  ASSUME NEW i, NEW cv
  PROVE  /\ Moves(ReadyToExecute(i, cv), Executing(i)) /\ Moves(Executing(i), Suspended(i, cv))
         /\ Moves(Executing(i), Executed(i)) /\ Moves(Executed(i), Aborting(i))
         /\ Moves(Aborting(i), ReadyToExecute(i + 1, NoCondvar))
<1>1. /\ ReadyToExecute(i, cv).kind = "ReadyToExecute" /\ ReadyToExecute(i, cv).incarnation = i
      /\ Suspended(i, cv).kind = "Suspended" /\ Suspended(i, cv).incarnation = i
  BY Zenon DEF ReadyToExecute, Suspended, Status
<1>2. /\ Executing(i).kind = "Executing" /\ Executing(i).incarnation = i
      /\ Executed(i).kind = "Executed" /\ Executed(i).incarnation = i
      /\ Aborting(i).kind = "Aborting" /\ Aborting(i).incarnation = i
  BY Zenon, Fields
<1>3. Moves(ReadyToExecute(i, cv), Executing(i))
  BY Zenon, <1>1 DEF Moves
<1>4. Moves(Executing(i), Suspended(i, cv))
  BY Zenon, <1>1, <1>2 DEF Moves
<1>5. Moves(Executing(i), Executed(i)) /\ Moves(Executed(i), Aborting(i))
  BY Zenon, <1>2 DEF Moves
<1>6. Moves(Aborting(i), ReadyToExecute(i + 1, NoCondvar))
  BY Zenon, <1>2 DEF Moves
<1> QED
  BY Zenon, <1>3, <1>4, <1>5, <1>6

(* Every change of a status is one of the diagram.                         *)
LEMMA DiagramStep ==
  ASSUME NumTxnsAssumption, PcType, StatusType, LocalType, ListType, InHand, ThreadKnows, Lists, [Next]_vars
  PROVE  \A i \in Txns : txn_status[i] = txn_status'[i] \/ Moves(txn_status[i], txn_status'[i])
<1>1. ASSUME NEW t \in Threads, Incarnates(t)
      PROVE  \E s : Becomes(task[t], s) /\ Moves(txn_status[task[t]], s)
  <2>1. /\ txn_status[task[t]] = ReadyToExecute(incarnation'[t], condvar'[t])
        /\ Becomes(task[t], Executing(incarnation'[t]))
    BY Zenon, <1>1 DEF Incarnates
  <2>2. Moves(ReadyToExecute(incarnation'[t], condvar'[t]), Executing(incarnation'[t]))
    BY Zenon, Arrows
  <2> QED
    BY Zenon, <2>1, <2>2
<1>2. ASSUME NEW t \in Threads, Suspends(t)
      PROVE  \E s : Becomes(task[t], s) /\ Moves(txn_status[task[t]], s)
  <2>1. txn_status[task[t]] = Executing(incarnation[t])
    BY Zenon, <1>2 DEF Suspends, ThreadKnows
  <2>2. Executing(incarnation[t]).incarnation = incarnation[t]
    BY Zenon, Fields
  <2>3. Becomes(task[t], Suspended(incarnation[t], t))
    BY Zenon, <1>2, <2>1, <2>2 DEF Suspends
  <2>4. Moves(Executing(incarnation[t]), Suspended(incarnation[t], t))
    BY Zenon, Arrows
  <2> QED
    BY Zenon, <2>1, <2>3, <2>4
<1>3. ASSUME NEW t \in Threads, Executes(t)
      PROVE  \E s : Becomes(task[t], s) /\ Moves(txn_status[task[t]], s)
  <2>1. txn_status[task[t]] = Executing(incarnation[t]) /\ Becomes(task[t], Executed(incarnation[t]))
    BY Zenon, <1>3 DEF Executes, ThreadKnows
  <2> QED
    BY Zenon, <2>1, Arrows
<1>4. ASSUME NEW t \in Threads, NEW d \in Txns, Resumes(t, d)
      PROVE  \E s : Becomes(d, s) /\ Moves(txn_status[d], s)
  BY Zenon, <1>4 DEF Resumes, Moves
<1>5. ASSUME NEW t \in Threads, Aborts(t)
      PROVE  \E s : Becomes(task[t], s) /\ Moves(txn_status[task[t]], s)
  <2>1. txn_status[task[t]] = Executed(incarnation[t]) /\ Becomes(task[t], Aborting(incarnation[t]))
    BY Zenon, <1>5 DEF Aborts
  <2> QED
    BY Zenon, <2>1, Arrows
<1>6. ASSUME NEW t \in Threads, Readies(t)
      PROVE  \E s : Becomes(task[t], s) /\ Moves(txn_status[task[t]], s)
  <2>1. /\ txn_status[task[t]] = Aborting(incarnation[t])
        /\ Becomes(task[t], ReadyToExecute(incarnation[t] + 1, NoCondvar))
    BY Zenon, <1>6 DEF Readies, ThreadKnows
  <2> QED
    BY Zenon, <2>1, Arrows
<1>7. ASSUME NEW t \in Threads, NEW j, \E s : Becomes(j, s) /\ Moves(txn_status[j], s)
      PROVE  \A i \in Txns : txn_status[i] = txn_status'[i] \/ Moves(txn_status[i], txn_status'[i])
  BY Zenon, <1>7 DEF Becomes
<1>8. ASSUME NEW t \in Threads, Idles(t) \/ Keeps(t) \/ Notifies(t) \/ Wakes(t) PROVE UNCHANGED txn_status
  BY Zenon, <1>8 DEF Idles, Keeps, Notifies, Wakes
<1>9. CASE UNCHANGED vars
  BY Zenon, <1>9 DEF vars, shared
<1> QED
  BY Zenon, <1>1, <1>2, <1>3, <1>4, <1>5, <1>6, <1>7, <1>8, <1>9, StatusSteps DEF StatusStep

-----------------------------------------------------------------------------
LEMMA InitInv == Init => Inv
<1> SUFFICES ASSUME Init PROVE Inv
  BY Zenon
<1>1. \A t \in Threads : pc[t] = "next_task"
  BY Zenon DEF Init
<1>2. TypeOK
  <2>1. \A i \in Txns : txn_status[i] \in Statuses
    BY Zenon, StatusTypes DEF Init
  <2>2. NoTxn \in Nat
    BY Zenon, NumTxnsAssumption DEF NoTxn
  <2>3. "next_task" \in Labels
    BY Zenon DEF Labels, Unguarded
  <2> QED
    BY Zenon, <2>1, <2>2, <2>3 DEF Init, TypeOK
<1>3. InHand
  BY Zenon DEF Init, InHand, Tasked, Guarded
<1>4. GuardsCounted
  <2>1. GuardedThreads = {}
    BY Zenon, <1>1 DEF GuardedThreads, Guarded
  <2> QED
    BY Zenon, <2>1, FS_EmptySet DEF Init, GuardsCounted
<1>5. ThreadKnows /\ OneHolder
  BY Zenon, <1>1, Fields DEF Init, ThreadKnows, OneHolder, Holding
<1>6. CondvarsWaited
  <2>1. \A i \in Txns : txn_status[i] = ReadyToExecute(0, NoCondvar)
    BY Zenon DEF Init
  <2>2. /\ ReadyToExecute(0, NoCondvar).kind = "ReadyToExecute"
        /\ ReadyToExecute(0, NoCondvar).condvar = NoCondvar
    BY Zenon DEF ReadyToExecute, Status
  <2> QED
    BY Zenon, <2>1, <2>2, ThreadsAssumption DEF CondvarsWaited
<1>7. Notified /\ Lists /\ WillBeResumed
  BY Zenon, <1>1 DEF Init, Notified, Lists, WillBeResumed
<1>8. ReadyIsDue
  BY NumTxnsAssumption DEF Init, ReadyIsDue, Due, Txns
<1>9. CheckDone
  BY Zenon, <1>1 DEF Init, CheckDone, DoneIsOver
<1> QED
  BY Zenon, <1>2, <1>3, <1>4, <1>5, <1>6, <1>7, <1>8, <1>9 DEF Inv

LEMMA TypeParts == TypeOK <=> PcType /\ StatusType /\ LocalType /\ ListType /\ OtherType
  BY Zenon DEF TypeOK, PcType, StatusType, LocalType, ListType, OtherType

LEMMA StepInv == Inv /\ [Next]_vars => Inv'
<1> SUFFICES ASSUME Inv, [Next]_vars PROVE Inv'
  BY Zenon
<1>1. /\ NumTxnsAssumption /\ ThreadsAssumption
      /\ PcType /\ StatusType /\ LocalType /\ ListType /\ OtherType
      /\ InHand /\ GuardsCounted /\ ThreadKnows /\ CondvarsWaited /\ Notified /\ OneHolder
      /\ Lists /\ WillBeResumed /\ ReadyIsDue /\ CheckDone
  BY Zenon, TypeParts, NumTxnsAssumption, ThreadsAssumption DEF Inv
<1>2. TypeOK'
  <2>1. PcType' /\ StatusType' /\ LocalType' /\ ListType' /\ OtherType'
    BY Zenon, <1>1, PcTypeStep, StatusTypeStep, LocalTypeStep, ListTypeStep, OtherTypeStep
  <2> QED
    BY Zenon, <2>1 DEF TypeOK, PcType, StatusType, LocalType, ListType, OtherType
<1>3. InHand' /\ GuardsCounted'
  BY Zenon, <1>1, InHandStep, GuardsCountedStep
<1>4. ThreadKnows' /\ CondvarsWaited' /\ Notified' /\ OneHolder'
  BY Zenon, <1>1, ThreadKnowsStep, CondvarsWaitedStep, NotifiedStep, OneHolderStep
<1>5. Lists' /\ WillBeResumed' /\ ReadyIsDue'
  BY Zenon, <1>1, ListsStep, WillBeResumedStep, ReadyIsDueStep
<1>6. CheckDone'
  BY Zenon, <1>1, CheckDoneStep
<1> QED
  BY Zenon, <1>2, <1>3, <1>4, <1>5, <1>6 DEF Inv

(* The inductive invariant of the scheduler: what it knows of its threads, *)
(* its statuses, its lists of dependents and its indices.                  *)
THEOREM Invariance == Spec => []Inv
<1> QED
  BY InitInv, StepInv, PTL DEF Spec

(* The scheduler's atomics, lists and statuses keep their types.           *)
THEOREM TypeCorrect == Spec => []TypeOK
<1>1. Inv => TypeOK
  BY Zenon DEF Inv
<1> QED
  BY <1>1, Invariance, PTL

(* No assertion and no unreachable!() of the scheduler is ever met.        *)
THEOREM Asserted == Spec => []AssertionsHold
<1>1. Inv => AssertionsHold
  <2> SUFFICES ASSUME Inv, NEW t \in Threads
               PROVE  /\ At(t, "suspend") => txn_status[task[t]].kind = "Executing"
                      /\ At(t, "resume") => \A d \in deps[t] : txn_status[d].kind = "Suspended"
                      /\ At(t, "set_executed") => txn_status[task[t]] = Executing(incarnation[t])
                      /\ At(t, "set_aborted") => txn_status[task[t]] = Aborting(incarnation[t])
                      /\ At(t, "drop_guard") => num_active_tasks > 0
    BY Zenon DEF AssertionsHold
  <2>1. At(t, "drop_guard") => num_active_tasks > 0
    BY Zenon, ThreadsAssumption, GuardPositive DEF Inv, At, Guarded
  <2>2. At(t, "resume") => \A d \in deps[t] : txn_status[d].kind = "Suspended"
    BY Zenon DEF Inv, Lists
  <2> QED
    BY <2>1, <2>2, Fields DEF Inv, ThreadKnows, At
<1> QED
  BY <1>1, Invariance, PTL

(* check_done, reading four atomics one after the other, sets done_marker  *)
(* only when every transaction is executed and nothing is left to do.      *)
THEOREM Done == Spec => []DoneIsOver
<1>1. Inv => DoneIsOver
  BY Zenon DEF Inv, CheckDone
<1> QED
  BY <1>1, Invariance, PTL

(* A thread in wait_for_dependency is always on its way to be notified.    *)
THEOREM Woken == Spec => []NoLostWakeup
<1>1. Inv => NoLostWakeup
  <2> SUFFICES ASSUME Inv, NEW t \in Threads, pc[t] = "wait"
               PROVE  \/ /\ txn_status[task[t]] = Suspended(incarnation[t], t)
                         /\ \/ task[t] \in txn_dependency[dependency[t]] /\ WillTake(dependency[t])
                            \/ \E u \in Threads : At(u, "resume") /\ task[t] \in deps[u]
                      \/ txn_status[task[t]] = ReadyToExecute(incarnation[t], t) /\ Due(task[t])
                      \/ /\ txn_status[task[t]] = Executing(incarnation[t])
                         /\ t \in resolved \/ \E u \in Threads : At(u, "notify") /\ condvar[u] = t
    BY Zenon DEF NoLostWakeup, At
  <2>1. task[t] \in Txns
    BY Zenon DEF Inv, InHand, Tasked, Guarded
  <2>2. CASE txn_status[task[t]] = Suspended(incarnation[t], t)
    <3>1. txn_status[task[t]].kind = "Suspended"
      BY <2>2, Fields
    <3> QED
      BY Zenon, <2>2, <3>1 DEF Inv, WillBeResumed, At
  <2>3. CASE txn_status[task[t]] = ReadyToExecute(incarnation[t], t)
    <3>1. txn_status[task[t]].kind = "ReadyToExecute"
      BY <2>3, Fields
    <3> QED
      BY Zenon, <2>1, <2>3, <3>1 DEF Inv, ReadyIsDue
  <2>4. CASE /\ txn_status[task[t]] = Executing(incarnation[t])
             /\ t \in resolved \/ \E u \in Threads : pc[u] = "notify" /\ condvar[u] = t
    BY Zenon, <2>4 DEF At
  <2> QED
    BY Zenon, <2>2, <2>3, <2>4 DEF Inv, ThreadKnows
<1> QED
  BY <1>1, Invariance, PTL

(* A transaction is executed or aborted by one thread at a time.           *)
THEOREM OneAtATime == Spec => []OneHolder
<1>1. Inv => OneHolder
  BY Zenon DEF Inv
<1> QED
  BY <1>1, Invariance, PTL

(* Statuses move along the diagram of scheduler.rs and no other way.       *)
THEOREM Diagram == Spec => StatusDiagram
<1>1. Inv /\ [Next]_vars =>
        [\A i \in Txns : txn_status[i] = txn_status'[i] \/ Moves(txn_status[i], txn_status'[i])]_vars
  BY Zenon, DiagramStep, TypeParts, NumTxnsAssumption DEF Inv
<1> QED
  BY <1>1, Invariance, PTL DEF Spec, StatusDiagram

=============================================================================
