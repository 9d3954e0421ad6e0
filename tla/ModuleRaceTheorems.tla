------------------------- MODULE ModuleRaceTheorems -------------------------
(***************************************************************************)
(* The race between publishing a module and using it is found, and found   *)
(* only where there is one, for every number of threads and modules.       *)
(*                                                                         *)
(* A module in both sets is either flagged, or a thread that entered it    *)
(* last has yet to look (flags principle).  What an execution has not yet  *)
(* entered is still in the hands of its thread, unless the flag makes it   *)
(* superfluous.                                                            *)
(***************************************************************************)
EXTENDS ModuleRace, TLAPS

(* The time for a step that names no prover.                               *)
USE SMTT(45), ZenonT(20)

(* A thread has found a path, and the flag is set or about to be.          *)
Found == \/ module_read_write_intersection
         \/ \E t \in Threads : pc[t] = "store"

Looking(t, p) == pc[t] \in {"check_writes", "check_reads"} /\ path[t] = p

FlagsPrinciple ==
  \A p \in module_reads \cap module_writes :
    Found \/ \E t \in Threads : Looking(t, p)

NothingForgotten ==
  \/ Found
  \/ /\ \A p \in everRead : p \in module_reads \/ \E t \in Threads : p \in toRead[t]
     /\ \A p \in everWritten : p \in module_writes \/ \E t \in Threads : p \in toWrite[t]

OnlyRecorded ==
  /\ module_reads \subseteq everRead /\ module_writes \subseteq everWritten
  /\ \A t \in Threads : toRead[t] \subseteq everRead /\ toWrite[t] \subseteq everWritten
  /\ \A t \in Threads : /\ pc[t] = "check_writes" => path[t] \in module_reads
                        /\ pc[t] = "check_reads" => path[t] \in module_writes
  /\ Found => everRead \cap everWritten # {}

IdleIsEmpty ==
  \A t \in Threads : pc[t] \in {"idle", "store"} => toRead[t] = {} /\ toWrite[t] = {}

Concluded ==
  /\ outcome # "none" => \A t \in Threads : pc[t] = "idle"
  /\ RaceAlwaysFound /\ NoFalseAlarm

Inv == TypeOK /\ FlagsPrinciple /\ NothingForgotten /\ OnlyRecorded /\ IdleIsEmpty /\ Concluded

-----------------------------------------------------------------------------
(* The initial state satisfies the invariant: nothing has been recorded.   *)
LEMMA InitInv == Init => Inv
<1> SUFFICES ASSUME Init PROVE Inv
  OBVIOUS
<1> USE DEF Init
<1>1. TypeOK
  <2>1. records \in 0 .. MaxRecords
    BY MaxRecordsAssumption
  <2>2. pc \in [Threads -> {"idle", "append", "check_writes", "check_reads", "store"}]
    OBVIOUS
  <2>3. /\ toRead \in [Threads -> SUBSET Modules] /\ toWrite \in [Threads -> SUBSET Modules]
        /\ path \in [Threads -> Modules \cup {NoModule}]
    OBVIOUS
  <2>4. /\ module_reads \subseteq Modules /\ module_writes \subseteq Modules
        /\ everRead \subseteq Modules /\ everWritten \subseteq Modules
    OBVIOUS
  <2>5. module_read_write_intersection \in BOOLEAN
    BY Zenon
  <2> QED
    BY <2>1, <2>2, <2>3, <2>4, <2>5 DEF TypeOK
<1>2. ~Found
  <2>1. ~module_read_write_intersection
    OBVIOUS
  <2>2. \A t \in Threads : pc[t] # "store"
    OBVIOUS
  <2> QED
    BY <2>1, <2>2, Zenon DEF Found
<1>3. FlagsPrinciple /\ NothingForgotten
  BY DEF FlagsPrinciple, NothingForgotten
<1>4. OnlyRecorded
  BY <1>2 DEF OnlyRecorded
<1>5. IdleIsEmpty /\ Concluded
  BY DEF IdleIsEmpty, Concluded, RaceAlwaysFound, NoFalseAlarm
<1> QED
  BY <1>1, <1>3, <1>4, <1>5 DEF Inv

(* Types are preserved by every step.                                      *)
LEMMA TypeStep == TypeOK /\ [Next]_vars => TypeOK'
<1> SUFFICES ASSUME TypeOK, [Next]_vars PROVE TypeOK'
  OBVIOUS
<1> USE DEF TypeOK, Goto
<1>1. ASSUME NEW t \in Threads, Record(t) PROVE TypeOK'
  BY <1>1, MaxRecordsAssumption DEF Record
<1>2. ASSUME NEW t \in Threads, AppendRead(t) PROVE TypeOK'
  BY <1>2 DEF AppendRead, Show
<1>3. ASSUME NEW t \in Threads, AppendWrite(t) PROVE TypeOK'
  BY <1>3 DEF AppendWrite, Show
<1>4. ASSUME NEW t \in Threads, NEW from, NEW set, Look(t, from, set) PROVE TypeOK'
  BY <1>4 DEF Look
<1>5. ASSUME NEW t \in Threads, Store(t) PROVE TypeOK'
  BY <1>5 DEF Store
<1>6. ASSUME NEW t \in Threads, NotFound(t) PROVE TypeOK'
  BY <1>6 DEF NotFound
<1>7. CASE Conclude
  BY <1>7 DEF Conclude, Fallback
<1>8. CASE UNCHANGED vars
  BY <1>8 DEF vars
<1> QED
  BY <1>1, <1>2, <1>3, <1>4, <1>5, <1>6, <1>7, <1>8 DEF Next

(* record begins: with the flag set nothing is entered, and otherwise the  *)
(* thread takes the paths in hand.                                         *)
LEMMA RecordStep ==
  ASSUME NEW t \in Threads, Inv, Record(t), TypeOK'
  PROVE  Inv'
<1> USE DEF Inv, Record, Goto, TypeOK
<1>1. Found => Found'
  BY DEF Found
<1>2. Found' => Found
  BY DEF Found
<1>3. FlagsPrinciple'
  BY <1>1 DEF FlagsPrinciple, Looking, IdleIsEmpty
<1>4. NothingForgotten'
  BY <1>1 DEF NothingForgotten, IdleIsEmpty, Found
<1>5. OnlyRecorded'
  BY <1>2 DEF OnlyRecorded
<1>6. IdleIsEmpty'
  BY DEF IdleIsEmpty
<1>7. Concluded'
  BY DEF Concluded, RaceAlwaysFound, NoFalseAlarm
<1> QED
  BY <1>3, <1>4, <1>5, <1>6, <1>7

(* A path read is entered, and its thread is about to look it up.          *)
LEMMA AppendReadStep ==
  ASSUME NEW t \in Threads, Inv, AppendRead(t), TypeOK'
  PROVE  Inv'
<1> USE DEF Inv, AppendRead, Goto, TypeOK, Show
<1>1. Found <=> Found'
  BY DEF Found
<1>3. FlagsPrinciple'
  BY <1>1 DEF FlagsPrinciple, Looking
<1>4. NothingForgotten'
  BY <1>1 DEF NothingForgotten
<1>5. OnlyRecorded'
  BY <1>1 DEF OnlyRecorded
<1>6. IdleIsEmpty'
  BY DEF IdleIsEmpty
<1>7. Concluded'
  BY DEF Concluded, RaceAlwaysFound, NoFalseAlarm
<1> QED
  BY <1>3, <1>4, <1>5, <1>6, <1>7

(* So is a path written.                                                   *)
LEMMA AppendWriteStep ==
  ASSUME NEW t \in Threads, Inv, AppendWrite(t), TypeOK'
  PROVE  Inv'
<1> USE DEF Inv, AppendWrite, Goto, TypeOK, Show
<1>1. Found <=> Found'
  BY DEF Found
<1>3. FlagsPrinciple'
  BY <1>1 DEF FlagsPrinciple, Looking
<1>4. NothingForgotten'
  BY <1>1 DEF NothingForgotten
<1>5. OnlyRecorded'
  BY <1>1 DEF OnlyRecorded
<1>6. IdleIsEmpty'
  BY DEF IdleIsEmpty
<1>7. Concluded'
  BY DEF Concluded, RaceAlwaysFound, NoFalseAlarm
<1> QED
  BY <1>3, <1>4, <1>5, <1>6, <1>7

(* A thread looks its path up in the other set: a module that is in both   *)
(* sets when its last thread looks is found.                               *)
LEMMA LookStep ==
  ASSUME NEW t \in Threads, Inv, TypeOK',
         \/ Look(t, "check_writes", module_writes)
         \/ Look(t, "check_reads", module_reads)
  PROVE  Inv'
<1> USE DEF Inv, Look, Goto, TypeOK, Contains
<1>1. Found => Found'
  BY DEF Found
<1>2. CASE pc'[t] = "store"
  <2>1. Found'
    BY <1>2 DEF Found
  <2>2. path[t] \in module_reads \cap module_writes
    BY <1>2 DEF OnlyRecorded
  <2>3. FlagsPrinciple' /\ NothingForgotten'
    BY <2>1 DEF FlagsPrinciple, NothingForgotten
  <2>4. OnlyRecorded'
    BY <1>2, <2>2 DEF OnlyRecorded
  <2>5. IdleIsEmpty' /\ Concluded'
    BY <1>2 DEF IdleIsEmpty, Concluded, RaceAlwaysFound, NoFalseAlarm
  <2> QED
    BY <2>3, <2>4, <2>5
<1>3. CASE pc'[t] # "store"
  <2>1. Found' <=> Found
    BY <1>3 DEF Found
  <2>2. path[t] \notin module_reads \cap module_writes
    BY <1>3
  <2>3. FlagsPrinciple'
    BY <1>3, <2>1, <2>2 DEF FlagsPrinciple, Looking
  <2>4. NothingForgotten'
    BY <1>3, <2>1 DEF NothingForgotten
  <2>5. OnlyRecorded'
    BY <1>3, <2>1 DEF OnlyRecorded
  <2>6. IdleIsEmpty' /\ Concluded'
    BY <1>3 DEF IdleIsEmpty, Concluded, RaceAlwaysFound, NoFalseAlarm
  <2> QED
    BY <2>3, <2>4, <2>5, <2>6
<1> QED
  BY <1>2, <1>3

(* The flag is stored by a thread that found a path.                       *)
LEMMA StoreStep ==
  ASSUME NEW t \in Threads, Inv, Store(t), TypeOK'
  PROVE  Inv'
<1> USE DEF Inv, Store, Goto, TypeOK
<1>1. Found /\ Found'
  BY DEF Found
<1>2. FlagsPrinciple' /\ NothingForgotten'
  BY <1>1 DEF FlagsPrinciple, NothingForgotten
<1>3. OnlyRecorded'
  BY <1>1 DEF OnlyRecorded
<1>4. IdleIsEmpty' /\ Concluded'
  BY DEF IdleIsEmpty, Concluded, RaceAlwaysFound, NoFalseAlarm
<1> QED
  BY <1>2, <1>3, <1>4

(* All paths of an execution are entered and none was found.               *)
LEMMA NotFoundStep ==
  ASSUME NEW t \in Threads, Inv, NotFound(t), TypeOK'
  PROVE  Inv'
<1> USE DEF Inv, NotFound, Goto, TypeOK
<1>1. Found <=> Found'
  BY DEF Found
<1>2. FlagsPrinciple'
  BY <1>1 DEF FlagsPrinciple, Looking
<1>3. NothingForgotten'
  BY <1>1 DEF NothingForgotten
<1>4. OnlyRecorded'
  BY <1>1 DEF OnlyRecorded
<1>5. IdleIsEmpty' /\ Concluded'
  BY DEF IdleIsEmpty, Concluded, RaceAlwaysFound, NoFalseAlarm
<1> QED
  BY <1>2, <1>3, <1>4, <1>5

(* The threads have ended: every path has been entered and looked up, so a *)
(* module in both sets has been flagged.                                   *)
LEMMA ConcludeStep ==
  ASSUME Inv, Conclude, TypeOK'
  PROVE  Inv'
<1> USE DEF Inv, Conclude, TypeOK, Fallback
<1>1. Found <=> Found'
  BY DEF Found
<1>2. ~module_read_write_intersection => everRead \cap everWritten = {}
  <2> SUFFICES ASSUME ~module_read_write_intersection,
                      NEW p \in everRead \cap everWritten
               PROVE  FALSE
    OBVIOUS
  <2>1. ~Found
    BY DEF Found
  <2>2. p \in module_reads \cap module_writes
    BY <2>1 DEF NothingForgotten, IdleIsEmpty
  <2> QED
    BY <2>1, <2>2 DEF FlagsPrinciple, Looking
<1>3. module_read_write_intersection => everRead \cap everWritten # {}
  BY DEF OnlyRecorded, Found
<1>4. FlagsPrinciple' /\ NothingForgotten'
  BY <1>1 DEF FlagsPrinciple, NothingForgotten, Looking
<1>5. OnlyRecorded' /\ IdleIsEmpty'
  BY <1>1 DEF OnlyRecorded, IdleIsEmpty
<1>6. Concluded'
  BY <1>2, <1>3 DEF Concluded, RaceAlwaysFound, NoFalseAlarm
<1> QED
  BY <1>4, <1>5, <1>6

-----------------------------------------------------------------------------
(* The invariant holds in every reachable state.                           *)
THEOREM Invariance == Spec => []Inv
<1>1. Init => Inv
  BY InitInv
<1>2. Inv /\ [Next]_vars => Inv'
  <2> SUFFICES ASSUME Inv, [Next]_vars PROVE Inv'
    OBVIOUS
  <2>1. TypeOK'
    BY TypeStep DEF Inv
  <2>2. CASE UNCHANGED vars
    BY <2>2 DEF vars, Inv, TypeOK, FlagsPrinciple, NothingForgotten, OnlyRecorded,
                IdleIsEmpty, Concluded, RaceAlwaysFound, NoFalseAlarm, Found, Looking
  <2> QED
    BY <2>1, <2>2, RecordStep, AppendReadStep, AppendWriteStep, LookStep, StoreStep,
       NotFoundStep, ConcludeStep DEF Next
<1> QED
  BY <1>1, <1>2, PTL DEF Spec

(* The types hold in every reachable state.                                *)
THEOREM TypeCorrect == Spec => []TypeOK
<1>1. Inv => TypeOK
  BY DEF Inv
<1> QED
  BY <1>1, Invariance, PTL

(* The parallel outcome is used only if no module was both written and     *)
(* read, by whichever threads and in whatever order of their steps.        *)
THEOREM RacesAreFound == Spec => []RaceAlwaysFound
<1>1. Inv => RaceAlwaysFound
  BY DEF Inv, Concluded
<1> QED
  BY <1>1, Invariance, PTL

(* The sequential fallback is taken only if some module was both written   *)
(* and read.                                                               *)
THEOREM AlarmsAreReal == Spec => []NoFalseAlarm
<1>1. Inv => NoFalseAlarm
  BY DEF Inv, Concluded
<1> QED
  BY <1>1, Invariance, PTL
=============================================================================
