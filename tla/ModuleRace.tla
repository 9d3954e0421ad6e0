----------------------------- MODULE ModuleRace -----------------------------
(***************************************************************************)
(* How parallel execution notices that a module may have been published    *)
(* while another transaction used it: TxnLastInputOutput::record enters    *)
(* the module paths that an execution read and wrote into two shared sets, *)
(* and looks each of them up in the other set.  If it finds one, the block *)
(* is executed again sequentially.                                         *)
(*                                                                         *)
(* Each access to a shared set or to the flag is a step.                   *)
(***************************************************************************)
EXTENDS Naturals, FiniteSets

CONSTANTS Threads,      \* the workers
          Modules,      \* module paths
          MaxRecords    \* bound on the executions that are recorded

VARIABLES module_reads, module_writes,
          module_read_write_intersection,
          pc,
          toRead, toWrite,   \* thread -> the paths of its execution still to enter
          path,              \* thread -> the path it has just entered
          everRead, everWritten,   \* the modules of all executions so far
          outcome,           \* of the block, once the threads have ended
          records

vars == <<module_reads, module_writes, module_read_write_intersection, pc,
          toRead, toWrite, path, everRead, everWritten, outcome, records>>

NoModule == "no module"
ASSUME ModulesAssumption == NoModule \notin Modules
ASSUME MaxRecordsAssumption == MaxRecords \in Nat

Init ==
  /\ module_reads = {} /\ module_writes = {}
  /\ module_read_write_intersection = FALSE
  /\ pc = [t \in Threads |-> "idle"]
  /\ toRead = [t \in Threads |-> {}] /\ toWrite = [t \in Threads |-> {}]
  /\ path = [t \in Threads |-> NoModule]
  /\ everRead = {} /\ everWritten = {}
  /\ outcome = "none"
  /\ records = 0

Goto(t, label) == pc' = [pc EXCEPT ![t] = label]

(* An execution has ended: record is called with its reads and its output, *)
(* and loads the flag.                                                     *)
Record(t) ==
  /\ pc[t] = "idle" /\ outcome = "none" /\ records < MaxRecords
  /\ \E r, w \in SUBSET Modules :
       /\ everRead' = everRead \cup r /\ everWritten' = everWritten \cup w
       /\ IF module_read_write_intersection
          THEN UNCHANGED <<pc, toRead, toWrite>>
          ELSE /\ toRead' = [toRead EXCEPT ![t] = r]
               /\ toWrite' = [toWrite EXCEPT ![t] = w]
               /\ Goto(t, "append")
  /\ records' = records + 1
  /\ UNCHANGED <<module_reads, module_writes, module_read_write_intersection, path, outcome>>

(* append_and_check for the reads, then for the writes: first show ...     *)
OnlyLook(set, p) == set
Show(set, p) == set \cup {p}

AppendRead(t) ==
  /\ pc[t] = "append"
  /\ \E p \in toRead[t] :
       /\ module_reads' = Show(module_reads, p)
       /\ toRead' = [toRead EXCEPT ![t] = @ \ {p}]
       /\ path' = [path EXCEPT ![t] = p]
  /\ Goto(t, "check_writes")
  /\ UNCHANGED <<module_writes, module_read_write_intersection, toWrite,
                 everRead, everWritten, outcome, records>>

AppendWrite(t) ==
  /\ pc[t] = "append"
  /\ toRead[t] = {}
  /\ \E p \in toWrite[t] :
       /\ module_writes' = Show(module_writes, p)
       /\ toWrite' = [toWrite EXCEPT ![t] = @ \ {p}]
       /\ path' = [path EXCEPT ![t] = p]
  /\ Goto(t, "check_reads")
  /\ UNCHANGED <<module_reads, module_read_write_intersection, toRead,
                 everRead, everWritten, outcome, records>>

(* ... then look.  The first path found ends both.                         *)
AnyEntered(p, set) == set # {}
Contains(p, set) == p \in set

Look(t, from, set) ==
  /\ pc[t] = from
  /\ path' = [path EXCEPT ![t] = NoModule]
  /\ IF Contains(path[t], set)
     THEN /\ toRead' = [toRead EXCEPT ![t] = {}]
          /\ toWrite' = [toWrite EXCEPT ![t] = {}]
          /\ Goto(t, "store")
     ELSE Goto(t, "append") /\ UNCHANGED <<toRead, toWrite>>
  /\ UNCHANGED <<module_reads, module_writes, module_read_write_intersection,
                 everRead, everWritten, outcome, records>>

Store(t) ==
  /\ pc[t] = "store"
  /\ module_read_write_intersection' = TRUE
  /\ Goto(t, "idle")
  /\ UNCHANGED <<module_reads, module_writes, toRead, toWrite, path,
                 everRead, everWritten, outcome, records>>

(* All paths entered and none found: the input and output are stored.      *)
NotFound(t) ==
  /\ pc[t] = "append" /\ toRead[t] = {} /\ toWrite[t] = {}
  /\ Goto(t, "idle")
  /\ UNCHANGED <<module_reads, module_writes, module_read_write_intersection,
                 toRead, toWrite, path, everRead, everWritten, outcome, records>>

(* The threads have been joined: module_publishing_may_race, and in        *)
(* execute_block the sequential fallback.                                  *)
NoFallback(found) == IF found THEN "ModulePathReadWrite" ELSE "parallel"
Fallback(found) == IF found THEN "sequential" ELSE "parallel"

Conclude ==
  /\ \A t \in Threads : pc[t] = "idle"
  /\ outcome = "none"
  /\ outcome' = Fallback(module_read_write_intersection)
  /\ UNCHANGED <<module_reads, module_writes, module_read_write_intersection, pc,
                 toRead, toWrite, path, everRead, everWritten, records>>

Next ==
  \/ \E t \in Threads :
       \/ Record(t) \/ AppendRead(t) \/ AppendWrite(t)
       \/ Look(t, "check_writes", module_writes) \/ Look(t, "check_reads", module_reads)
       \/ Store(t) \/ NotFound(t)
  \/ Conclude

Spec == Init /\ [][Next]_vars

-----------------------------------------------------------------------------
(* The types of the shared sets and of the threads' progress.              *)
TypeOK ==
  /\ module_reads \subseteq Modules /\ module_writes \subseteq Modules
  /\ module_read_write_intersection \in BOOLEAN
  /\ pc \in [Threads -> {"idle", "append", "check_writes", "check_reads", "store"}]
  /\ toRead \in [Threads -> SUBSET Modules] /\ toWrite \in [Threads -> SUBSET Modules]
  /\ path \in [Threads -> Modules \cup {NoModule}]
  /\ everRead \subseteq Modules /\ everWritten \subseteq Modules
  /\ outcome \in {"none", "parallel", "sequential"}
  /\ records \in 0 .. MaxRecords

(***************************************************************************)
(* The outcome of parallel execution is used only when no execution in     *)
(* the block, speculative ones included, wrote a module that an execution  *)
(* read: "The intersection is guaranteed to be found because we first      *)
(* record the paths then check the other set (flags principle)".  An       *)
(* execution that finds the flag set enters nothing, and one that finds a  *)
(* path enters no further ones.                                            *)
(***************************************************************************)
RaceAlwaysFound == outcome = "parallel" => everRead \cap everWritten = {}

(* The block is executed again only when some execution did write a module *)
(* that some execution read: record never sets the flag for unrelated      *)
(* paths.                                                                  *)
NoFalseAlarm == outcome = "sequential" => everRead \cap everWritten # {}
=============================================================================
