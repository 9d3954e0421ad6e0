----------------------------- MODULE Aggregator -----------------------------
(***************************************************************************)
(* The aggregators of one Aptos transaction: AggregatorData and the native *)
(* functions on it, the change set of the user's session, the epilogue's   *)
(* session on top of it, and the squash of the two.                        *)
(*                                                                         *)
(* Beside what the code keeps, the variable eager follows every aggregator *)
(* with the arithmetic that a plain integer would have: the value it has   *)
(* now as a function of the value found in storage, and Err from the first *)
(* operation on that leaves 0 .. Limit.                                    *)
(***************************************************************************)
EXTENDS Deltas, FiniteSets

CONSTANTS Limit,    \* the limit of every aggregator
          Stored,   \* the aggregators that exist before the transaction
          Values,   \* the arguments of add and sub
          MaxOps    \* bound on native calls in the transaction

ASSUME LimitAssumption == Limit \in Nat
ASSUME ValuesAssumption == Values \subseteq Nat
ASSUME MaxOpsAssumption == MaxOps \in Nat

VARIABLES phase,      \* how far the transaction is
          aggregators, newAggregators, destroyed,   \* AggregatorData
          storage,    \* the values that the transaction's view holds
          view,       \* the values that the session's resolver finds
          changes,    \* the change set made so far
          output,     \* the values that the transaction writes
          live,       \* Move structs Aggregator in existence, per id
          clash,      \* a new aggregator got the id of a live one
          eager,      \* what the session's operations come to, exactly
          prior,      \* eager of the user's session
          ops

vars == <<phase, aggregators, newAggregators, destroyed, storage, view,
          changes, output, live, clash, eager, prior, ops>>

(* A new aggregator's key is the hash of the transaction and a number.     *)
NewId(n) == [hash |-> n]

ASSUME StoredAssumption == \A n \in 0 .. MaxOps : NewId(n) \notin Stored

Ids == Stored \cup {NewId(n) : n \in 0 .. MaxOps}

Base == 0 .. Limit
NotFound == Err    \* the resolver has no such entry
Result == Base \cup {Err}

States == {"Data", "PositiveDelta", "NegativeDelta"}
Agg(state, value, max, min) ==
  [state |-> state, value |-> value, maxPositive |-> max, minNegative |-> min]

Failed(a) == a.value = Err

-----------------------------------------------------------------------------
(* Aggregator.  An operation that returns an error yields a value of Err;  *)
(* history None is a history of zeros.                                     *)

Now(a, state, value) == Agg(state, value, a.maxPositive, a.minNegative)

RecordLast(a) ==
  Agg(a.state, a.value,
      IF a.state = "PositiveDelta" THEN a.value ELSE a.maxPositive,
      IF a.state = "NegativeDelta" THEN a.value ELSE a.minNegative)

RecordUnsigned(a) ==
  Agg(a.state, a.value, Larger(a.maxPositive, a.value), Larger(a.minNegative, a.value))

record(a) ==
  Agg(a.state, a.value,
      IF a.state = "PositiveDelta" THEN Larger(a.maxPositive, a.value)
                                   ELSE a.maxPositive,
      IF a.state = "NegativeDelta" THEN Larger(a.minNegative, a.value)
                                   ELSE a.minNegative)

add(a, v) ==
  CASE a.state = "Data" ->
         Now(a, "Data", addition(a.value, v, Limit))
    [] a.state = "PositiveDelta" ->
         record(Now(a, "PositiveDelta", addition(a.value, v, Limit)))
    [] a.state = "NegativeDelta" /\ a.value <= v ->
         record(Now(a, "PositiveDelta", subtraction(v, a.value)))
    [] a.state = "NegativeDelta" /\ a.value > v ->
         record(Now(a, "NegativeDelta", subtraction(a.value, v)))

sub(a, v) ==
  CASE a.state = "Data" ->
         Now(a, "Data", subtraction(a.value, v))
    [] a.state = "PositiveDelta" /\ a.value >= v ->
         record(Now(a, "PositiveDelta", subtraction(a.value, v)))
    [] a.state = "PositiveDelta" /\ a.value < v ->
         IF subtraction(Limit, v) = Err
         THEN Now(a, "PositiveDelta", Err)
         ELSE record(Now(a, "NegativeDelta", subtraction(v, a.value)))
    [] a.state = "NegativeDelta" ->
         record(Now(a, "NegativeDelta", addition(a.value, v, Limit)))

Signed(a) == IF a.state = "NegativeDelta" THEN -a.value ELSE a.value

read_and_materialize(a, base) ==
  CASE a.state = "Data" -> a
    [] a.state # "Data" /\ \/ base = NotFound
                           \/ addition(base, a.maxPositive, Limit) = Err
                           \/ subtraction(base, a.minNegative) = Err ->
         Now(a, a.state, Err)
    [] OTHER -> Agg("Data", Update(base, Signed(a), Limit), 0, 0)

-----------------------------------------------------------------------------
(* A change to one aggregator's entry in storage, as AggregatorChange and  *)
(* then as a WriteOp or a DeltaOp.                                         *)

Change(op, value, delta) == [op |-> op, value |-> value, delta |-> delta]
NoChange == Change("None", 0, NoDelta)
Write(v) == Change("Write", v, NoDelta)
Delete == Change("Delete", 0, NoDelta)
Merge(d) == Change("Merge", 0, d)
Bail == Change("Bail", 0, NoDelta)

into_change_set ==
  [id \in Ids |->
     IF id \in destroyed THEN Delete
     ELSE IF id \notin DOMAIN aggregators THEN NoChange
     ELSE LET a == aggregators[id]
          IN  IF a.state = "Data" THEN Write(a.value)
              ELSE Merge(DeltaOp(Signed(a), Limit, a.maxPositive, a.minNegative))]

(* What the entry holds after the change: a value, NotFound, or Err if the *)
(* delta cannot be applied.                                                *)
Applied(c, base) ==
  CASE c.op = "None" -> base
    [] c.op = "Write" -> c.value
    [] c.op = "Merge" -> IF base = NotFound THEN Err ELSE apply_to(c.delta, base)
    [] OTHER -> NotFound

DeltaFails(cs, base) ==
  \E id \in Ids : cs[id].op = "Merge" /\ Applied(cs[id], base[id]) = Err

(* squash_change_set: the writes of the second change set.                 *)
SquashWrite(c1, c2) == IF c1.op = "Delete" THEN Bail ELSE c2

(* squash_delta_change_set: its deltas.                                    *)
SquashDeltaSwapped(c1, c2) ==
  IF c1.op = "Merge" THEN Merge(merge_onto(c1.delta, c2.delta)) ELSE c2

SquashDelta(c1, c2) ==
  CASE c1.op = "Write" -> IF apply_to(c2.delta, c1.value) = Err THEN Bail
                          ELSE Write(apply_to(c2.delta, c1.value))
    [] c1.op = "Delete" -> Bail
    [] c1.op = "Merge" -> IF merge_onto(c2.delta, c1.delta) = NoDelta THEN Bail
                          ELSE Merge(merge_onto(c2.delta, c1.delta))
    [] OTHER -> c2

squash(c1, c2) ==
  CASE c2.op = "None" -> c1
    [] c2.op = "Merge" -> SquashDelta(c1, c2)
    [] OTHER -> SquashWrite(c1, c2)

-----------------------------------------------------------------------------
(* The exact semantics that the lazy one is compared with.                 *)

EagerAdd(x, v) == IF x = Err \/ x + v > Limit THEN Err ELSE x + v
EagerSub(x, v) == IF x = Err \/ x < v THEN Err ELSE x - v
Unchanged == [b \in Base |-> b]
Constantly(x) == [b \in Base |-> x]

(* The value now, of the aggregator as it really is in storage.            *)
Actual(id) == eager[id][IF view[id] = NotFound THEN 0 ELSE view[id]]

Running == phase \in {"user", "epilogue"}

Init ==
  /\ phase = "user"
  /\ aggregators = [id \in {} |-> NoChange]
  /\ newAggregators = {}
  /\ destroyed = {}
  /\ \E base \in [Stored -> Base] :
       storage = [id \in Ids |-> IF id \in Stored THEN base[id] ELSE NotFound]
  /\ view = storage
  /\ changes = [id \in Ids |-> NoChange]
  /\ output = [id \in Ids |-> NotFound]
  /\ live = [id \in Ids |-> IF id \in Stored THEN 1 ELSE 0]
  /\ clash = FALSE
  /\ eager = [id \in Ids |-> Unchanged]
  /\ prior = [id \in Ids |-> Unchanged]
  /\ ops = 0

NativeCall == Running /\ ops < MaxOps /\ ops' = ops + 1

Insert(id, a) ==
  aggregators' = [i \in DOMAIN aggregators \cup {id} |->
                    IF i = id THEN a ELSE aggregators[i]]

(* native_new_aggregator: the number in the key is num_aggregators().      *)
native_new_aggregator ==
  LET id == NewId(Cardinality(DOMAIN aggregators))
  IN  /\ NativeCall
      /\ phase = "user"
      /\ Insert(id, Agg("Data", 0, 0, 0))
      /\ newAggregators' = newAggregators \cup {id}
      /\ live' = [live EXCEPT ![id] = @ + 1]
      /\ clash' = (clash \/ live[id] > 0)
      /\ eager' = [eager EXCEPT ![id] = Constantly(0)]
      /\ UNCHANGED <<phase, destroyed, storage, view, changes, output, prior>>

get_aggregator(id) ==
  IF id \in DOMAIN aggregators THEN aggregators[id]
  ELSE Agg("PositiveDelta", 0, 0, 0)

(* The call's error aborts the transaction.                                *)
CallOn(id, a) ==
  /\ NativeCall
  /\ live[id] > 0
  /\ Insert(id, a)
  /\ phase' = IF Failed(a) THEN "aborted" ELSE phase
  /\ UNCHANGED <<newAggregators, destroyed, storage, view, changes, output,
                 live, clash, prior>>

native_add(id, v) ==
  /\ CallOn(id, add(get_aggregator(id), v))
  /\ eager' = [eager EXCEPT ![id] = [b \in Base |-> EagerAdd(@[b], v)]]

native_sub(id, v) ==
  /\ CallOn(id, sub(get_aggregator(id), v))
  /\ eager' = [eager EXCEPT ![id] = [b \in Base |-> EagerSub(@[b], v)]]

native_read(id) ==
  /\ CallOn(id, read_and_materialize(get_aggregator(id), view[id]))
  /\ eager' = [eager EXCEPT ![id] = Constantly(Actual(id))]

native_destroy(id) ==
  /\ NativeCall
  /\ live[id] > 0
  /\ aggregators' = [i \in DOMAIN aggregators \ {id} |-> aggregators[i]]
  /\ newAggregators' = newAggregators \ {id}
  /\ destroyed' = IF id \in newAggregators THEN destroyed
                  ELSE destroyed \cup {id}
  /\ live' = [live EXCEPT ![id] = @ - 1]
  /\ UNCHANGED <<phase, storage, view, changes, output, clash, eager, prior>>

(* success_transaction_cleanup: the deltas of the user's session are       *)
(* applied to storage for the epilogue to see; one that fails is a panic.  *)
FinishUser ==
  /\ phase = "user"
  /\ changes' = into_change_set
  /\ IF DeltaFails(into_change_set, view)
     THEN /\ phase' = "panicked"
          /\ UNCHANGED <<view, prior, eager>>
     ELSE /\ phase' = "epilogue"
          /\ view' = [id \in Ids |-> Applied(into_change_set[id], view[id])]
          /\ prior' = eager
          /\ eager' = [id \in Ids |-> Unchanged]
  /\ aggregators' = [id \in {} |-> NoChange]
  /\ newAggregators' = {}
  /\ destroyed' = {}
  /\ UNCHANGED <<storage, output, live, clash, ops>>

FinishEpilogue ==
  LET squashed == [id \in Ids |-> squash(changes[id], into_change_set[id])]
  IN  /\ phase = "epilogue"
      /\ changes' = squashed
      /\ phase' = IF \E id \in Ids : squashed[id] = Bail
                  THEN "squash_error" ELSE "squashed"
      /\ UNCHANGED <<aggregators, newAggregators, destroyed, storage, view,
                     output, live, clash, eager, prior, ops>>

(* into_transaction_output, or the OutputDeltaResolver at the end of a     *)
(* parallel block: the squashed deltas become writes, or a panic.          *)
Materialize ==
  LET written == [id \in Ids |-> Applied(changes[id], storage[id])]
  IN  /\ phase = "squashed"
      /\ IF DeltaFails(changes, storage)
         THEN /\ phase' = "panicked"
              /\ UNCHANGED output
         ELSE /\ phase' = "output"
              /\ output' = written
      /\ UNCHANGED <<aggregators, newAggregators, destroyed, storage, view,
                     changes, live, clash, eager, prior, ops>>

Next ==
  \/ native_new_aggregator
  \/ \E id \in Ids :
       \/ \E v \in Values : native_add(id, v) \/ native_sub(id, v)
       \/ native_read(id)
       \/ native_destroy(id)
  \/ FinishUser
  \/ FinishEpilogue
  \/ Materialize

Spec == Init /\ [][Next]_vars

-----------------------------------------------------------------------------
IsAgg(a) ==
  a \in [state : States, value : Nat, maxPositive : Nat, minNegative : Nat]

TypeOK ==
  /\ phase \in {"user", "epilogue", "squashed", "output", "aborted",
                "squash_error", "panicked"}
  /\ DOMAIN aggregators \subseteq Ids
  /\ phase # "aborted" => \A id \in DOMAIN aggregators : IsAgg(aggregators[id])
  /\ newAggregators \subseteq Ids
  /\ destroyed \subseteq Ids
  /\ storage \in [Ids -> Result]
  /\ view \in [Ids -> Result]
  /\ output \in [Ids -> Result]
  /\ live \in [Ids -> Nat]
  /\ clash \in BOOLEAN
  /\ eager \in [Ids -> [Base -> Result]]
  /\ prior \in [Ids -> [Base -> Result]]
  /\ ops \in 0 .. MaxOps

(* The delta with its history, or the value, that an aggregator has after  *)
(* any sequence of add, sub and read stands for exactly what the same      *)
(* operations do to a checked integer: for every value that storage may    *)
(* hold it gives the same value, and it fails to apply if and only if one  *)
(* of the operations left 0 .. Limit.                                      *)
LazyIsEager ==
  Running /\ ~clash =>
    \A id \in DOMAIN aggregators : \A b \in Base :
      LET a == aggregators[id]
      IN  eager[id][b] =
            IF a.state = "Data" THEN a.value
            ELSE apply_to(DeltaOp(Signed(a), Limit, a.maxPositive, a.minNegative), b)

(* A transaction fails on account of an aggregator (a native call aborts   *)
(* it, the change sets do not squash, or a delta does not apply and the    *)
(* executor panics) only if an operation really left 0 .. Limit: deferring *)
(* the check never fails a transaction that checked integers would pass.   *)
FailsOnlyIfEager ==
  phase \in {"aborted", "squash_error", "panicked"} /\ ~clash =>
    \E id \in Ids : Actual(id) = Err

(* The change set squashed from the user's session and the epilogue's has, *)
(* on every storage value on which the user's session succeeds, the effect *)
(* of the epilogue's operations after the user's.                          *)
SquashComposes ==
  phase = "squashed" /\ ~clash =>
    \A id \in {i \in Ids : live[i] > 0} : \A b \in Base :
      prior[id][b] # Err => Applied(changes[id], b) = eager[id][prior[id][b]]

(* The value written for a surviving aggregator is the exact one; nothing  *)
(* that overflowed or underflowed on the way is ever written.              *)
OutputIsEager ==
  phase = "output" /\ ~clash =>
    \A id \in Ids : output[id] = IF live[id] > 0 THEN Actual(id) ELSE NotFound

(* "Unique key associated with each aggregator instance" (AggregatorID).   *)
KeysUnique == \A id \in Ids : live[id] <= 1
=============================================================================
