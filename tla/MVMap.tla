------------------------------- MODULE MVMap -------------------------------
(***************************************************************************)
(* MVHashMap, the multi-version map through which the transactions of a    *)
(* block see each other's writes and deltas while they execute in          *)
(* parallel.                                                               *)
(*                                                                         *)
(* The map of a key is a function from transactions to entries, NoEntry    *)
(* where the BTreeMap has none.  Each operation on a key is one step: an   *)
(* insertion or a deletion locks the shard of the DashMap, and what        *)
(* mark_estimate, with a shared reference, may change while a read goes    *)
(* through the entries is one flag, which that read has met or not.        *)
(***************************************************************************)
EXTENDS Deltas

Gone == -2    \* the value of a write that deletes the key

Entry(kind, incarnation, value, delta) ==
  [kind |-> kind, estimate |-> FALSE, incarnation |-> incarnation,
   value |-> value, delta |-> delta]

NoEntry == Entry("none", 0, Gone, NoDelta)
WriteEntry(incarnation, value) == Entry("write", incarnation, value, NoDelta)
DeltaEntry(delta) == Entry("delta", 0, Gone, delta)

(* The assertion in add_write.                                             *)
MayAddWrite(old, incarnation) == old.kind = "write" => old.incarnation < incarnation

add_write(map, i, incarnation, value) == [map EXCEPT ![i] = WriteEntry(incarnation, value)]
add_delta(map, i, delta) == [map EXCEPT ![i] = DeltaEntry(delta)]
mark_estimate(map, i) == [map EXCEPT ![i].estimate = TRUE]
delete(map, i) == [map EXCEPT ![i] = NoEntry]

-----------------------------------------------------------------------------
(* What read returns: an MVHashMapOutput or an MVHashMapError.             *)

Result(kind, txn, incarnation, value, delta) ==
  [kind |-> kind, txn |-> txn, incarnation |-> incarnation,
   value |-> value, delta |-> delta]

Version(txn, incarnation, value) == Result("Version", txn, incarnation, value, NoDelta)
Resolved(value) == Result("Resolved", 0, 0, value, NoDelta)
Dependency(txn) == Result("Dependency", txn, 0, Gone, NoDelta)
Unresolved(delta) == Result("Unresolved", 0, 0, Gone, delta)
NotFound == Result("NotFound", 0, 0, Gone, NoDelta)
DeltaApplicationFailure == Result("DeltaApplicationFailure", 0, 0, Gone, NoDelta)

(* The traversal goes down from the reader, NotFound or Unresolved with    *)
(* the deltas met so far, until an entry decides the answer.               *)
Going(r) == r.kind \in {"NotFound", "Unresolved"}

VisitDelta(r, delta) ==
  LET merged == merge_onto(r.delta, delta) IN
  CASE r.kind = "NotFound" -> Unresolved(delta)
    [] merged = NoDelta    -> DeltaApplicationFailure
    [] OTHER               -> Unresolved(merged)

VisitWrite(r, j, entry) ==
  LET value == apply_to(r.delta, entry.value) IN
  CASE r.kind = "NotFound" \/ entry.value = Gone -> Version(j, entry.incarnation, entry.value)
    [] value = Err -> DeltaApplicationFailure
    [] OTHER       -> Resolved(value)

Visit(r, j, entry) ==
  CASE ~Going(r) \/ entry.kind = "none" -> r
    [] entry.estimate       -> Dependency(j)
    [] entry.kind = "write" -> VisitWrite(r, j, entry)
    [] OTHER                -> VisitDelta(r, entry.delta)

read(map, i) ==
  LET down[j \in 0 .. i] == IF j = i THEN NotFound ELSE Visit(down[j + 1], j, map[j])
  IN  down[0]
=============================================================================
