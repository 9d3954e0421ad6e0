-------------------------- MODULE SerialExecution --------------------------
(***************************************************************************)
(* What a transaction of a block does to the state, and the execution of a *)
(* block one transaction after the other: execute_transactions_sequential, *)
(* the path taken with one thread and after a module publishing race.      *)
(*                                                                         *)
(* A transaction is what the VM makes of it: VM(p, seen) is what program p *)
(* does when its reads so far returned seen, either the key it reads next  *)
(* or its output.                                                          *)
(***************************************************************************)
EXTENDS MVMap, Sequences

CONSTANTS Keys,       \* the state keys
          Storage,    \* the value of each key in the base view, or Gone
          VM(_, _)    \* external: a program, one read after the other

Step(key, output) == [key |-> key, output |-> output]
NoKey == "no key"
NoOutput == [status |-> "none", writes |-> << >>, deltas |-> << >>]

Output(status, writes, deltas) ==
  [status |-> status, writes |-> writes, deltas |-> deltas]
Reads(key) == Step(key, NoOutput)
Ends(status, writes, deltas) == Step(NoKey, Output(status, writes, deltas))

(* The output of a program in a store, with its reads on the way.          *)
InStore(p, store) ==
  LET run[seen \in Seq(Int)] ==
        LET step == VM(p, seen) IN
        IF step.key = NoKey THEN step.output ELSE run[Append(seen, store[step.key])]
  IN  run[<< >>]

(* into_transaction_output: each delta becomes the write of its result.    *)
Overlay(f, g) == [k \in DOMAIN f \cup DOMAIN g |-> IF k \in DOMAIN g THEN g[k] ELSE f[k]]

DeltaFails(delta, value) == value = Gone \/ apply_to(delta, value) = Err

Materialized(deltas, store) == [k \in DOMAIN deltas |-> apply_to(deltas[k], store[k])]

(* The outcome of a block: the writes of the transactions before the one   *)
(* that ends it, an error, or a panic.                                     *)
Outcome(kind, writes) == [kind |-> kind, writes |-> writes]

(* Transactions 0 .. n-1 of the block, and whether the block has ended.    *)
Sequential(block) ==
  LET Execute(r, p) ==
        LET out == InStore(p, r.store)
            failed == \E k \in DOMAIN out.deltas : DeltaFails(out.deltas[k], r.store[k])
            writes == Overlay(out.writes, Materialized(out.deltas, r.store))
        IN  CASE r.kind # "Success"     -> r
              [] out.status = "Abort"   -> [r EXCEPT !.kind = "Abort"]
              [] failed                 -> [r EXCEPT !.kind = "panic"]
              [] OTHER -> [kind |-> out.status, store |-> Overlay(r.store, writes),
                           outputs |-> Append(r.outputs, writes)]
      after[n \in 0 .. Len(block)] ==
        IF n = 0 THEN [kind |-> "Success", store |-> Storage, outputs |-> << >>]
                 ELSE Execute(after[n - 1], block[n])
      last == after[Len(block)]
  IN  CASE last.kind \in {"Abort", "panic"} -> Outcome(last.kind, << >>)
        [] OTHER                            -> Outcome("Ok", last.outputs)
=============================================================================
