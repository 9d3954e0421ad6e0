----------------------------- MODULE MCBlockSTM -----------------------------
(***************************************************************************)
(* Small blocks on two plain keys and an aggregator.                       *)
(***************************************************************************)
EXTENDS BlockSTM, TLC

MCKeys == {"a", "b", "g"}
MCStorage == ("a" :> 0) @@ ("b" :> 0) @@ ("g" :> 1)
Limit == 2

None == << >>

(* Add reads and increments a key.  Branch writes one key or another,      *)
(* depending on what it reads: its write set changes between incarnations. *)
(* Bump adds to the aggregator without reading it, Use reads it, Reset     *)
(* writes it or adds to it, and Drop deletes it.  Epoch and Fault may end  *)
(* the block.                                                              *)
MCVM(p, got) ==
  CASE p = "Add" /\ got = << >>    -> Reads("a")
    [] p = "Add"                    -> Ends("Success", "a" :> got[1] + 1, None)
    [] p = "Set"                    -> Ends("Success", ("a" :> 2) @@ ("b" :> 1), None)
    [] p = "Branch" /\ got = << >> -> Reads("a")
    [] p = "Branch"                 -> Ends("Success",
                                            (IF got[1] = 0 THEN "a" ELSE "b") :> 3, None)
    [] p = "Copy" /\ got = << >>   -> Reads("b")
    [] p = "Copy" /\ Len(got) = 1  -> Reads("a")
    [] p = "Copy"                   -> Ends("Success", "b" :> got[1] + got[2], None)
    [] p = "Bump"                   -> Ends("Success", None, "g" :> DeltaOp(1, Limit, 1, 0))
    [] p = "Use" /\ got = << >>    -> Reads("g")
    [] p = "Use"                    -> Ends("Success", "a" :> got[1], None)
    [] p = "Reset" /\ got = << >>  -> Reads("a")
    [] p = "Reset"                  -> IF got[1] = 0
                                       THEN Ends("Success", None, "g" :> DeltaOp(1, Limit, 1, 0))
                                       ELSE Ends("Success", "g" :> 0, None)
    [] p = "Drop"                   -> Ends("Success", "g" :> Gone, None)
    [] p = "Epoch" /\ got = << >>  -> Reads("a")
    [] p = "Epoch"                  -> Ends(IF got[1] = 1 THEN "SkipRest" ELSE "Success",
                                            "b" :> 1, None)
    [] p = "EpochBump"              -> Ends("SkipRest", None, "g" :> DeltaOp(1, Limit, 1, 0))
    [] p = "Fault" /\ got = << >>  -> Reads("a")
    [] p = "Fault"                  -> IF got[1] = 1 THEN Ends("Abort", None, None)
                                       ELSE Ends("Success", "b" :> 1, None)

(* A transaction that others depend on, one whose read and write sets       *)
(* depend on it, and one that reads what they wrote; the last two blocks   *)
(* repeat a program, and the deltas of one of them exceed the limit.       *)
MCBlocks == {<<"Add", "Branch", "Copy">>, <<"Set", "Branch", "Fault">>,
             <<"Set", "Reset", "Use">>,   <<"Drop", "Reset", "Use">>,
             <<"Add", "Epoch", "Fault">>, <<"Drop", "Bump", "Use">>,
             <<"Bump", "Use", "Copy">>,   <<"Add", "Add", "Epoch">>,
             <<"Bump", "Bump", "Bump">>}

(* The block ends with its first transaction.                              *)
EndedBlocks == {<<"EpochBump", "Bump">>}

Interchangeable == Permutations(Threads)
=============================================================================
