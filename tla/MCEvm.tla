------------------------------- MODULE MCEvm -------------------------------
(* Instances of EvmExecution for TLC: a funded sender, contracts with one  *)
(* slot in use, and addresses nothing exists at.                           *)
EXTENDS EvmExecution

CONSTANTS MCContracts, MCBalance

MCDb == [accounts |-> [a \in {Sender} \cup MCContracts |->
                          IF a = Sender
                          THEN [balance |-> MCBalance, nonce |-> 0, code |-> FALSE]
                          ELSE [balance |-> 1, nonce |-> 1, code |-> TRUE]],
         storage |-> [a \in Addresses |->
                         [k \in Keys |-> IF a \in MCContracts THEN 1 ELSE 0]]]

=============================================================================
