------------------------------- MODULE Blocks -------------------------------
(***************************************************************************)
(* The blocks the multi-worker executor is given, and what it means for   *)
(* one transaction of a block to execute.                                  *)
(*                                                                         *)
(* A transaction is abstracted to its kind, its sender and nonce, and the  *)
(* state keys it reads and writes.  The value of a key is abstracted to    *)
(* its VERSION: the index in the block of the transaction that wrote it,   *)
(* or 0 for the value found in the base view.  What a transaction computes *)
(* is a function of the versions it reads, so two executions in which      *)
(* every transaction reads the same versions have the same outputs.        *)
(***************************************************************************)
EXTENDS Integers, Sequences, FiniteSets

CONSTANTS Keys,     \* the state keys a transaction may read or write
          Senders,  \* the accounts that send transactions
          Starts    \* the situations in which the executor may be called

(***************************************************************************)
(* TxType and the arms of PreprocessedTransaction.  A user transaction     *)
(* whose signature does not verify reaches the executor as                 *)
(* InvalidSignature; it stands for BlockMetadata, WaypointWriteSet and the *)
(* placeholder too, which the same arm panics on.                          *)
(***************************************************************************)
NativeTypes == {"AptosTx", "EthereumTx"}
CrossTypes == {"CrossTxAptosOrigin", "CrossTxEthereumOrigin"}
UserTypes == NativeTypes \cup CrossTypes
TxTypes == UserTypes \cup {"StateCheckpoint", "InvalidSignature"}

(* Account sequence number expected next minus one; NoNonce is an account  *)
(* that the map previous_nonce_per_address does not hold.                  *)
NoNonce == -1

Tx == [type : TxTypes, sender : Senders, nonce : Nat,
       reads : SUBSET Keys, writes : SUBSET Keys]

IsUser(tx) == tx.type \in UserTypes

(* A call of the executor: the block, the nonce map the caller passes in,  *)
(* and the sequence numbers the base view holds.                           *)
ASSUME StartsType ==
  \A st \in Starts : /\ st.block \in Seq(Tx)
                     /\ Len(st.block) > 0
                     /\ st.prevNonce \in [Senders -> Nat \cup {NoNonce}]
                     /\ st.seqNo \in [Senders -> Nat]

(* Move and EVM resources live under different state keys: a native Aptos  *)
(* transaction writes nothing that a native Ethereum transaction reads or  *)
(* writes, and the other way round.  They also have different senders.     *)
ASSUME NativeFootprintsDisjoint ==
  \A st \in Starts : \A i, j \in 1 .. Len(st.block) :
    LET a == st.block[i]  e == st.block[j]
    IN  a.type = "AptosTx" /\ e.type = "EthereumTx" =>
          /\ a.writes \cap (e.reads \cup e.writes) = {}
          /\ e.writes \cap (a.reads \cup a.writes) = {}
          /\ a.sender # e.sender

(***************************************************************************)
(* What the benchmark driver supplies when its input file is in order: the *)
(* StateCheckpoint comes last and only there, each sender's nonces are     *)
(* consecutive from its sequence number, and the nonce map agrees with the *)
(* sequence numbers.                                                       *)
(***************************************************************************)
EarlierOfSender(blk, i) == {j \in 1 .. i - 1 : blk[j].sender = blk[i].sender}

WellFormed(st) ==
  /\ st.block[Len(st.block)].type = "StateCheckpoint"
  /\ \A i \in 1 .. Len(st.block) - 1 :
       /\ IsUser(st.block[i])
       /\ st.block[i].nonce = st.seqNo[st.block[i].sender]
                                + Cardinality(EarlierOfSender(st.block, i))
  /\ \A s \in Senders : st.prevNonce[s] = st.seqNo[s] - 1
=============================================================================
