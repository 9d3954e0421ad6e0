---------------------------- MODULE MCMultiWorker ---------------------------
(***************************************************************************)
(* Blocks for TLC.  Two senders: "alice" sends from the Aptos side and is  *)
(* new (sequence number 0, not in the nonce map), "eve" from the Ethereum  *)
(* side (sequence number 1).  Key "m" is Move state, "e" EVM state and "c" *)
(* configuration that both sides read and only cross transactions write.   *)
(***************************************************************************)
EXTENDS MultiWorkerInv

CONSTANT BlockSize  \* user transactions in a block

MCKeys == {"m", "e", "c"}
MCSenders == {"alice", "eve"}

SenderOf == [AptosTx |-> "alice", CrossTxAptosOrigin |-> "alice",
             EthereumTx |-> "eve", CrossTxEthereumOrigin |-> "eve"]
ReadsOf == [AptosTx |-> {"m", "c"}, EthereumTx |-> {"e", "c"},
            CrossTxAptosOrigin |-> {"m", "e"}, CrossTxEthereumOrigin |-> {"m", "e"}]
WritesOf == [AptosTx |-> {"m"}, EthereumTx |-> {"e"},
             CrossTxAptosOrigin |-> {"m", "e"}, CrossTxEthereumOrigin |-> {"e", "c"}]

SeqNo0 == [alice |-> 0, eve |-> 1]
Prev0 == [alice |-> NoNonce, eve |-> 0]

User(type, nonce) ==
  [type |-> type, sender |-> SenderOf[type], nonce |-> nonce,
   reads |-> ReadsOf[type], writes |-> WritesOf[type]]
Checkpoint ==
  [type |-> "StateCheckpoint", sender |-> "alice", nonce |-> 0,
   reads |-> {}, writes |-> {}]
BadSignature == [Checkpoint EXCEPT !.type = "InvalidSignature"]

(* Every sequence of BlockSize user transactions with consecutive nonces,  *)
(* closed by a checkpoint.                                                 *)
InOrder(types) ==
  [i \in 1 .. Len(types) |->
     LET s == SenderOf[types[i]]
     IN  User(types[i],
              SeqNo0[s] + Cardinality({j \in 1 .. i - 1 : SenderOf[types[j]] = s}))]

Call(blk) == [block |-> blk, prevNonce |-> Prev0, seqNo |-> SeqNo0]

GoodStarts ==
  {Call(Append(InOrder(types), Checkpoint)) : types \in [1 .. BlockSize -> UserTypes]}

(* Calls that an input file out of order leads to.                         *)
BadBlocks ==
  { \* a signature that does not verify, behind a transaction at work
    <<User("EthereumTx", 1), BadSignature, Checkpoint>>,
    \* nonce 0 of an account that is in the nonce map
    <<User("EthereumTx", 1), User("EthereumTx", 0), Checkpoint>>,
    \* a nonce gap: the manager waits for ever
    <<User("AptosTx", 0), User("CrossTxAptosOrigin", 2), Checkpoint>>,
    \* nonces in the wrong order for the one pointer that takes them
    <<User("AptosTx", 1), User("AptosTx", 0), Checkpoint>> }

(* An account with sequence number 2 that the reader did not seed: its     *)
(* transaction with nonce 0 is scheduled and discarded.                    *)
Unseeded ==
  [block |-> <<User("AptosTx", 0), User("EthereumTx", 1), Checkpoint>>,
   prevNonce |-> Prev0, seqNo |-> [SeqNo0 EXCEPT !["alice"] = 2]]

MCStarts == GoodStarts \cup {Call(blk) : blk \in BadBlocks} \cup {Unseeded}
=============================================================================
