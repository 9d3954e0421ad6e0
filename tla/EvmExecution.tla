---------------------------- MODULE EvmExecution ----------------------------
(***************************************************************************)
(* Execution of the EVM side of transactions over the overlay state:       *)
(* cfx-evm/src/execution/executor.rs and cfx-evm/src/call_create_frame,    *)
(* with the entries from and to the Move VM (block-executor's aptos_vm.rs, *)
(* the native function call_evm, the internal contract CallToMove).        *)
(*                                                                         *)
(* A transaction is an Ethereum one (`transact`), or a Move one that makes *)
(* calls into the EVM (`cross_vm_call`).  The interpreter is abstract: a   *)
(* frame that runs code may perform any operation that touches the state,  *)
(* in any order, and return or fail at any point, so gas is abstract too.  *)
(* A created contract's address is any of Creatable: a CREATE2 of the same *)
(* code with the same salt by the same creator has the same address each   *)
(* time.  A transaction's own creation has a new one.                      *)
(***************************************************************************)
EXTENDS EvmState

CONSTANTS
    Sender,         \* the account that signs Ethereum transactions
    Cross,          \* CROSS_SPACE_CONTRACT_ADDRESS, an internal contract
    Creatable,      \* addresses of contracts to create
    Values,         \* the amounts a call may send and a slot may hold
    TxValues,       \* the amounts a transaction may send
    GasCost,        \* gas * gas_price of a transaction
    MaxDepth,       \* spec.max_depth; the first frame has depth 0
    MaxCalls,       \* bound on the calls and creations of one transaction
    MaxTxns,        \* bound on the transactions
    InitDb

VARIABLES
    phase,          \* what the transaction is doing
    kind,           \* "eth" or "move"
    frames,         \* the call stack, the running frame last
    tx_substate,    \* the suicides of the transaction
    issued,         \* value brought in by calls from Move
    killed,         \* history: the addresses removed by a commit
    calls, txns     \* how many, for the bounds

vars == <<db, state, phase, kind, frames, tx_substate, issued, killed, calls, txns>>

Phases == {"idle", "running", "returned", "aborting", "executed"}

Frame == [address : Addresses, create : BOOLEAN, static : BOOLEAN,
          internal : BOOLEAN, running : BOOLEAN, value : Values \cup TxValues,
          suicides : SUBSET Addresses]

TypeOK ==
    /\ \A a \in DOMAIN db.accounts : db.accounts[a].balance \in Nat
    /\ \A a \in Addresses : balance_of(state, a) \in Nat
    /\ phase \in Phases /\ kind \in {"eth", "move"}
    /\ frames \in Seq(Frame)
    /\ tx_substate \subseteq Addresses

Init ==
    /\ db = InitDb
    /\ state = Fresh
    /\ phase = "idle" /\ kind = "eth"
    /\ frames = <<>> /\ tx_substate = {}
    /\ issued = 0 /\ killed = {} /\ calls = 0 /\ txns = 0

-----------------------------------------------------------------------------
(* Frames *)

Running == frames[Len(frames)]

NewFrame(s, to, create, static, v) ==
    [address |-> to, create |-> create, static |-> static,
     internal |-> to = Cross, running |-> create \/ to = Cross \/ has_code(s, to),
     value |-> v, suicides |-> {}]

\* new_call_raw and exec: checkpoint, then transfer_exec_balance.
exec_call(s, from, to, v) == transfer_balance(checkpoint(s), from, to, v)

\* new_create_raw and exec: checkpoint, then
\* transfer_exec_balance_and_init_contract.
exec_create(s, from, to, v) ==
    LET c == checkpoint(s)
    IN  new_contract(sub_balance(c, from, v), to, balance_of(c, to) + v, 1)

\* The frame that may perform an operation: it runs code of a contract.
Executing ==
    /\ phase = "running"
    /\ Running.running /\ ~Running.internal

\* Mutant: a call is made without looking at the balance.
CanCall_Unpaid(v) == calls < MaxCalls /\ Len(frames) <= MaxDepth

CanCall(v) ==
    /\ calls < MaxCalls
    /\ Len(frames) <= MaxDepth
    /\ balance_of(state, Running.address) >= v

\* CALL and STATICCALL: the callee works on its own account.  In a static
\* context CALL may send no value; a STATICCALL sends none.
Call(to, v, static) ==
    /\ Executing
    /\ CanCall(v)
    /\ (Running.static \/ static) => v = 0
    /\ state' = exec_call(state, Running.address, to, v)
    /\ frames' = Append(frames, NewFrame(state, to, FALSE, Running.static \/ static, v))
    /\ calls' = calls + 1
    /\ UNCHANGED <<db, phase, kind, tx_substate, issued, killed, txns>>

\* CALLCODE and DELEGATECALL: another contract's code on this account; the
\* former transfers the value from the account to itself, the latter nothing.
\* An internal contract takes no such call: its frame can only fail.
CallCode(code_address, v) ==
    /\ Executing
    /\ CanCall(v)
    /\ state' = exec_call(state, Running.address, Running.address, v)
    /\ frames' = Append(frames,
                    [NewFrame(state, Running.address, FALSE, Running.static, v)
                        EXCEPT !.internal = (code_address = Cross),
                               !.running = code_address = Cross \/ has_code(state, code_address)])
    /\ calls' = calls + 1
    /\ UNCHANGED <<db, phase, kind, tx_substate, issued, killed, txns>>

\* The creator's nonce is incremented before the new frame's checkpoint.
Create(to, v) ==
    /\ Executing
    /\ CanCall(v)
    /\ ~Running.static
    /\ to # Running.address
    /\ LET s == inc_nonce(state, Running.address)
       IN  /\ state' = exec_create(s, Running.address, to, v)
           /\ frames' = Append(frames, NewFrame(s, to, TRUE, FALSE, v))
    /\ calls' = calls + 1
    /\ UNCHANGED <<db, phase, kind, tx_substate, issued, killed, txns>>


SetStorage(k, v) ==
    /\ Executing
    /\ ~Running.static
    /\ state' = set_storage(state, Running.address, k, v)
    /\ UNCHANGED <<db, phase, kind, frames, tx_substate, issued, killed, calls, txns>>

\* The balance is sent or burnt, and the frame runs no further.
Suicide(to) ==
    /\ Executing
    /\ ~Running.static
    /\ LET a == Running.address
           v == balance_of(state, a)
       IN  /\ state' = IF to = a THEN sub_balance(state, a, v)
                       ELSE transfer_balance(state, a, to, v)
           /\ frames' = [frames EXCEPT ![Len(frames)].suicides = @ \cup {a},
                                       ![Len(frames)].running = FALSE]
    /\ UNCHANGED <<db, phase, kind, tx_substate, issued, killed, calls, txns>>

\* accrue_substate: a frame's suicides go to its caller, or to the
\* transaction, when its result carries a substate.
Accrue(suicides) ==
    LET n == Len(frames)
        callers == SubSeq(frames, 1, n - 1)
    IN  /\ frames' = IF n = 1 THEN <<>>
                     ELSE [callers EXCEPT ![n - 1].suicides = @ \cup suicides]
        /\ tx_substate' = IF n = 1 THEN tx_substate \cup suicides ELSE tx_substate

\* Success of a frame on state s: process_return and the caller's resume.
\* The substate of a call from Move is dropped when the call is over.
Succeed(s) ==
    /\ state' = discard_checkpoint(s)
    /\ IF kind = "move" /\ Len(frames) = 1
       THEN frames' = <<>> /\ UNCHANGED tx_substate
       ELSE Accrue(Running.suicides)
    /\ phase' = IF Len(frames) = 1 THEN "returned" ELSE phase

\* An EVM error or revert.  Reported to Move, it aborts the transaction.
Fail ==
    /\ state' = revert_to_checkpoint(state)
    /\ Accrue({})
    /\ phase' = CASE Len(frames) > 1 -> phase
                  [] kind = "eth" -> "returned"
                  [] OTHER -> "aborting"

\* A constructor leaves code when it returns data, and none when it stops or
\* kills its contract.
Return(code) ==
    /\ phase = "running" /\ ~Running.internal
    /\ code => Running.create /\ Running.running
    /\ Succeed(IF code THEN init_code(state, Running.address) ELSE state)
    /\ UNCHANGED <<db, kind, issued, killed, calls, txns>>

\* A frame without code to run does not fail.
Revert ==
    /\ phase = "running" /\ Running.running
    /\ Fail
    /\ UNCHANGED <<db, kind, issued, killed, calls, txns>>

\* CallToMove: the value received leaves the EVM.  There is a Move VM to call
\* in an Ethereum transaction only; its failure, or that of the call, is
\* Revert.
CallMove ==
    /\ phase = "running" /\ Running.internal
    /\ Running.address = Cross
    /\ kind = "eth"
    /\ ~Running.static
    /\ Succeed(sub_balance(state, Cross, Running.value))
    /\ UNCHANGED <<db, kind, issued, killed, calls, txns>>

\* The other functions of the cross-space contract (log, the conversions) take
\* no value and change nothing.
InternalQuery ==
    /\ phase = "running" /\ Running.internal
    /\ Running.address = Cross
    /\ Running.value = 0
    /\ Succeed(state)
    /\ UNCHANGED <<db, kind, issued, killed, calls, txns>>

-----------------------------------------------------------------------------
(* Ethereum transactions *)

\* The address contract_address gives for a sender and its nonce: none was
\* created there, though value may have been sent to it.
NeverCreated(a) ==
    /\ a \notin killed
    /\ exists(state, a) => ensure_account_loaded(state, a).nonce = 0

\* transact_preprocessing when the balance covers fee and value, and exec of
\* the top frame.
transact(to, create, v) ==
    /\ phase = "idle"
    /\ txns < MaxTxns
    /\ create => to \in Creatable /\ NeverCreated(to)
    /\ balance_of(state, Sender) >= GasCost + v
    /\ LET s == sub_balance(inc_nonce(state, Sender), Sender, GasCost)
       IN  /\ state' = IF create THEN exec_create(s, Sender, to, v)
                       ELSE exec_call(s, Sender, to, v)
           /\ frames' = <<NewFrame(s, to, create, FALSE, v)>>
    /\ kind' = "eth" /\ phase' = "running"
    /\ UNCHANGED <<db, tx_substate, issued, killed, calls, txns>>

\* transact_preprocessing when it does not: the fee is charged as far as the
\* balance goes, and nothing runs.
NotEnoughCash(v) ==
    /\ phase = "idle"
    /\ txns < MaxTxns
    /\ exists(state, Sender)
    /\ balance_of(state, Sender) < GasCost + v
    /\ state' = sub_balance(inc_nonce(state, Sender), Sender,
                            Min({GasCost, balance_of(state, Sender)}))
    /\ kind' = "eth" /\ phase' = "executed"
    /\ UNCHANGED <<db, frames, tx_substate, issued, killed, calls, txns>>

\* kill_process
kill_process(s) ==
    FoldSet(LAMBDA a, t : remove_contract(t, a), s, tx_substate)

\* At most a quarter of the fee is refunded; then the suicides.
transact_postprocessing(refund) ==
    /\ phase = "returned" /\ kind = "eth"
    /\ state' = kill_process(add_balance(state, Sender, refund))
    /\ phase' = "executed"
    /\ tx_substate' = {}
    /\ UNCHANGED <<db, kind, frames, issued, killed, calls, txns>>

-----------------------------------------------------------------------------
(* Move transactions *)

\* cross_vm_call: the value is added to the cross-space contract's balance,
\* which is the sender of the call.
cross_vm_call(to, v) ==
    /\ \/ phase = "idle" /\ txns < MaxTxns
       \/ phase = "returned" /\ kind = "move"
    /\ calls < MaxCalls
    /\ LET s == add_balance(state, Cross, v)
       IN  /\ state' = exec_call(s, Cross, to, v)
           /\ frames' = <<NewFrame(s, to, FALSE, FALSE, v)>>
    /\ kind' = "move" /\ phase' = "running"
    /\ issued' = issued + v /\ calls' = calls + 1
    /\ UNCHANGED <<db, tx_substate, killed, txns>>

\* The Move function went on to succeed: success_transaction_cleanup.
MoveSucceeds ==
    /\ phase = "returned" /\ kind = "move"
    /\ phase' = "executed"
    /\ UNCHANGED <<db, state, kind, frames, tx_substate, issued, killed, calls, txns>>

\* The Move function aborted, because of the EVM's result or for another
\* reason: the State is dropped.
MoveAborts ==
    /\ kind = "move" /\ phase \in {"returned", "aborting"}
    /\ state' = Fresh
    /\ phase' = "idle"
    /\ issued' = 0 /\ calls' = 0 /\ txns' = txns + 1
    /\ UNCHANGED <<db, kind, frames, tx_substate, killed>>

Commit ==
    /\ phase = "executed"
    /\ db' = commit(state)
    /\ state' = Fresh
    /\ phase' = "idle"
    /\ killed' = killed \cup (DOMAIN db.accounts \ DOMAIN db'.accounts)
    /\ issued' = 0 /\ calls' = 0 /\ txns' = txns + 1
    /\ UNCHANGED <<kind, frames, tx_substate>>

Next ==
    \/ \E to \in Addresses, v \in Values, static \in BOOLEAN : Call(to, v, static)
    \/ \E a \in Addresses, v \in Values : CallCode(a, v)
    \/ \E a \in Creatable, v \in Values : Create(a, v)
    \/ \E k \in Keys, v \in Values : SetStorage(k, v)
    \/ \E a \in Addresses : Suicide(a)
    \/ \E code \in BOOLEAN : Return(code)
    \/ Revert \/ CallMove \/ InternalQuery
    \/ \E to \in Addresses, create \in BOOLEAN, v \in TxValues : transact(to, create, v)
    \/ \E to \in Addresses, v \in Values : cross_vm_call(to, v)
    \/ \E v \in TxValues : NotEnoughCash(v)
    \/ \E r \in 0..(GasCost \div 4) : transact_postprocessing(r)
    \/ MoveSucceeds \/ MoveAborts \/ Commit

Spec == Init /\ [][Next]_vars

-----------------------------------------------------------------------------
(* Properties *)

\* Every frame has its checkpoint, and none is left when the state is
\* committed: the assertions of State::commit, and the comment of exec that
\* the call stack is always maintained with the checkpoints.
CheckpointPerFrame ==
    /\ Len(state.checkpoints) = Len(frames)
    /\ phase # "running" => frames = <<>>


Total(accounts) == MapThenSumSet(LAMBDA a : accounts[a].balance, DOMAIN accounts)

\* The balances never sum to more than storage holds and calls from Move
\* have brought in: no order of calls, failures and refunds makes value.
NoValueFromNothing == Total(World(state)) <= Total(World(Fresh)) + issued

\* The transaction works as if each frame had a copy of the world of its own.
Marked(i) == UNION ({tx_substate} \cup {frames[j].suicides : j \in 1..(i - 1)})

Worlds == INSTANCE WorldStack WITH
    Values <- Values \cup TxValues,
    committed <- World(Fresh),
    worlds <- [i \in 1..(Len(frames) + 1) |->
                  [accounts |-> WorldAt(state, i), marked |-> Marked(i)]]

WorldPerFrame == Worlds!Spec

\* A contract created where an earlier one was killed has the storage its own
\* writes give it, after the commit as before: the test of
\* kill_account_with_checkpoints says the new contract in the same place
\* should have empty storage, and repeats it on the committed state.
RecreatedIsEmpty ==
    [][Commit => \A a \in killed : has_code(state, a) =>
          \A k \in Keys : storage_at(state, a, k)' = storage_at(state, a, k)]_vars

=============================================================================
