------------------------------ MODULE EvmState ------------------------------
(***************************************************************************)
(* The overlay state of the embedded EVM: cfx-evm/src/state.  A `State` is *)
(* built for one transaction over the key-value view of the Move storage   *)
(* (`db`), keeps every account it touches in `cache`, and remembers in a   *)
(* stack of `checkpoints` the entry an account had before its first change *)
(* since the checkpoint was made.                                          *)
(*                                                                         *)
(* The operations are operators from a state s = [cache, checkpoints] to   *)
(* the state after them: the call frames (module EvmExecution) perform     *)
(* several of them in one step.                                            *)
(*                                                                         *)
(* What is abstracted.  A read puts a clean copy of the db's account in    *)
(* the cache, and a storage read fills the account's read cache; the db    *)
(* does not change while a state is in use, so a copy is what the db       *)
(* holds, and the model reads the db instead.  The Clean and Dirty marks   *)
(* are then of no consequence: `commit` writes every entry of the cache,   *)
(* and a clean one is what the db holds.  `checkpoint` entries are never   *)
(* `None` here: the only operation that changes an account it has not      *)
(* loaded is `remove_contract`, which runs when no checkpoint is left.     *)
(* Code is present or absent.  `total_issued_tokens` stays 0.              *)
(***************************************************************************)
EXTENDS Integers, Sequences, FiniteSetsExt

CONSTANTS
    Addresses,      \* the accounts of the EVM space
    Builtin,        \* those whose type bits say builtin: a created one may too
    Keys,           \* the storage slots of an account
    None            \* the missing account of an Option

VARIABLES
    db,             \* [accounts, storage]: what the Move storage holds
    state           \* [cache, checkpoints]: the State of the transaction

With(f, a, v) == [x \in DOMAIN f \cup {a} |-> IF x = a THEN v ELSE f[x]]

\* Mutant: the newer entry replaces the one saved first.
or_insert_Newest(f, a, v) == With(f, a, v)

\* HashMap's entry(a).or_insert(v)
or_insert(f, a, v) == IF a \in DOMAIN f THEN f ELSE With(f, a, v)

Fresh == [cache |-> <<>>, checkpoints |-> <<>>]

-----------------------------------------------------------------------------
(* OverlayAccount *)

new_account(balance, nonce, code, created, invalidated) ==
    [balance |-> balance, nonce |-> nonce, code |-> code,
     is_newly_created_contract |-> created, invalidated_storage |-> invalidated,
     write_cache |-> <<>>]

from_loaded(acc) == new_account(acc.balance, acc.nonce, acc.code, FALSE, FALSE)

new_basic == new_account(0, 0, FALSE, FALSE, FALSE)

new_removed == new_account(0, 0, FALSE, FALSE, TRUE)

fresh_storage(acc, a) ==
    \/ acc.is_newly_created_contract /\ a \notin Builtin
    \/ acc.invalidated_storage

removed_without_update(acc) ==
    /\ acc.invalidated_storage
    /\ acc.balance = 0 /\ acc.nonce = 0 /\ ~acc.code

\* What a slot holds for the account `acc` at address a.
StorageOf(acc, a, k) ==
    IF k \in DOMAIN acc.write_cache THEN acc.write_cache[k]
    ELSE IF fresh_storage(acc, a) THEN 0 ELSE db.storage[a][k]

-----------------------------------------------------------------------------
(* Reading and changing one account *)

ensure_account_loaded(s, a) ==
    IF a \in DOMAIN s.cache THEN s.cache[a]
    ELSE IF a \in DOMAIN db.accounts THEN from_loaded(db.accounts[a]) ELSE None

exists(s, a) == ensure_account_loaded(s, a) # None

balance_of(s, a) ==
    IF exists(s, a) THEN ensure_account_loaded(s, a).balance ELSE 0

has_code(s, a) == exists(s, a) /\ ensure_account_loaded(s, a).code

storage_at(s, a, k) ==
    IF exists(s, a) THEN StorageOf(ensure_account_loaded(s, a), a, k) ELSE 0

\* The entry before the change goes into the last checkpoint, unless the
\* checkpoint already has one for the account.
update_cache(s, a, acc) ==
    LET n == Len(s.checkpoints)
    IN  [cache |-> With(s.cache, a, acc),
         checkpoints |->
            IF n = 0 THEN s.checkpoints
            ELSE [s.checkpoints EXCEPT ![n] =
                     or_insert(@, a, ensure_account_loaded(s, a))]]

require_or_new_basic_account(s, a) ==
    IF exists(s, a) THEN ensure_account_loaded(s, a) ELSE new_basic

inc_nonce(s, a) ==
    LET acc == require_or_new_basic_account(s, a)
    IN  update_cache(s, a, [acc EXCEPT !.nonce = @ + 1])

\* require_exists, and the assertion that the balance covers `by`, hold when
\* the balances stay natural numbers (TypeOK).
sub_balance(s, a, by) ==
    IF by = 0 THEN s
    ELSE update_cache(s, a, [ensure_account_loaded(s, a) EXCEPT !.balance = @ - by])

add_balance(s, a, by) ==
    IF by = 0 THEN s
    ELSE LET acc == require_or_new_basic_account(s, a)
         IN  update_cache(s, a, [acc EXCEPT !.balance = @ + by])

\* Mutant: both balances are read before either is written.
transfer_balance_Stale(s, from, to, by) ==
    LET before == require_or_new_basic_account(s, to)
    IN  IF by = 0 THEN s
        ELSE update_cache(sub_balance(s, from, by), to, [before EXCEPT !.balance = @ + by])

transfer_balance(s, from, to, by) ==
    add_balance(sub_balance(s, from, by), to, by)

\* The account is replaced: nothing of an earlier one but a killed one's
\* mark, which says its storage is to be forgotten, survives.
new_contract(s, a, balance, nonce) ==
    LET killed == exists(s, a) /\ ensure_account_loaded(s, a).invalidated_storage
    IN  update_cache(s, a, new_account(balance, nonce, FALSE, TRUE, killed))

init_code(s, a) ==
    LET acc == ensure_account_loaded(s, a)
    IN  update_cache(s, a, [acc EXCEPT !.code = TRUE])

set_storage(s, a, k, v) ==
    IF storage_at(s, a, k) = v THEN s
    ELSE LET acc == ensure_account_loaded(s, a)
         IN  update_cache(s, a, [acc EXCEPT !.write_cache = With(@, k, v)])

remove_contract(s, a) == update_cache(s, a, new_removed)

-----------------------------------------------------------------------------
(* Checkpoints *)

checkpoint(s) == [s EXCEPT !.checkpoints = Append(@, <<>>)]

\* The last checkpoint is merged into the one before: the older entry wins.
discard_checkpoint(s) ==
    LET n == Len(s.checkpoints)
        last == s.checkpoints[n]
        older == SubSeq(s.checkpoints, 1, n - 1)
        merged == [a \in DOMAIN older[n - 1] \cup DOMAIN last |->
                      IF a \in DOMAIN older[n - 1] THEN older[n - 1][a] ELSE last[a]]
    IN  [s EXCEPT !.checkpoints =
            IF n = 1 THEN older ELSE [older EXCEPT ![n - 1] = merged]]

\* Mutant: the checkpoint reverted to is not removed.
revert_to_checkpoint_Kept(s) ==
    LET last == s.checkpoints[Len(s.checkpoints)]
    IN  [s EXCEPT !.cache = [a \in DOMAIN @ |-> IF a \in DOMAIN last THEN last[a] ELSE @[a]]]

revert_to_checkpoint(s) ==
    LET n == Len(s.checkpoints)
        last == s.checkpoints[n]
    IN  [cache |-> [a \in DOMAIN s.cache |->
                       IF a \in DOMAIN last THEN last[a] ELSE s.cache[a]],
         checkpoints |-> SubSeq(s.checkpoints, 1, n - 1)]

-----------------------------------------------------------------------------
(* Commit *)

\* A killed account's own key is all that is deleted: the deletion of its
\* storage keys is commented out in recycle_storage.
recycle_storage(accounts, killed) ==
    [a \in DOMAIN accounts \ killed |-> accounts[a]]

commit(s) ==
    LET loaded == {a \in DOMAIN s.cache : s.cache[a] # None}
        killed == {a \in loaded : removed_without_update(s.cache[a])}
        set == loaded \ killed
        slot(a, k) == IF a \in set /\ k \in DOMAIN s.cache[a].write_cache
                      THEN s.cache[a].write_cache[k] ELSE db.storage[a][k]
    IN  [accounts |->
            recycle_storage(
                [a \in DOMAIN db.accounts \cup set |->
                    IF a \in set THEN [balance |-> s.cache[a].balance,
                                       nonce |-> s.cache[a].nonce,
                                       code |-> s.cache[a].code]
                    ELSE db.accounts[a]],
                killed),
         storage |-> [a \in Addresses |-> [k \in Keys |-> slot(a, k)]]]

-----------------------------------------------------------------------------
(* What a reader of the state sees *)

\* The entry of a when the checkpoint n was made: the oldest one saved since.
EntryAt(s, n, a) ==
    LET saved == {i \in n..Len(s.checkpoints) : a \in DOMAIN s.checkpoints[i]}
    IN  IF saved = {} THEN ensure_account_loaded(s, a)
        ELSE s.checkpoints[Min(saved)][a]

\* The accounts, with their storage, as of checkpoint n.
\* WorldAt(s, Len(s.checkpoints) + 1) is the present.
WorldAt(s, n) ==
    LET entry(a) == EntryAt(s, n, a)
        alive == {a \in Addresses :
                     entry(a) # None /\ ~removed_without_update(entry(a))}
    IN  [a \in alive |->
            [balance |-> entry(a).balance, nonce |-> entry(a).nonce,
             code |-> entry(a).code,
             storage |-> [k \in Keys |-> StorageOf(entry(a), a, k)]]]

World(s) == WorldAt(s, Len(s.checkpoints) + 1)

=============================================================================
