----------------------------- MODULE WorldStack -----------------------------
(***************************************************************************)
(* What the EVM promises: the accounts behave as if every call frame       *)
(* worked on a complete private copy of the world it was entered in.  A    *)
(* frame that fails leaves no trace; one that succeeds hands its copy to   *)
(* its caller.  The contracts marked for destruction are part of a copy.   *)
(* What is committed is the world at the end of the transaction.           *)
(*                                                                         *)
(* A world is [accounts, marked]; accounts is a partial function from      *)
(* addresses to [balance, nonce, code, storage].  A step of the stack ws   *)
(* of worlds is given by the stacks it may lead to.                        *)
(***************************************************************************)
EXTENDS Integers, Sequences

CONSTANTS Addresses, Keys, Cross, Values, GasCost

VARIABLES
    committed,      \* the accounts in storage
    worlds          \* the copies, the present one last

Put(accounts, a, acc) ==
    [x \in DOMAIN accounts \cup {a} |-> IF x = a THEN acc ELSE accounts[x]]

Empty == [k \in Keys |-> 0]

Get(accounts, a) ==
    IF a \in DOMAIN accounts THEN accounts[a]
    ELSE [balance |-> 0, nonce |-> 0, code |-> FALSE, storage |-> Empty]

Pay(accounts, a, v) ==
    IF v = 0 THEN accounts
    ELSE Put(accounts, a, [Get(accounts, a) EXCEPT !.balance = @ + v])

Send(accounts, from, to, v) == Pay(Pay(accounts, from, -v), to, v)

Bump(accounts, a) == Put(accounts, a, [Get(accounts, a) EXCEPT !.nonce = @ + 1])

Deploy(accounts, from, to, v) ==
    Put(Pay(accounts, from, -v), to,
        [balance |-> Get(accounts, to).balance + v, nonce |-> 1,
         code |-> FALSE, storage |-> Empty])

Burn(accounts, gone) == [a \in DOMAIN accounts \ gone |-> accounts[a]]

-----------------------------------------------------------------------------
(* Frames *)

Top(ws) == ws[Len(ws)]

Below(ws, n) == SubSeq(ws, 1, Len(ws) - n)

Unmarked(accounts) == [accounts |-> accounts, marked |-> {}]

\* The present world becomes `now`; a frame is entered in the world `inner`.
Enter(ws, now, inner) ==
    Below(ws, 1) \o <<[Top(ws) EXCEPT !.accounts = now],
                      [Top(ws) EXCEPT !.accounts = inner]>>

Keep(ws, top) == Append(Below(ws, 2), top)

Stores(ws) ==
    {Append(Below(ws, 1), [Top(ws) EXCEPT !.accounts[a].storage[k] = v]) :
        a \in DOMAIN Top(ws).accounts, k \in Keys, v \in Values}

\* Who can send how much.
Payers(accounts, fee) ==
    {p \in Addresses \X Values : Get(accounts, p[1]).balance >= fee + p[2]}

Calls(ws) ==
    LET now == Top(ws).accounts
    IN  {Enter(ws, now, Send(now, p[1], to, p[2])) :
            p \in Payers(now, 0), to \in Addresses}

\* The creator's nonce moves on even when the creation fails.
Creates(ws) ==
    LET now(a) == Bump(Top(ws).accounts, a)
    IN  {Enter(ws, now(p[1]), Deploy(now(p[1]), p[1], to, p[2])) :
            p \in Payers(Top(ws).accounts, 0), to \in Addresses}

Suicides(ws) ==
    LET now == Top(ws).accounts
        left(a, to) == IF to = a THEN Pay(now, a, -now[a].balance)
                       ELSE Send(now, a, to, now[a].balance)
    IN  {Append(Below(ws, 1), [accounts |-> left(a, to), marked |-> Top(ws).marked \cup {a}]) :
            a \in DOMAIN now, to \in Addresses}

\* A frame returns: it fails, it succeeds, it leaves code at the address it
\* created, or it sends value to the Move side.  The marks made in a call from
\* the Move side are dropped.
Returns(ws) ==
    LET top == Top(ws)
        now == top.accounts
    IN  {Below(ws, 1), Keep(ws, top)}
        \cup {Keep(ws, [top EXCEPT !.accounts[a].code = TRUE]) : a \in DOMAIN now}
        \cup {Keep(ws, [top EXCEPT !.accounts = Pay(now, Cross, -v)]) :
                 v \in {u \in Values : Get(now, Cross).balance >= u}}
        \cup {Keep(ws, [top EXCEPT !.marked = {}]) : i \in {2} \cap {Len(ws)}}

-----------------------------------------------------------------------------
(* Transactions *)

Charged(accounts, a, fee) == Pay(Bump(accounts, a), a, -fee)

\* An Ethereum transaction pays its fee and calls or creates; when it cannot
\* pay for both, the fee, or what there is of it, is all that happens.
Transactions(ws) ==
    LET now == Top(ws).accounts
        then(a) == Charged(now, a, GasCost)
        rest(a) == IF now[a].balance < GasCost THEN now[a].balance ELSE GasCost
    IN  {Enter(ws, then(p[1]), Send(then(p[1]), p[1], to, p[2])) :
            p \in Payers(now, GasCost), to \in Addresses}
        \cup {Enter(ws, then(p[1]), Deploy(then(p[1]), p[1], to, p[2])) :
            p \in Payers(now, GasCost), to \in Addresses}
        \cup {<<Unmarked(Charged(now, a, rest(a)))>> : a \in DOMAIN now}

\* A call from the Move side brings its value with it.
MoveCalls(ws) ==
    LET now(v) == Pay(Top(ws).accounts, Cross, v)
    IN  {Enter(ws, now(v), Send(now(v), Cross, to, v)) : v \in Values, to \in Addresses}

\* The refund is paid and the marked contracts are gone, storage included.
Settlements(ws) ==
    {<<Unmarked(Burn(Pay(Top(ws).accounts, a, r), Top(ws).marked))>> :
        a \in Addresses, r \in 0..GasCost}

-----------------------------------------------------------------------------
Init == worlds = <<Unmarked(committed)>>

Frames(ws) == Stores(ws) \cup Calls(ws) \cup Creates(ws) \cup Suicides(ws) \cup Returns(ws)

Between(ws) == Transactions(ws) \cup MoveCalls(ws) \cup Settlements(ws)

Discard == worlds' = <<Unmarked(committed)>>

Commit ==
    /\ Len(worlds) = 1
    /\ committed' = Top(worlds).accounts
    /\ worlds' = <<Unmarked(committed')>>

Next ==
    \/ Commit
    \/ /\ UNCHANGED committed
       /\ \/ Len(worlds) > 1 /\ worlds' \in Frames(worlds)
          \/ Len(worlds) = 1 /\ worlds' \in Between(worlds)
          \/ Len(worlds) = 1 /\ Discard

Spec == Init /\ [][Next]_<<committed, worlds>>

=============================================================================
