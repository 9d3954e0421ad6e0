---------------------------- MODULE SafetyRules ----------------------------
(***************************************************************************)
(* The safety rules of every honest validator, with the storage they       *)
(* persist their decisions in, and the certificates that votes and         *)
(* timeouts add up to.  A block id is a hash over the block's data, its    *)
(* parent's certificate included, so a block is its path from the genesis  *)
(* block of its epoch.  The network keeps every signature ever released:   *)
(* any quorum of them may be put together, late, twice or never.  A faulty *)
(* validator signs whatever it likes; a validator that crashes keeps what  *)
(* it stored and nothing else.                                             *)
(***************************************************************************)
EXTENDS Naturals, Sequences, SequencesExt

CONSTANTS Honest, Faulty, Quorums, Payloads, MaxRound, MaxFaults

VARIABLES internal_store, cached_safety_data, waypoint, validator_signer,
          votes, timeouts, faults

vars == <<internal_store, cached_safety_data, waypoint, validator_signer,
          votes, timeouts, faults>>

Validators == Honest \cup Faulty

\* Any two quorums share an honest validator: 2f+1 of 3f+1 validators.
ASSUME QuorumAssumption ==
    /\ Honest \cap Faulty = {}
    /\ Quorums \subseteq SUBSET Validators
    /\ \A Q, R \in Quorums : Q \cap R \cap Honest # {}

\* MaxRound[e] bounds the rounds of epoch e; a timeout of the last one, which
\* nothing can follow, is left out.
ASSUME BoundsAssumption == MaxRound \in Seq(Nat) /\ MaxRound # << >> /\ MaxFaults \in Nat

Epochs == DOMAIN MaxRound

-----------------------------------------------------------------------------
(* Blocks, votes and certificates *)

Blocks == [epoch : Epochs, path : Seq([round : Nat \ {0}, payload : Payloads])]

Genesis(e) == [epoch |-> e, path |-> << >>]
Round(b) == IF b.path = << >> THEN 0 ELSE Last(b.path).round
Parent(b) == [b EXCEPT !.path = Front(@)]
Child(b, r, p) == [b EXCEPT !.path = Append(@, [round |-> r, payload |-> p])]
Extends(b, a) == a.epoch = b.epoch /\ IsPrefix(a.path, b.path)

\* A quorum certificate for b can be put together, or b is a genesis block.
Certified(b) ==
    \/ Round(b) = 0
    \/ \E Q \in Quorums : \A v \in Q \cap Honest : <<v, b>> \in votes

CertifiedBlocks(e) ==
    {Genesis(e)} \cup {b \in {x[2] : x \in votes} : b.epoch = e /\ Certified(b)}

CertifiedRounds(e) == {Round(b) : b \in CertifiedBlocks(e)}

\* The ledger info a quorum signed with c names b as the block to commit.
Commits(c, b) == Round(c) > 0 /\ b = Parent(c) /\ Round(c) = Round(b) + 1

Committed(b) == \E c \in CertifiedBlocks(b.epoch) : Commits(c, b)

NoCert == [round |-> 0, hqc |-> 0]

\* The certificates that a quorum's timeouts of round r add up to.  An honest
\* validator put its name to the certificate rounds it released; a faulty one
\* to that of any certificate there is.
TimeoutCertsOf(e, r) ==
    LET known == {h \in CertifiedRounds(e) : h < r}
        rounds(v) == {h \in known : v \in Honest => <<v, e, r, h>> \in timeouts}
    IN {[round |-> r, hqc |-> h] : h \in
            {h \in known : \E Q \in Quorums :
                /\ \A v \in Q : \E x \in rounds(v) : x <= h
                /\ \E v \in Q : h \in rounds(v)}}

\* The timeout certificates a round manager may hold, or none.  They are of
\* its epoch, which SyncInfo::verify and, after a restart, RecoveryData see to:
\* verify_tc compares the epoch with nothing.
TimeoutCerts(e) ==
    {NoCert} \cup UNION {TimeoutCertsOf(e, r) : r \in {t[3] : t \in timeouts}}

-----------------------------------------------------------------------------
(* The persistent safety storage *)

\* A crash, a failed write or an operator's visit; MaxFaults bounds their number.
Fault == faults < MaxFaults /\ faults' = faults + 1

NewSafetyData(e) ==
    [epoch |-> e, last_voted_round |-> 0, preferred_round |-> 0,
     one_chain_round |-> 0, last_vote |-> {}]

\* What safety_data() returns: the cached copy if there is one (the cache is
\* enabled; without it safety_data() reads a type that is never stored).
SafetyData(v) == IF cached_safety_data[v] = {} THEN internal_store[v]
                 ELSE CHOOSE d \in cached_safety_data[v] : TRUE

Cache(v, d) == cached_safety_data' = [cached_safety_data EXCEPT ![v] = d]

\* set_safety_data(): a failed write may have reached the store or not.
SetSafetyData(v, d) ==
    /\ internal_store' = [internal_store EXCEPT ![v] = d]
    /\ Cache(v, {d})
    /\ UNCHANGED faults

SetSafetyDataFails_Kept(v, d) ==
    /\ internal_store' = [internal_store EXCEPT ![v] = d]
    /\ UNCHANGED cached_safety_data
    /\ Fault

SetSafetyDataFails(v, d) ==
    /\ \/ internal_store' = [internal_store EXCEPT ![v] = d]
       \/ UNCHANGED internal_store
    /\ Cache(v, {})
    /\ Fault

-----------------------------------------------------------------------------
(* The rules *)

safe_to_vote(b, tc) ==
    LET qc_round == Round(Parent(b)) IN
    \/ Round(b) = qc_round + 1
    \/ Round(b) = tc.round + 1 /\ qc_round >= tc.hqc

safe_to_timeout_Unlocked(r, qc_round, tc, d) ==
    r = qc_round + 1 \/ r = tc.round + 1

safe_to_timeout(r, qc_round, tc, d) ==
    /\ r = qc_round + 1 \/ r = tc.round + 1
    /\ qc_round >= d.one_chain_round

observe_qc(qc, d) ==
    LET two_chain == IF Round(qc) = 0 THEN 0 ELSE Round(Parent(qc)) IN
    [d EXCEPT !.one_chain_round = IF Round(qc) > @ THEN Round(qc) ELSE @,
              !.preferred_round = IF two_chain > @ THEN two_chain ELSE @]

\* The safety data after a vote for b, as if the block were certified already.
Voted_Locks(b, d) ==
    [observe_qc(b, d) EXCEPT !.last_voted_round = Round(b), !.last_vote = {b}]

\* The safety data after a vote for b.
Voted(b, d) ==
    [observe_qc(Parent(b), d) EXCEPT !.last_voted_round = Round(b), !.last_vote = {b}]

\* verify_epoch left out.
Proposals_AnyEpoch(e) ==
    UNION {{Child(qc, r, p) : qc \in {c \in CertifiedBlocks(x) : Round(c) < r}, p \in Payloads} :
            x \in Epochs, r \in 1 .. MaxRound[e]}

\* The proposals of epoch e that pass verify_proposal().
Proposals(e) ==
    {b \in {Child(qc, r, p) : qc \in CertifiedBlocks(e), r \in 1 .. MaxRound[e], p \in Payloads} :
        Round(Parent(b)) < Round(b)}

NewRound_Any(b, d) == TRUE

\* verify_and_update_last_vote_round
NewRound(b, d) == Round(b) > d.last_voted_round

\* The blocks a validator with safety data d has not voted in the round of
\* and may vote for, with some timeout certificate or none.
Votable(d) ==
    {b \in Proposals(d.epoch) :
        /\ \A w \in d.last_vote : Round(w) # Round(b)
        /\ NewRound(b, d)
        /\ \E tc \in TimeoutCerts(d.epoch) : safe_to_vote(b, tc)}

construct_and_sign_vote_two_chain(v) ==
    /\ validator_signer[v]
    /\ LET d == SafetyData(v) IN
       \E b \in Votable(d) :
          \/ SetSafetyData(v, Voted(b, d)) /\ votes' = votes \cup {<<v, b>>}
          \/ SetSafetyDataFails(v, Voted(b, d)) /\ UNCHANGED votes
    /\ UNCHANGED <<waypoint, validator_signer, timeouts>>

\* Asked again for a vote in the round of its last one, it repeats that one.
RepeatVote(v) ==
    LET d == SafetyData(v) IN
    /\ validator_signer[v]
    /\ \E b \in d.last_vote : votes' = votes \cup {<<v, b>>}
    /\ Cache(v, {d})
    /\ UNCHANGED <<internal_store, waypoint, validator_signer, timeouts, faults>>

\* The rounds it may sign a timeout of, with the round of the certificate it
\* puts in.
Timeouts(d) ==
    {t \in (d.last_voted_round .. MaxRound[d.epoch] - 1) \X CertifiedRounds(d.epoch) :
        /\ t[2] < t[1]
        /\ \E tc \in TimeoutCerts(d.epoch) : safe_to_timeout(t[1], t[2], tc, d)}

sign_timeout_with_qc(v) ==
    /\ validator_signer[v]
    /\ LET d == SafetyData(v) IN
       \E t \in Timeouts(d) :
          LET new == [d EXCEPT !.last_voted_round = t[1]]
              sent == timeouts \cup {<<v, d.epoch, t[1], t[2]>>}
          IN \/ /\ t[1] > d.last_voted_round
                /\ \/ SetSafetyData(v, new) /\ timeouts' = sent
                   \/ SetSafetyDataFails(v, new) /\ UNCHANGED timeouts
             \/ /\ t[1] = d.last_voted_round
                /\ Cache(v, {d})
                /\ timeouts' = sent
                /\ UNCHANGED <<internal_store, faults>>
    /\ UNCHANGED <<waypoint, validator_signer, votes>>

\* Every other request, and a refused one, at most loads the safety data.
consensus_state(v) ==
    /\ Cache(v, {SafetyData(v)})
    /\ UNCHANGED <<internal_store, waypoint, validator_signer, votes, timeouts, faults>>

\* An epoch change proof for e ends with the last commit of epoch e - 1.
HasProof(e) ==
    e = 1 \/ \E c \in CertifiedBlocks(e - 1) : Commits(c, Parent(c)) /\ Round(c) > 1

SetWaypoint(v, e) == waypoint' = [waypoint EXCEPT ![v] = e]

\* initialize() stores the waypoint first; that write may fail.
WaypointFails(v) ==
    \E e \in Epochs :
        /\ HasProof(e)
        /\ e > waypoint[v]
        /\ waypoint' \in {waypoint, [waypoint EXCEPT ![v] = e]}
        /\ Fault
        /\ UNCHANGED <<internal_store, cached_safety_data, validator_signer, votes, timeouts>>

\* How the epoch e of the proof compares with the stored one.
StartsEpoch_Other(e, d) == e # d.epoch

StartsEpoch(e, d) == d.epoch < e

InEpoch_OrPast(e, d) == d.epoch >= e

InEpoch(e, d) == d.epoch = e

\* The key of the epoch's validator set is found, or not: the validator is not
\* in the set, or its store does not have the key.
ReconcileKey(v) == \E found \in BOOLEAN : validator_signer' = [validator_signer EXCEPT ![v] = found]

\* The rest of initialize(): the safety data of a new epoch, then the key, or
\* WaypointOutOfDate when the stored epoch is past that of the proof.
initialize(v) ==
    \E e \in Epochs :
        /\ HasProof(e)
        /\ e >= waypoint[v]
        /\ SetWaypoint(v, e)
        /\ LET d == SafetyData(v) IN
           \/ /\ StartsEpoch(e, d)
              /\ SetSafetyData(v, NewSafetyData(e))
              /\ ReconcileKey(v)
           \/ /\ StartsEpoch(e, d)
              /\ SetSafetyDataFails(v, NewSafetyData(e))
              /\ UNCHANGED validator_signer
           \/ /\ InEpoch(e, d)
              /\ Cache(v, {d})
              /\ ReconcileKey(v)
              /\ UNCHANGED <<internal_store, faults>>
           \/ /\ d.epoch > e
              /\ Cache(v, {d})
              /\ UNCHANGED <<internal_store, validator_signer, faults>>
        /\ UNCHANGED <<votes, timeouts>>

\* The process stops and starts again with what the store holds.
Restart(v) ==
    /\ Cache(v, {})
    /\ validator_signer' = [validator_signer EXCEPT ![v] = FALSE]
    /\ Fault
    /\ UNCHANGED <<internal_store, waypoint, votes, timeouts>>

\* An operator stops the node, puts another waypoint into its store, that of
\* the genesis when the database is restored, and starts it again; the safety
\* data stays as it is.
insert_waypoint(v) ==
    /\ \E e \in Epochs : HasProof(e) /\ e # waypoint[v] /\ SetWaypoint(v, e)
    /\ Cache(v, {})
    /\ validator_signer' = [validator_signer EXCEPT ![v] = FALSE]
    /\ Fault
    /\ UNCHANGED <<internal_store, votes, timeouts>>

-----------------------------------------------------------------------------

Init ==
    /\ internal_store = [v \in Honest |-> NewSafetyData(1)]
    /\ cached_safety_data = [v \in Honest |-> {NewSafetyData(1)}]
    /\ waypoint = [v \in Honest |-> 1]
    /\ validator_signer = [v \in Honest |-> TRUE]
    /\ votes = {}
    /\ timeouts = {}
    /\ faults = 0

Next ==
    \E v \in Honest :
        \/ construct_and_sign_vote_two_chain(v)
        \/ RepeatVote(v)
        \/ sign_timeout_with_qc(v)
        \/ consensus_state(v)
        \/ WaypointFails(v)
        \/ initialize(v)
        \/ Restart(v)
        \/ insert_waypoint(v)

Spec == Init /\ [][Next]_vars

-----------------------------------------------------------------------------
(* Correctness *)

SafetyDatas ==
    [epoch : Epochs, last_voted_round : Nat, preferred_round : Nat,
     one_chain_round : Nat, last_vote : SUBSET Blocks]

\* Every stored safety data (SafetyData) is of an epoch there is, and its last
\* vote is a vote of that epoch.
TypeOK ==
    /\ internal_store \in [Honest -> SafetyDatas]
    /\ \A v \in Honest : \A b \in internal_store[v].last_vote : b.epoch = internal_store[v].epoch
    /\ cached_safety_data \in [Honest -> SUBSET SafetyDatas]
    /\ waypoint \in [Honest -> Epochs]
    /\ validator_signer \in [Honest -> BOOLEAN]
    /\ votes \subseteq Honest \X Blocks
    /\ timeouts \subseteq Honest \X Epochs \X Nat \X Nat
    /\ faults \in 0 .. MaxFaults

\* Once a certificate commits a block, no block of its round or a later one is
\* certified unless it extends it: what safe_to_vote and safe_to_timeout are
\* for, whatever crashes and failed writes happen.  So no two certificates
\* commit blocks of two chains (construct_ledger_info_2chain).
CommittedIsLocked ==
    \A e \in Epochs :
        LET certified == CertifiedBlocks(e)
            committed == {b \in certified : \E c \in certified : Commits(c, b)}
        IN  \A b \in committed, c \in certified : Round(c) >= Round(b) => Extends(c, b)

\* No honest validator releases votes for two blocks of one round, in spite of
\* restarts, repeated requests and writes whose outcome it does not know.
OneVotePerRound ==
    \A x, y \in votes :
        x[1] = y[1] /\ x[2].epoch = y[2].epoch /\ Round(x[2]) = Round(y[2]) => x = y

\* The copy the rules are evaluated on is never older than the stored one
\* (set_safety_data drops it when a write fails).
CacheCoherent ==
    \A v \in Honest : cached_safety_data[v] \subseteq {internal_store[v]}

\* A validator that has its key is in an epoch its waypoint covers, wherever an
\* earlier initialize() stopped and whatever waypoint was put back: the waypoint
\* is stored before the safety data of the epoch, and WaypointOutOfDate returns
\* before the key is looked for.
SignsCoveredEpoch ==
    \A v \in Honest : validator_signer[v] => internal_store[v].epoch <= waypoint[v]

\* A vote never takes away a validator's way out of the round: in the round it
\* last signed something in it can still sign a timeout, with some certificates.
CanStillTimeout ==
    \A v \in Honest :
        LET d == internal_store[v]
            r == d.last_voted_round
        IN  0 < r /\ r < MaxRound[d.epoch] => \E t \in Timeouts(d) : t[1] = r

\* What is stored only moves on: within an epoch to a later round, with
\* certificates at least as high, or to a later epoch, and then nothing of the
\* old epoch is left (set_safety_data in initialize, also after an older
\* waypoint was put back).
StoreMovesOn ==
    [][\A v \in Honest :
        LET d == internal_store[v]  n == internal_store'[v] IN
        \/ n.epoch > d.epoch /\ n = NewSafetyData(n.epoch)
        \/ /\ n.epoch = d.epoch
           /\ n.last_voted_round >= d.last_voted_round
           /\ n.one_chain_round >= d.one_chain_round
           /\ n.preferred_round >= d.preferred_round]_vars
=============================================================================
