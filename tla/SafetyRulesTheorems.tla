------------------------ MODULE SafetyRulesTheorems ------------------------
(***************************************************************************)
(* The safety rules are correct for every set of validators, all rounds    *)
(* and epochs, and any number of crashes and failed writes: a committed    *)
(* block is locked.                                                        *)
(***************************************************************************)
EXTENDS SafetyRulesSteps, WellFoundedInduction

(* The time for a step that names no prover.                               *)
USE SMTT(45), ZenonT(20)

(* The invariant *)

\* What is voted for is justified for good.
LEMMA JustifiedStays ==
    ASSUME NEW v, Kinds(v), NEW b, Justified(b)
    PROVE  Justified(b)'
<1>1. votes \subseteq votes' /\ timeouts \subseteq timeouts'
  BY Zenon, Growing
<1>2. Parent(b) \in CertifiedBlocks(b.epoch)'
  BY Zenon, <1>1, CertifiedGrows DEF Justified
<1>3. PICK tc \in TimeoutCerts(b.epoch) : safe_to_vote(b, tc)
  BY Zenon DEF Justified
<1>4. tc \in TimeoutCerts(b.epoch)' /\ safe_to_vote(b, tc)'
  BY Zenon, <1>1, <1>3, TimeoutCertsGrow DEF safe_to_vote, Round, Parent
<1> QED
  BY Zenon, <1>2, <1>4 DEF Justified, Round, Parent

LEMMA SignedTypes ==
    ASSUME TypeOK, NEW v \in Honest, NEW b \in Signed(v)
    PROVE  b \in Blocks /\ b.epoch \in Nat /\ Round(b) \in Nat
<1>1. b \in Blocks
  BY DataTypes DEF Signed, TypeOK
<1>2. b.epoch \in Nat
  BY Zenon, <1>1, EpochsType DEF Blocks
<1> QED
  BY Zenon, <1>1, <1>2, RoundType

LEMMA VotesStep ==
    ASSUME TypeOK, VotesOK, NEW v \in Honest, Kinds(v)
    PROVE  VotesOK'
<1> SUFFICES ASSUME NEW w \in Honest, NEW b \in Signed(w)'
             PROVE  Behind(w, b)' /\ Justified(b)'
  BY Zenon DEF VotesOK
<1> DEFINE d == internal_store[w]
<1> DEFINE n == internal_store'[w]
<1>0. /\ d.epoch \in Nat /\ d.last_voted_round \in Nat /\ d.one_chain_round \in Nat
      /\ n \in SafetyDatas
  BY Zenon, DataTypes, KindMoves
<1>1. n.epoch \in Nat /\ n.last_voted_round \in Nat /\ n.one_chain_round \in Nat
  <2> HIDE DEF n
  <2> QED
    BY Zenon, <1>0, EpochsType DEF SafetyDatas
<1>2. CASE b \in Signed(w)
  <2>1. Behind(w, b) /\ Justified(b)
    BY Zenon, <1>2 DEF VotesOK
  <2>2. b \in Blocks /\ b.epoch \in Nat /\ Round(b) \in Nat
    BY Zenon, <1>2, SignedTypes
  <2>3. Round(Parent(b)) \in Nat
    <3>1. b.path # << >>
      BY Zenon, <2>1 DEF Justified
    <3> QED
      BY Zenon, <2>2, <3>1, ParentType, RoundType
  <2>4. \/ n.epoch > d.epoch
        \/ /\ n.epoch = d.epoch
           /\ n.last_voted_round >= d.last_voted_round
           /\ n.one_chain_round >= d.one_chain_round
    BY Zenon, KindMoves DEF MovesOn
  <2>5. /\ b.epoch <= d.epoch
        /\ b.epoch = d.epoch => Round(b) <= d.last_voted_round /\ Round(Parent(b)) <= d.one_chain_round
    BY Zenon, <2>1 DEF Behind
  <2> DEFINE q == Round(Parent(b))
  <2> DEFINE r == Round(b)
  <2>6. /\ b.epoch <= n.epoch
        /\ b.epoch = n.epoch => r <= n.last_voted_round /\ q <= n.one_chain_round
    <3> HIDE DEF d, n, q, r
    <3> QED
      BY <1>0, <1>1, <2>2, <2>3, <2>4, <2>5 DEF q, r
  <2>7. Behind(w, b)'
    BY Zenon, <2>6 DEF Behind, Round, Parent
  <2> QED
    BY Zenon, <2>1, <2>7, JustifiedStays
<1>3. CASE w = v /\ VotesFor(v, b)
  <2>1. b \in Votable(d) /\ d \in SafetyDatas /\ n = Voted(b, d)
    BY Zenon, <1>3, DataTypes, Stored DEF VotesFor
  <2>2. /\ b.epoch = d.epoch /\ b.path # << >>
        /\ Round(b) \in Nat /\ Round(Parent(b)) \in Nat /\ Round(Parent(b)) < Round(b)
        /\ Parent(b) \in CertifiedBlocks(d.epoch)
        /\ \E tc \in TimeoutCerts(d.epoch) : safe_to_vote(b, tc)
    BY Zenon, <2>1, VotableFacts
  <2>3. Justified(b)
    BY Zenon, <2>2 DEF Justified
  <2>4. /\ n.epoch = d.epoch /\ n.last_voted_round = Round(b)
        /\ n.one_chain_round =
             IF Round(Parent(b)) > d.one_chain_round THEN Round(Parent(b)) ELSE d.one_chain_round
    <3>1. /\ Voted(b, d).epoch = d.epoch /\ Voted(b, d).last_voted_round = Round(b)
          /\ Voted(b, d).one_chain_round =
               IF Round(Parent(b)) > d.one_chain_round THEN Round(Parent(b)) ELSE d.one_chain_round
      BY Zenon, <2>1, VotedFacts
    <3> QED
      BY Zenon, <2>1, <3>1
  <2> DEFINE q == Round(Parent(b))
  <2> DEFINE r == Round(b)
  <2>5. b.epoch <= n.epoch /\ r <= n.last_voted_round /\ q <= n.one_chain_round
    <3> HIDE DEF d, n
    <3> QED
      BY <1>0, <1>1, <2>2, <2>4
  <2>6. Behind(w, b)'
    BY Zenon, <2>5 DEF Behind, Round, Parent
  <2> QED
    BY Zenon, <2>3, <2>6, JustifiedStays
<1> QED
  BY Zenon, <1>2, <1>3, SignedStep

\* A new vote is for a later round than the earlier ones of its epoch.
LEMMA VoteIsNew ==
    ASSUME TypeOK, VotesOK, NEW v \in Honest, NEW b, VotesFor(v, b), NEW a \in Signed(v),
           a.epoch = b.epoch
    PROVE  Round(a) < Round(b)
<1> DEFINE d == internal_store[v]
<1>1. b \in Votable(d) /\ d \in SafetyDatas /\ d.last_voted_round \in Nat
  BY Zenon, DataTypes DEF VotesFor
<1>2. b.epoch = d.epoch /\ Round(b) > d.last_voted_round /\ Round(b) \in Nat
  BY Zenon, <1>1, VotableFacts
<1>3. Round(a) <= d.last_voted_round
  BY Zenon, <1>2 DEF VotesOK, Behind
<1>4. Round(a) \in Nat
  BY Zenon, SignedTypes
<1> HIDE DEF d
<1> QED
  BY <1>1, <1>2, <1>3, <1>4

LEMMA OneSignedStep ==
    ASSUME TypeOK, VotesOK, OneSigned, NEW v \in Honest, Kinds(v)
    PROVE  OneSigned'
<1> SUFFICES ASSUME NEW w \in Honest, NEW a \in Signed(w)', NEW b \in Signed(w)',
                    a.epoch = b.epoch, Round(a) = Round(b)
             PROVE  a = b
  BY Zenon DEF OneSigned, Round
<1>1. CASE a \in Signed(w) /\ b \in Signed(w)
  BY Zenon, <1>1 DEF OneSigned
<1>2. ASSUME NEW x, NEW y \in Signed(v), VotesFor(v, x), x.epoch = y.epoch, Round(x) = Round(y)
      PROVE  FALSE
  <2>1. Round(y) < Round(x) /\ Round(y) \in Nat
    BY Zenon, <1>2, VoteIsNew, SignedTypes
  <2> QED
    BY <1>2, <2>1
<1>3. ASSUME VotesFor(v, a), VotesFor(v, b) PROVE a = b
  <2> DEFINE d == internal_store[v]
  <2>1. /\ a \in Votable(d) /\ b \in Votable(d) /\ d \in SafetyDatas
        /\ internal_store'[v] = Voted(a, d) /\ internal_store'[v] = Voted(b, d)
    BY Zenon, <1>3, DataTypes, Stored DEF VotesFor
  <2>2. internal_store'[v].last_vote = {a} /\ internal_store'[v].last_vote = {b}
    <3>1. Voted(a, d).last_vote = {a} /\ Voted(b, d).last_vote = {b}
      BY Zenon, <2>1, VotedFacts
    <3> QED
      BY Zenon, <2>1, <3>1
  <2> QED
    BY Zenon, <2>2
<1> QED
  BY Zenon, <1>1, <1>2, <1>3, SignedStep


LEMMA TimeoutTypes ==
    ASSUME TypeOK, NEW t \in timeouts
    PROVE  t[1] \in Honest /\ t[2] \in Nat /\ t[3] \in Nat /\ t[4] \in Nat
<1>1. t \in Honest \X Epochs \X Nat \X Nat
  BY Zenon DEF TypeOK
<1> QED
  BY Zenon, <1>1, EpochsType

\* A new timeout, with what is stored for it.
LEMMA NewTimeout ==
    ASSUME TypeOK, NEW v \in Honest, Kinds(v), NEW t \in timeouts' \ timeouts
    PROVE  /\ t[1] = v /\ UNCHANGED votes
           /\ internal_store'[v].epoch = internal_store[v].epoch
           /\ internal_store'[v].last_vote = internal_store[v].last_vote
           /\ t[2] = internal_store[v].epoch
           /\ t[3] = internal_store'[v].last_voted_round
           /\ t[4] \in Nat /\ t[4] >= internal_store[v].one_chain_round
<1> DEFINE d == internal_store[v]
<1>1. PICK x : TimesOut(v, x) /\ t = <<v, d.epoch, x[1], x[2]>>
  BY Zenon, ReleasedTypes
<1>2. t[1] = v /\ t[2] = d.epoch /\ t[3] = x[1] /\ t[4] = x[2]
  <2> HIDE DEF d
  <2> QED
    BY <1>1
<1>3. /\ x \in Timeouts(d) /\ d \in SafetyDatas
      /\ internal_store'[v] = [d EXCEPT !.last_voted_round = x[1]]
      /\ UNCHANGED votes
  BY Zenon, <1>1, DataTypes, Stored DEF TimesOut
<1>4. x[1] \in Nat /\ x[2] \in Nat /\ x[2] >= d.one_chain_round
  BY Zenon, <1>3, TimeoutFacts
<1>5. /\ internal_store'[v].epoch = d.epoch /\ internal_store'[v].last_voted_round = x[1]
      /\ internal_store'[v].last_vote = d.last_vote
  <2> HIDE DEF d
  <2> QED
    BY <1>3, <1>4, RoundStored
<1> QED
  BY Zenon, <1>2, <1>3, <1>4, <1>5

LEMMA TimeoutsStep ==
    ASSUME TypeOK, TypeOK', TimeoutsOK, NEW v \in Honest, Kinds(v)
    PROVE  TimeoutsOK'
<1> SUFFICES ASSUME NEW t \in timeouts'
             PROVE  /\ t[2] <= internal_store'[t[1]].epoch
                    /\ t[2] = internal_store'[t[1]].epoch => t[3] <= internal_store'[t[1]].last_voted_round
  BY Zenon DEF TimeoutsOK
<1>1. CASE t \in timeouts
  <2> DEFINE w == t[1]
  <2> DEFINE d == internal_store[w]
  <2> DEFINE n == internal_store'[w]
  <2>1. w \in Honest /\ t[2] \in Nat /\ t[3] \in Nat
    BY Zenon, <1>1, TimeoutTypes
  <2>2. t[2] <= d.epoch /\ (t[2] = d.epoch => t[3] <= d.last_voted_round)
    BY Zenon, <1>1 DEF TimeoutsOK
  <2>3. n.epoch > d.epoch \/ (n.epoch = d.epoch /\ n.last_voted_round >= d.last_voted_round)
    BY Zenon, <2>1, KindMoves DEF MovesOn
  <2>4. d.epoch \in Nat /\ d.last_voted_round \in Nat /\ n \in SafetyDatas
    BY Zenon, <2>1, DataTypes, KindMoves
  <2> HIDE DEF w, d, n
  <2>5. n.epoch \in Nat /\ n.last_voted_round \in Nat
    BY Zenon, <2>4, EpochsType DEF SafetyDatas
  <2>6. t[2] <= n.epoch /\ (t[2] = n.epoch => t[3] <= n.last_voted_round)
    BY <2>1, <2>2, <2>3, <2>4, <2>5
  <2> QED
    BY Zenon, <2>6 DEF n, w
<1>2. CASE t \notin timeouts
  <2>1. /\ t[1] = v /\ t[2] = internal_store'[v].epoch /\ t[3] = internal_store'[v].last_voted_round
    BY Zenon, <1>2, NewTimeout
  <2>2. internal_store'[v] \in SafetyDatas
    BY Zenon, KindMoves
  <2> DEFINE n == internal_store'[v]
  <2>3. n.epoch <= n.epoch /\ n.last_voted_round <= n.last_voted_round
    <3> HIDE DEF n
    <3>1. n.epoch \in Nat /\ n.last_voted_round \in Nat
      BY Zenon, <2>2, EpochsType DEF SafetyDatas, n
    <3> QED
      BY <3>1
  <2> QED
    BY Zenon, <2>1, <2>3
<1> QED
  BY Zenon, <1>1, <1>2

\* A vote after a timeout is for a later round than the timeout's, and a
\* timeout after a vote puts in a certificate as high as the vote's.
LEMMA LockedStep ==
    ASSUME TypeOK, VotesOK, TimeoutsOK, TimeoutsLocked, NEW v \in Honest, Kinds(v)
    PROVE  TimeoutsLocked'
<1> SUFFICES ASSUME NEW t \in timeouts', NEW b \in Signed(t[1])', b.epoch = t[2], Round(b) <= t[3]
             PROVE  Round(Parent(b)) <= t[4]
  BY Zenon DEF TimeoutsLocked, Round, Parent
<1>1. CASE t \in timeouts
  <2>1. t[1] \in Honest /\ t[2] \in Nat /\ t[3] \in Nat
    BY Zenon, <1>1, TimeoutTypes
  <2>2. CASE b \in Signed(t[1])
    BY Zenon, <1>1, <2>2 DEF TimeoutsLocked
  <2>3. CASE t[1] = v /\ VotesFor(v, b)
    <3> DEFINE d == internal_store[v]
    <3>1. b \in Votable(d) /\ d \in SafetyDatas /\ d.last_voted_round \in Nat
      BY Zenon, <2>3, DataTypes DEF VotesFor
    <3>2. b.epoch = d.epoch /\ Round(b) > d.last_voted_round /\ Round(b) \in Nat
      BY Zenon, <3>1, VotableFacts
    <3>3. t[3] <= d.last_voted_round
      BY Zenon, <1>1, <2>3, <3>2 DEF TimeoutsOK
    <3> HIDE DEF d
    <3> QED
      BY <2>1, <3>1, <3>2, <3>3
  <2> QED
    BY Zenon, <2>1, <2>2, <2>3, SignedStep
<1>2. CASE t \notin timeouts
  <2> DEFINE d == internal_store[v]
  <2>1. /\ t[1] = v /\ UNCHANGED votes /\ internal_store'[v].last_vote = d.last_vote
        /\ t[2] = d.epoch /\ t[4] \in Nat /\ t[4] >= d.one_chain_round
    BY Zenon, <1>2, NewTimeout
  <2>2. b \in Signed(v)
    BY Zenon, <2>1 DEF Signed
  <2>3. Round(Parent(b)) <= d.one_chain_round /\ b.path # << >>
    BY Zenon, <2>1, <2>2 DEF VotesOK, Behind, Justified
  <2>4. b \in Blocks
    BY Zenon, <2>2, SignedTypes
  <2>5. Round(Parent(b)) \in Nat /\ d.one_chain_round \in Nat
    BY Zenon, <2>3, <2>4, ParentType, RoundType, DataTypes
  <2> HIDE DEF d
  <2> QED
    BY <2>1, <2>3, <2>5
<1> QED
  BY Zenon, <1>1, <1>2

Leaves(d) ==
    /\ d.one_chain_round \in CertifiedRounds(d.epoch)
    /\ d.last_voted_round = 0 => d.one_chain_round = 0
    /\ d.last_voted_round > 0 =>
         \E h \in CertifiedRounds(d.epoch) : \E tc \in TimeoutCerts(d.epoch) :
            h < d.last_voted_round /\ safe_to_timeout(d.last_voted_round, h, tc, d)

\* Certificates that are there stay.
LEMMA LeavesStay ==
    ASSUME NEW v, Kinds(v), NEW d, Leaves(d)
    PROVE  Leaves(d)'
<1>1. votes \subseteq votes' /\ timeouts \subseteq timeouts'
  BY Zenon, Growing
<1>2. CertifiedRounds(d.epoch) \subseteq CertifiedRounds(d.epoch)' /\ TimeoutCerts(d.epoch) \subseteq TimeoutCerts(d.epoch)'
  BY Zenon, <1>1, CertifiedGrows, TimeoutCertsGrow
<1> QED
  BY Zenon, <1>2 DEF Leaves, safe_to_timeout

\* A vote leaves a certificate as high as any seen, before its round.
LEMMA VoteLeaves ==
    ASSUME TypeOK, NEW d \in SafetyDatas, Leaves(d), NEW b \in Votable(d)
    PROVE  Leaves(Voted(b, d))
<1> DEFINE q == Round(Parent(b))
<1> DEFINE r == Round(b)
<1> DEFINE n == Voted(b, d)
<1> DEFINE o == IF q > d.one_chain_round THEN q ELSE d.one_chain_round
<1> DEFINE R == CertifiedRounds(d.epoch)
<1>1. /\ r \in Nat \ {0} /\ q \in Nat /\ q < r /\ r > d.last_voted_round
      /\ Parent(b) \in CertifiedBlocks(d.epoch)
  BY Zenon, VotableFacts
<1>2. n.epoch = d.epoch /\ n.last_voted_round = r /\ n.one_chain_round = o
  BY Zenon, VotedFacts
<1>3. q \in R
  BY Zenon, <1>1 DEF CertifiedRounds
<1>4. PICK tc \in TimeoutCerts(d.epoch) : safe_to_vote(b, tc)
  BY Zenon, VotableFacts
<1>5. r = q + 1 \/ r = tc.round + 1
  BY Zenon, <1>4 DEF safe_to_vote
<1>6. d.last_voted_round \in Nat /\ d.one_chain_round \in Nat /\ d.epoch \in Epochs
  BY DEF SafetyDatas
<1>7. d.one_chain_round \in R /\ (d.last_voted_round = 0 => d.one_chain_round = 0)
  BY Zenon DEF Leaves
<1>8. d.last_voted_round > 0 => d.one_chain_round < d.last_voted_round
  <2>1. ASSUME d.last_voted_round > 0
        PROVE  \E h \in R : h < d.last_voted_round /\ h >= d.one_chain_round
    BY Zenon, <2>1 DEF Leaves, safe_to_timeout
  <2>2. R \subseteq Nat
    BY Zenon, <1>6, CertifiedTypes
  <2> HIDE DEF R
  <2> QED
    BY <1>6, <2>1, <2>2
<1>9. o \in R /\ o < r /\ (r = o + 1 \/ r = tc.round + 1)
  <2> HIDE DEF q, r, R
  <2>1. CASE q > d.one_chain_round
    BY <1>1, <1>3, <1>5, <2>1
  <2>2. CASE ~(q > d.one_chain_round)
    <3>1. o = d.one_chain_round /\ d.one_chain_round < r
      BY <1>1, <1>6, <1>7, <1>8, <2>2
    <3>2. r = d.one_chain_round + 1 \/ r = tc.round + 1
      BY <1>1, <1>5, <1>6, <2>2, <3>1
    <3> QED
      BY Zenon, <1>7, <3>1, <3>2
  <2> QED
    BY Zenon, <2>1, <2>2
<1>10. o \in Nat /\ o >= o /\ r # 0
  BY <1>1, <1>6
<1> HIDE DEF q, r, n, o
<1>11. safe_to_timeout(n.last_voted_round, o, tc, n)
  BY Zenon, <1>2, <1>9, <1>10 DEF safe_to_timeout
<1>12. Leaves(n)
  BY Zenon, <1>2, <1>4, <1>9, <1>10, <1>11 DEF Leaves
<1> QED
  BY Zenon, <1>12 DEF n

LEMMA TimeoutLeaves ==
    ASSUME TypeOK, NEW d \in SafetyDatas, Leaves(d), NEW t \in Timeouts(d)
    PROVE  Leaves([d EXCEPT !.last_voted_round = t[1]])
<1> DEFINE n == [d EXCEPT !.last_voted_round = t[1]]
<1>1. t[1] \in Nat /\ t[2] \in CertifiedRounds(d.epoch) /\ t[2] \in Nat /\ t[2] < t[1]
  BY Zenon, TimeoutFacts
<1>2. PICK tc \in TimeoutCerts(d.epoch) : safe_to_timeout(t[1], t[2], tc, d)
  BY Zenon DEF Timeouts
<1>3. n.epoch = d.epoch /\ n.last_voted_round = t[1] /\ n.one_chain_round = d.one_chain_round
  BY <1>1, RoundStored
<1>4. t[1] # 0
  BY <1>1
<1> HIDE DEF n
<1>5. safe_to_timeout(n.last_voted_round, t[2], tc, n)
  BY Zenon, <1>2, <1>3 DEF safe_to_timeout
<1>6. Leaves(n)
  BY Zenon, <1>1, <1>2, <1>3, <1>4, <1>5 DEF Leaves
<1> QED
  BY Zenon, <1>6 DEF n

LEMMA LeavesStep ==
    ASSUME TypeOK, CanLeave, NEW v \in Honest, Kinds(v)
    PROVE  CanLeave'
<1>1. \A w \in Honest : Leaves(internal_store[w])
  BY Zenon DEF CanLeave, Leaves
<1> SUFFICES ASSUME NEW w \in Honest PROVE Leaves(internal_store[w])'
  BY Zenon DEF CanLeave, Leaves
<1> DEFINE d == internal_store[v]
<1> DEFINE n == internal_store'[w]
<1>2. d \in SafetyDatas /\ Leaves(d)
  BY Zenon, <1>1, DataTypes
<1>3. Leaves(n) \/ \E e \in Epochs : n = NewSafetyData(e)
  <2>1. CASE n = internal_store[w]
    BY Zenon, <1>1, <2>1
  <2>2. ASSUME NEW b, VotesFor(v, b), w = v PROVE Leaves(n)
    <3>1. b \in Votable(d) /\ n = Voted(b, d)
      BY Zenon, <2>2, Stored DEF VotesFor
    <3>2. Leaves(Voted(b, d))
      BY Zenon, <1>2, <3>1, VoteLeaves
    <3> QED
      BY Zenon, <3>1, <3>2
  <2>3. ASSUME NEW t, TimesOut(v, t), w = v PROVE Leaves(n)
    <3>1. t \in Timeouts(d) /\ n = [d EXCEPT !.last_voted_round = t[1]]
      BY Zenon, <2>3, Stored DEF TimesOut
    <3>2. Leaves([d EXCEPT !.last_voted_round = t[1]])
      BY Zenon, <1>2, <3>1, TimeoutLeaves
    <3> QED
      BY Zenon, <3>1, <3>2
  <2>4. ASSUME NEW e \in Epochs, Enters(v, e), w = v PROVE n = NewSafetyData(e)
    BY Zenon, <2>4, Stored DEF Enters
  <2>5. ASSUME w # v PROVE n = internal_store[w]
    BY Zenon, <2>5, Stored DEF Kinds, Quiet, Repeats, VotesFor, TimesOut, Enters
  <2>6. Quiet \/ (\E b : Repeats(v, b)) => n = internal_store[w]
    BY Zenon DEF Quiet, Repeats
  <2> HIDE DEF n
  <2> QED
    BY Zenon, <2>1, <2>2, <2>3, <2>4, <2>5, <2>6 DEF Kinds
<1>4. ASSUME NEW e \in Epochs PROVE Leaves(NewSafetyData(e))
  <2>1. /\ NewSafetyData(e).epoch = e /\ NewSafetyData(e).last_voted_round = 0
        /\ NewSafetyData(e).one_chain_round = 0
    BY DEF NewSafetyData
  <2>2. 0 \in CertifiedRounds(e)
    BY Zenon, CertifiedTypes
  <2>3. ~(0 > 0)
    OBVIOUS
  <2> QED
    BY Zenon, <2>1, <2>2, <2>3 DEF Leaves
<1>5. Leaves(n)
  BY Zenon, <1>3, <1>4
<1> HIDE DEF n
<1>6. \A x : Leaves(x) => Leaves(x)'
  BY Zenon, LeavesStay
<1> QED
  BY Zenon, <1>5, <1>6 DEF Leaves, n


LEMMA InitInv == Init => Inv
<1> SUFFICES ASSUME Init PROVE Inv
  OBVIOUS
<1>1. 1 \in Epochs /\ 1 \in Nat
  BY EpochsType
<1>2. NewSafetyData(1) \in SafetyDatas
  BY Zenon, <1>1, NewDataType
<1>3. /\ NewSafetyData(1).epoch = 1 /\ NewSafetyData(1).last_voted_round = 0
      /\ NewSafetyData(1).one_chain_round = 0 /\ NewSafetyData(1).last_vote = {}
  BY DEF NewSafetyData
<1>4. \A v \in Honest : internal_store[v] = NewSafetyData(1)
  BY DEF Init
<1>5. TypeOK
  <2>1. faults \in 0 .. MaxFaults
    BY BoundsAssumption DEF Init
  <2>2. \A v \in Honest : \A b \in internal_store[v].last_vote : b.epoch = internal_store[v].epoch
    BY Zenon, <1>3, <1>4
  <2>3. /\ internal_store \in [Honest -> SafetyDatas]
        /\ cached_safety_data \in [Honest -> SUBSET SafetyDatas]
        /\ waypoint \in [Honest -> Epochs] /\ validator_signer \in [Honest -> BOOLEAN]
    BY <1>1, <1>2 DEF Init
  <2>4. votes = {} /\ timeouts = {}
    BY DEF Init
  <2> QED
    BY <2>1, <2>2, <2>3, <2>4 DEF TypeOK
<1>6. CacheCoherent
  BY <1>4 DEF CacheCoherent, Init
<1>8. \A v \in Honest : Signed(v) = {}
  BY Zenon, <1>3, <1>4 DEF Signed, Init
<1>9. VotesOK /\ OneSigned
  BY Zenon, <1>8 DEF VotesOK, OneSigned
<1>10. TimeoutsOK /\ TimeoutsLocked
  BY Zenon DEF TimeoutsOK, TimeoutsLocked, Init
<1>11. CanLeave
  <2>1. 0 \in CertifiedRounds(1)
    BY Zenon, <1>1, <1>5, CertifiedTypes
  <2>2. ~(0 > 0)
    OBVIOUS
  <2> QED
    BY Zenon, <1>3, <1>4, <2>1, <2>2 DEF CanLeave
<1> QED
  BY Zenon, <1>5, <1>6, <1>9, <1>10, <1>11 DEF Inv

LEMMA QuietStep ==
    ASSUME Inv, Aside', Quiet
    PROVE  Inv'
<1>1. UNCHANGED internal_store /\ UNCHANGED votes /\ UNCHANGED timeouts
  BY Zenon DEF Quiet
<1>2. TypeOK' /\ CacheCoherent'
  BY Zenon, <1>1 DEF Inv, TypeOK, Aside
<1>3. \A v : Signed(v)' = Signed(v)
  BY Zenon, <1>1 DEF Signed
<1>4. \A v : Kinds(v)
  BY Zenon DEF Kinds
<1>5. VotesOK'
  <2>1. \A b : Justified(b) => Justified(b)'
    BY Zenon, <1>4, JustifiedStays
  <2>2. \A v, b : Behind(v, b) => Behind(v, b)'
    BY Zenon, <1>1 DEF Behind, Round, Parent
  <2> QED
    BY Zenon, <1>3, <2>1, <2>2 DEF Inv, VotesOK
<1>6. OneSigned' /\ TimeoutsOK' /\ TimeoutsLocked'
  BY Zenon, <1>1, <1>3 DEF Inv, OneSigned, TimeoutsOK, TimeoutsLocked, Round, Parent
<1>7. CanLeave'
  <2>1. \A d : Leaves(d) => Leaves(d)'
    BY Zenon, <1>4, LeavesStay
  <2>2. \A v \in Honest : Leaves(internal_store[v])
    BY Zenon DEF Inv, CanLeave, Leaves
  <2>3. \A v \in Honest : Leaves(internal_store[v])'
    BY Zenon, <1>1, <2>1, <2>2 DEF Leaves
  <2> QED
    BY Zenon, <2>3 DEF CanLeave, Leaves
<1> QED
  BY Zenon, <1>2, <1>5, <1>6, <1>7 DEF Inv

LEMMA InvStep == Inv /\ [Next]_vars => Inv'
<1> SUFFICES ASSUME Inv, [Next]_vars PROVE Inv'
  BY Zenon
<1>1. Aside' /\ (Quiet \/ \E v \in Honest : Kinds(v))
  BY Zenon, StepKinds DEF Inv
<1>2. ASSUME NEW v \in Honest, Kinds(v) PROVE Inv'
  <2>1. TypeOK'
    BY Zenon, <1>1, <1>2, TypeStep DEF Inv
  <2>2. CacheCoherent'
    BY Zenon, <1>1 DEF Aside
  <2>3. VotesOK' /\ OneSigned'
    BY Zenon, <1>2, VotesStep, OneSignedStep DEF Inv
  <2>4. TimeoutsOK' /\ TimeoutsLocked'
    BY Zenon, <1>2, <2>1, TimeoutsStep, LockedStep DEF Inv
  <2>5. CanLeave'
    BY Zenon, <1>2, LeavesStep DEF Inv
  <2> QED
    BY Zenon, <2>1, <2>2, <2>3, <2>4, <2>5 DEF Inv
<1>3. CASE Quiet
  BY Zenon, <1>1, <1>3, QuietStep
<1> QED
  BY Zenon, <1>1, <1>2, <1>3


-----------------------------------------------------------------------------
(* A committed block is locked *)

LEMMA LeastOf ==
    ASSUME NEW S \in SUBSET Nat, S # {}
    PROVE  \E x \in S : \A y \in S : x <= y
<1> DEFINE Below == {ss \in Nat \X Nat : ss[1] < ss[2]}
<1>1. IsWellFoundedOn(Below, Nat)
  BY Zenon, NatLessThanWellFounded DEF OpToRel
<1>2. PICK x \in S : \A y \in S : ~(<<y, x>> \in Below)
  <2> HIDE DEF Below
  <2> QED
    BY Zenon, <1>1, WFMin
<1>3. ASSUME NEW y \in S, y < x PROVE <<y, x>> \in Below
  <2>1. <<y, x>> \in Nat \X Nat /\ <<y, x>>[1] = y /\ <<y, x>>[2] = x
    OBVIOUS
  <2> QED
    BY Zenon, <1>3, <2>1
<1>4. \A y \in S : ~(y < x)
  BY Zenon, <1>2, <1>3
<1>5. \A y \in S : x <= y
  BY <1>4
<1> QED
  BY Zenon, <1>5

\* A quorum has voted for a certified block of a positive round.
LEMMA Voters ==
    ASSUME TypeOK, NEW b, Certified(b), Round(b) # 0
    PROVE  \E Q \in Quorums : \A v \in Q \cap Honest : b \in Signed(v)
<1>1. PICK Q \in Quorums : \A v \in Q \cap Honest : <<v, b>> \in votes
  BY Zenon DEF Certified
<1>2. ASSUME NEW v, <<v, b>> \in votes PROVE b \in Signed(v)
  <2>1. <<v, b>>[1] = v /\ <<v, b>>[2] = b
    OBVIOUS
  <2> QED
    BY Zenon, <1>2, <2>1 DEF Signed
<1> QED
  BY Zenon, <1>1, <1>2

\* Two certified blocks of one round are one.
LEMMA OneCertified ==
    ASSUME Inv, NEW a, NEW b, Certified(a), Certified(b),
           a.epoch = b.epoch, Round(a) = Round(b), Round(b) # 0
    PROVE  a = b
<1>1. PICK Q \in Quorums : \A v \in Q \cap Honest : a \in Signed(v)
  BY Zenon, Voters DEF Inv
<1>2. PICK R \in Quorums : \A v \in R \cap Honest : b \in Signed(v)
  BY Zenon, Voters DEF Inv
<1>3. PICK v \in Honest : v \in Q /\ v \in R
  BY Zenon, QuorumAssumption
<1> QED
  BY Zenon, <1>1, <1>2, <1>3 DEF Inv, OneSigned

\* What the comparisons of rounds and epochs need of arithmetic.
LEMMA Chained ==
    ASSUME NEW a \in Nat, NEW b \in Nat, NEW c \in Nat, a <= b
    PROVE  /\ b <= c \/ c = b => a <= c
           /\ c >= b => a <= c /\ c >= a
  OBVIOUS

LEMMA Compared ==
    ASSUME NEW a \in Nat, NEW b \in Nat
    PROVE  /\ a = b => a <= b
           /\ a > b => a >= b
           /\ a < b => ~ (b <= a)
           /\ a >= b /\ a # b /\ a # b + 1 => a > b + 1
  OBVIOUS

\* A block certified after c has a parent not older than the parent of c.
LEMMA NotBelow ==
    ASSUME Inv, NEW e \in Epochs, NEW c \in CertifiedBlocks(e), NEW x \in CertifiedBlocks(e),
           Round(c) # 0, Round(x) > Round(c), Round(c) = Round(Parent(c)) + 1
    PROVE  /\ x.path # << >> /\ Parent(x) \in CertifiedBlocks(e)
           /\ Round(Parent(x)) < Round(x) /\ Round(Parent(x)) >= Round(Parent(c))
<1>1. /\ c \in Blocks /\ c.epoch = e /\ Certified(c)
      /\ x \in Blocks /\ x.epoch = e /\ Certified(x)
  BY Zenon, CertifiedTypes DEF Inv
<1>2. Round(c) \in Nat /\ Round(x) \in Nat
  BY Zenon, <1>1, RoundType
<1>3. Round(x) # 0
  BY <1>2
<1>4. PICK R \in Quorums : \A v \in R \cap Honest : x \in Signed(v)
  BY Zenon, <1>1, <1>3, Voters DEF Inv
<1>5. PICK w \in Honest : x \in Signed(w)
  BY Zenon, <1>4, QuorumAssumption
<1>6. Justified(x)
  BY Zenon, <1>5 DEF Inv, VotesOK
<1>7. x.path # << >> /\ Parent(x) \in CertifiedBlocks(e) /\ Round(Parent(x)) < Round(x)
  BY Zenon, <1>1, <1>6 DEF Justified
<1>8. PICK tc \in TimeoutCerts(e) : safe_to_vote(x, tc)
  BY Zenon, <1>1, <1>6 DEF Justified
<1>9. Parent(c) \in Blocks /\ Round(Parent(c)) \in Nat /\ Round(Parent(x)) \in Nat
  <2>1. c.path # << >>
    BY Zenon, <1>1, RoundType
  <2> QED
    BY Zenon, <1>1, <1>7, <2>1, ParentType, RoundType
<1>10. CASE Round(x) = Round(Parent(x)) + 1
  BY <1>2, <1>7, <1>9, <1>10
<1>11. CASE Round(x) = tc.round + 1 /\ Round(Parent(x)) >= tc.hqc
  <2>1. tc.round \in Nat /\ tc.hqc \in Nat
    BY Zenon, TimeoutCertFacts DEF Inv
  <2>2. tc.round > 0 /\ Round(c) <= tc.round
    BY <1>2, <1>11, <2>1
  <2>3. PICK Q \in Quorums : \A v \in Q \cap Honest :
          \E h \in CertifiedRounds(e) : h <= tc.hqc /\ <<v, e, tc.round, h>> \in timeouts
    BY Zenon, <2>2, TimeoutCertFacts DEF Inv
  <2>4. PICK S \in Quorums : \A v \in S \cap Honest : c \in Signed(v)
    BY Zenon, <1>1, Voters DEF Inv
  <2>5. PICK v \in Honest : v \in Q /\ v \in S
    BY Zenon, QuorumAssumption
  <2>6. PICK h \in CertifiedRounds(e) : h <= tc.hqc /\ <<v, e, tc.round, h>> \in timeouts
    BY Zenon, <2>3, <2>5
  <2>7. Round(Parent(c)) <= h
    <3> DEFINE t == <<v, e, tc.round, h>>
    <3>1. t[1] = v /\ t[2] = e /\ t[3] = tc.round /\ t[4] = h
      OBVIOUS
    <3>2. t \in timeouts /\ c \in Signed(t[1]) /\ c.epoch = t[2] /\ Round(c) <= t[3]
      BY Zenon, <1>1, <2>2, <2>4, <2>5, <2>6, <3>1
    <3> HIDE DEF t
    <3> QED
      BY Zenon, <3>1, <3>2 DEF Inv, TimeoutsLocked
  <2>8. h \in Nat
    BY CertifiedTypes DEF Inv
  <2>9. Round(Parent(x)) >= Round(Parent(c))
    BY Zenon, <1>9, <1>11, <2>1, <2>6, <2>7, <2>8, Chained
  <2> QED
    BY Zenon, <1>7, <2>9
<1> QED
  BY Zenon, <1>8, <1>10, <1>11 DEF safe_to_vote

LEMMA InvLocks == Inv => CommittedIsLocked
<1> SUFFICES ASSUME Inv, NEW e \in Epochs, NEW b \in CertifiedBlocks(e), NEW c \in CertifiedBlocks(e),
                    Commits(c, b)
             PROVE  \A x \in CertifiedBlocks(e) : Round(x) >= Round(b) => Extends(x, b)
  BY Zenon DEF CommittedIsLocked
<1> DEFINE Bad == {x \in CertifiedBlocks(e) : Round(x) >= Round(b) /\ ~ Extends(x, b)}
<1>1. \A x \in CertifiedBlocks(e) : x \in Blocks /\ x.epoch = e /\ Certified(x)
  BY Zenon, CertifiedTypes DEF Inv
<1>2. \A x \in CertifiedBlocks(e) : Round(x) \in Nat
  BY Zenon, <1>1, RoundType
<1>3. Round(c) > 0 /\ b = Parent(c) /\ Round(c) = Round(b) + 1
  BY Zenon DEF Commits
<1>4. Round(c) # 0 /\ c.path # << >>
  <2>1. Round(c) # 0
    BY <1>2, <1>3
  <2> QED
    BY Zenon, <1>1, <2>1, RoundType
<1>5. ASSUME Bad # {} PROVE FALSE
  <2>1. {Round(x) : x \in Bad} \in SUBSET Nat /\ {Round(x) : x \in Bad} # {}
    BY <1>2, <1>5
  <2>2. PICK x \in Bad : \A y \in Bad : Round(x) <= Round(y)
    <3> DEFINE S == {Round(x) : x \in Bad}
    <3>1. \E m \in S : \A n \in S : m <= n
      <4> HIDE DEF S
      <4> QED
        BY Zenon, <2>1, LeastOf DEF S
    <3> QED
      BY Zenon, <3>1
  <2>3. x \in CertifiedBlocks(e) /\ Round(x) >= Round(b) /\ ~ Extends(x, b)
    BY Zenon, <2>2
  <2>4. x \in Blocks /\ x.epoch = e /\ Certified(x) /\ b \in Blocks /\ b.epoch = e /\ Certified(b)
    BY Zenon, <1>1, <2>3
  <2>5. Round(b) # 0
    <3>1. ASSUME Round(b) = 0 PROVE Extends(x, b)
      BY Zenon, <2>4, <3>1, RoundType, ExtendsFacts
    <3> QED
      BY Zenon, <2>3, <3>1
  <2>6. Round(x) # Round(b)
    <3>1. ASSUME Round(x) = Round(b) PROVE Extends(x, b)
      BY Zenon, <2>4, <2>5, <3>1, OneCertified, ExtendsFacts
    <3> QED
      BY Zenon, <2>3, <3>1
  <2>7. Round(x) # Round(c)
    <3>1. ASSUME Round(x) = Round(c) PROVE Extends(x, b)
      <4>1. x = c
        BY Zenon, <1>1, <1>4, <2>4, <3>1, OneCertified
      <4> QED
        BY Zenon, <1>1, <1>3, <1>4, <4>1, ExtendsFacts
    <3> QED
      BY Zenon, <2>3, <3>1
  <2>8. Round(x) > Round(c)
    <3>1. Round(x) \in Nat /\ Round(b) \in Nat
      BY Zenon, <1>2, <2>3
    <3>2. Round(x) # Round(b) + 1
      BY Zenon, <1>3, <2>7
    <3>3. Round(x) > Round(b) + 1
      BY Zenon, <2>3, <2>6, <3>1, <3>2, Compared
    <3> QED
      BY Zenon, <1>3, <3>3
  <2>9. /\ x.path # << >> /\ Parent(x) \in CertifiedBlocks(e)
        /\ Round(Parent(x)) < Round(x) /\ Round(Parent(x)) >= Round(b)
    BY Zenon, <1>3, <1>4, <2>3, <2>8, NotBelow
  <2>10. Parent(x) \notin Bad
    BY Zenon, <1>2, <2>2, <2>3, <2>9, Compared
  <2>11. Extends(Parent(x), b)
    BY Zenon, <2>9, <2>10
  <2> QED
    BY Zenon, <2>3, <2>4, <2>9, <2>11, ExtendsChild
<1> QED
  BY Zenon, <1>5

\* Committed blocks of one epoch are on one chain.
Agreement ==
    \A e \in Epochs : \A a, b \in Blocks :
        a.epoch = e /\ b.epoch = e /\ Committed(a) /\ Committed(b) => Extends(a, b) \/ Extends(b, a)

\* A committed block is certified: nobody votes for its child before it is.
LEMMA CommittedIsCertified ==
    ASSUME Inv, NEW e \in Epochs, NEW b, b.epoch = e, Committed(b)
    PROVE  b \in CertifiedBlocks(e) /\ \E c \in CertifiedBlocks(e) : Commits(c, b)
<1>1. PICK c \in CertifiedBlocks(e) : Commits(c, b)
  BY Zenon DEF Committed
<1>2. c \in Blocks /\ c.epoch = e /\ Certified(c)
  BY Zenon, CertifiedTypes DEF Inv
<1>3. Round(c) # 0 /\ b = Parent(c)
  <2>1. Round(c) > 0 /\ b = Parent(c) /\ Round(c) \in Nat
    BY Zenon, <1>1, <1>2, RoundType DEF Commits
  <2> QED
    BY <2>1
<1>4. PICK v \in Honest : c \in Signed(v)
  BY Zenon, <1>2, <1>3, Voters, QuorumAssumption DEF Inv
<1>5. Parent(c) \in CertifiedBlocks(e)
  BY Zenon, <1>2, <1>4 DEF Inv, VotesOK, Justified
<1> QED
  BY Zenon, <1>1, <1>3, <1>5

-----------------------------------------------------------------------------
(* The theorems *)

\* The invariant holds whatever validators crash, fail to write or are asked
\* again (SafetyRules, PersistentSafetyStorage).
THEOREM Invariance == Spec => []Inv
<1>1. Init => Inv
  BY InitInv
<1>2. Inv /\ [Next]_vars => Inv'
  BY InvStep
<1> QED
  BY <1>1, <1>2, PTL DEF Spec

\* The stored and the cached safety data, and all signatures, have the types of
\* the code, and a stored vote is of the stored epoch.
THEOREM TypeCorrect == Spec => []TypeOK
<1>1. Inv => TypeOK
  BY Zenon DEF Inv
<1> QED
  BY <1>1, Invariance, PTL

\* The cached copy is never older than the stored one (set_safety_data).
THEOREM Coherent == Spec => []CacheCoherent
<1>1. Inv => CacheCoherent
  BY Zenon DEF Inv
<1> QED
  BY <1>1, Invariance, PTL

\* The epoch that is stored after a step is that of before, or the waypoint's.
LEMMA EpochSource ==
    ASSUME TypeOK, NEW v \in Honest, Kinds(v), NEW w \in Honest
    PROVE  internal_store'[w].epoch = internal_store[w].epoch \/ internal_store'[w].epoch = waypoint'[w]
<1> DEFINE d == internal_store[v]
<1>1. ASSUME NEW b, VotesFor(v, b), w = v PROVE internal_store'[w].epoch = internal_store[w].epoch
  <2>1. b \in Votable(d) /\ d \in SafetyDatas /\ internal_store'[v] = Voted(b, d)
    BY Zenon, <1>1, DataTypes, Stored DEF VotesFor
  <2>2. Voted(b, d).epoch = d.epoch
    BY Zenon, <2>1, VotedFacts
  <2> QED
    BY Zenon, <1>1, <2>1, <2>2
<1>2. ASSUME NEW t, TimesOut(v, t), w = v PROVE internal_store'[w].epoch = internal_store[w].epoch
  <2>1. t \in Timeouts(d) /\ d \in SafetyDatas /\ internal_store'[v] = [d EXCEPT !.last_voted_round = t[1]]
    BY Zenon, <1>2, DataTypes, Stored DEF TimesOut
  <2>2. t[1] \in Nat
    BY Zenon, <2>1, TimeoutFacts
  <2>3. internal_store'[v].epoch = d.epoch
    <3> HIDE DEF d
    <3> QED
      BY <2>1, <2>2, RoundStored
  <2> QED
    BY Zenon, <1>2, <2>3
<1>3. ASSUME NEW e \in Epochs, Enters(v, e), w = v PROVE internal_store'[w].epoch = waypoint'[w]
  <2>1. NewSafetyData(e).epoch = e
    BY DEF NewSafetyData
  <2> QED
    BY Zenon, <1>3, <2>1, Stored DEF Enters
<1>4. ASSUME w # v PROVE internal_store'[w] = internal_store[w]
  BY Zenon, <1>4, Stored DEF Kinds, Quiet, Repeats, VotesFor, TimesOut, Enters
<1>5. Quiet \/ (\E b : Repeats(v, b)) => internal_store'[w] = internal_store[w]
  BY Zenon DEF Quiet, Repeats
<1> QED
  BY Zenon, <1>1, <1>2, <1>3, <1>4, <1>5 DEF Kinds

\* Who has the key had it before, and the waypoint is not an older one, or has
\* just been initialized in the epoch of the waypoint.
Keeps(w) ==
    \/ validator_signer[w] /\ (waypoint'[w] = waypoint[w] \/ waypoint'[w] >= waypoint[w])
    \/ internal_store'[w].epoch = waypoint'[w]

LEMMA InitializeKeeps ==
    ASSUME TypeOK, CacheCoherent, NEW v \in Honest, initialize(v),
           NEW w \in Honest, validator_signer'[w]
    PROVE  Keeps(w)
<1> DEFINE d == internal_store[v]
<1>1. SafetyData(v) = d
  BY Zenon, Loaded
<1>2. PICK e \in Epochs :
        /\ e >= waypoint[v] /\ SetWaypoint(v, e)
        /\ \/ SetSafetyData(v, NewSafetyData(e)) /\ ReconcileKey(v)
           \/ UNCHANGED validator_signer
           \/ InEpoch(e, d) /\ ReconcileKey(v) /\ UNCHANGED internal_store
  BY Zenon, <1>1 DEF initialize
<1>3. waypoint' = [waypoint EXCEPT ![v] = e] /\ waypoint \in [Honest -> Epochs]
  BY Zenon, <1>2 DEF SetWaypoint, TypeOK
<1>4. waypoint'[v] = e /\ (w # v => waypoint'[w] = waypoint[w])
  BY Zenon, <1>3
<1>5. CASE UNCHANGED validator_signer
  BY Zenon, <1>2, <1>4, <1>5 DEF Keeps
<1>6. CASE ReconcileKey(v) /\ w # v
  <2>1. validator_signer'[w] = validator_signer[w]
    BY Zenon, <1>6 DEF ReconcileKey, TypeOK
  <2> QED
    BY Zenon, <1>4, <1>6, <2>1 DEF Keeps
<1>7. CASE SetSafetyData(v, NewSafetyData(e)) /\ w = v
  <2>1. internal_store'[v] = NewSafetyData(e)
    BY Zenon, <1>7 DEF SetSafetyData, TypeOK
  <2>2. NewSafetyData(e).epoch = e
    BY DEF NewSafetyData
  <2> QED
    BY Zenon, <1>4, <1>7, <2>1, <2>2 DEF Keeps
<1>8. CASE InEpoch(e, d) /\ UNCHANGED internal_store /\ w = v
  BY Zenon, <1>4, <1>8 DEF Keeps, InEpoch
<1> QED
  BY Zenon, <1>2, <1>5, <1>6, <1>7, <1>8

LEMMA StepKeeps ==
    ASSUME TypeOK, CacheCoherent, [Next]_vars, NEW w \in Honest, validator_signer'[w]
    PROVE  Keeps(w)
<1>1. ASSUME UNCHANGED waypoint, UNCHANGED validator_signer PROVE Keeps(w)
  BY Zenon, <1>1 DEF Keeps
<1>2. ASSUME NEW v \in Honest,
             \/ construct_and_sign_vote_two_chain(v) \/ RepeatVote(v) \/ sign_timeout_with_qc(v)
             \/ consensus_state(v)
      PROVE  Keeps(w)
  BY Zenon, <1>1, <1>2 DEF construct_and_sign_vote_two_chain, RepeatVote, sign_timeout_with_qc,
        consensus_state
<1>3. ASSUME NEW v \in Honest, WaypointFails(v) PROVE Keeps(w)
  <2>1. PICK e \in Epochs : e > waypoint[v] /\ waypoint' \in {waypoint, [waypoint EXCEPT ![v] = e]}
    BY Zenon, <1>3 DEF WaypointFails
  <2>2. waypoint \in [Honest -> Epochs] /\ waypoint[v] \in Nat /\ e \in Nat
    BY Zenon, EpochsType DEF TypeOK
  <2>3. e >= waypoint[v]
    BY Zenon, <2>1, <2>2, Compared
  <2>4. waypoint'[w] = waypoint[w] \/ waypoint'[w] >= waypoint[w]
    BY Zenon, <2>1, <2>2, <2>3
  <2> QED
    BY Zenon, <1>3, <2>4 DEF WaypointFails, Keeps
<1>4. ASSUME NEW v \in Honest, Restart(v) \/ insert_waypoint(v) PROVE Keeps(w)
  <2>1. validator_signer' = [validator_signer EXCEPT ![v] = FALSE] /\ validator_signer \in [Honest -> BOOLEAN]
    BY Zenon, <1>4 DEF Restart, insert_waypoint, TypeOK
  <2>2. w # v /\ validator_signer[w]
    BY Zenon, <2>1
  <2>3. waypoint'[w] = waypoint[w]
    BY Zenon, <1>4, <2>2 DEF Restart, insert_waypoint, SetWaypoint, TypeOK
  <2> QED
    BY Zenon, <2>2, <2>3 DEF Keeps
<1>5. UNCHANGED vars => Keeps(w)
  BY Zenon, <1>1 DEF vars
<1> QED
  BY Zenon, <1>2, <1>3, <1>4, <1>5, InitializeKeeps DEF Next

LEMMA CoversStep ==
    ASSUME Inv, SignsCoveredEpoch, [Next]_vars
    PROVE  SignsCoveredEpoch'
<1> SUFFICES ASSUME NEW w \in Honest, validator_signer'[w]
             PROVE  internal_store'[w].epoch <= waypoint'[w]
  BY Zenon DEF SignsCoveredEpoch
<1>1. TypeOK /\ CacheCoherent /\ TypeOK'
  BY Zenon, InvStep DEF Inv
<1>2. /\ waypoint[w] \in Nat /\ waypoint'[w] \in Nat
      /\ internal_store[w].epoch \in Nat
  <2>1. waypoint[w] \in Epochs /\ waypoint'[w] \in Epochs
    BY Zenon, <1>1 DEF TypeOK
  <2>2. internal_store[w].epoch \in Nat
    BY Zenon, <1>1, DataTypes
  <2> QED
    BY Zenon, <2>1, <2>2, EpochsType
<1>3. internal_store'[w].epoch = internal_store[w].epoch \/ internal_store'[w].epoch = waypoint'[w]
  BY Zenon, <1>1, StepKinds, EpochSource DEF Quiet
<1>4. CASE internal_store'[w].epoch = waypoint'[w]
  BY Zenon, <1>2, <1>4, Compared
<1>5. CASE validator_signer[w] /\ (waypoint'[w] = waypoint[w] \/ waypoint'[w] >= waypoint[w])
  <2>1. internal_store[w].epoch <= waypoint[w]
    BY Zenon, <1>5 DEF SignsCoveredEpoch
  <2>2. internal_store[w].epoch <= waypoint'[w]
    BY Zenon, <1>2, <1>5, <2>1, Chained
  <2> QED
    BY Zenon, <1>3, <1>4, <2>2
<1> QED
  BY Zenon, <1>1, <1>4, <1>5, StepKeeps DEF Keeps

\* initialize() leaves no validator with a key in an epoch its waypoint does not
\* cover, wherever it stopped before and whatever waypoint was put back.
THEOREM Covered == Spec => []SignsCoveredEpoch
<1>1. Init => SignsCoveredEpoch
  <2>1. NewSafetyData(1).epoch = 1
    BY DEF NewSafetyData
  <2> QED
    BY <2>1 DEF Init, SignsCoveredEpoch
<1> QED
  BY <1>1, CoversStep, Invariance, PTL DEF Spec

\* construct_and_sign_vote_two_chain never releases two votes of one round.
THEOREM VotesOnce == Spec => []OneVotePerRound
<1>1. ASSUME Inv PROVE OneVotePerRound
  <2> SUFFICES ASSUME NEW x \in votes, NEW y \in votes, x[1] = y[1],
                      x[2].epoch = y[2].epoch, Round(x[2]) = Round(y[2])
               PROVE  x = y
    BY Zenon DEF OneVotePerRound
  <2>1. x \in Honest \X Blocks /\ y \in Honest \X Blocks
    BY Zenon, <1>1 DEF Inv, TypeOK
  <2>2. x[1] \in Honest /\ x[2] \in Signed(x[1]) /\ y[2] \in Signed(x[1])
    BY <2>1 DEF Signed
  <2>3. x[2] = y[2]
    BY Zenon, <1>1, <2>2 DEF Inv, OneSigned
  <2> QED
    BY <2>1, <2>3
<1> QED
  BY <1>1, Invariance, PTL

\* No certified block of its round or a later one leaves a committed block
\* behind (safe_to_vote, safe_to_timeout).
THEOREM Locked == Spec => []CommittedIsLocked
BY Invariance, InvLocks, PTL

\* So the ledgers that two validators commit never disagree within an epoch
\* (construct_ledger_info_2chain).
THEOREM Agrees == Spec => []Agreement
<1>1. ASSUME Inv PROVE Agreement
  <2> SUFFICES ASSUME NEW e \in Epochs, NEW a \in Blocks, NEW b \in Blocks,
                      a.epoch = e, b.epoch = e, Committed(a), Committed(b)
               PROVE  Extends(a, b) \/ Extends(b, a)
    BY Zenon DEF Agreement
  <2>1. /\ a \in CertifiedBlocks(e) /\ \E c \in CertifiedBlocks(e) : Commits(c, a)
        /\ b \in CertifiedBlocks(e) /\ \E c \in CertifiedBlocks(e) : Commits(c, b)
    BY Zenon, <1>1, CommittedIsCertified
  <2>2. Round(a) >= Round(b) \/ Round(b) >= Round(a)
    <3>1. Round(a) \in Nat /\ Round(b) \in Nat
      BY Zenon, RoundType
    <3> QED
      BY <3>1
  <2> QED
    BY Zenon, <1>1, <2>1, <2>2, InvLocks DEF CommittedIsLocked
<1> QED
  BY <1>1, Invariance, PTL

\* In the round of its last signature a validator can sign a timeout.
THEOREM WayOut == Spec => []CanStillTimeout
<1>1. ASSUME Inv PROVE CanStillTimeout
  <2> SUFFICES ASSUME NEW v \in Honest, 0 < internal_store[v].last_voted_round,
                      internal_store[v].last_voted_round < MaxRound[internal_store[v].epoch]
               PROVE  \E t \in Timeouts(internal_store[v]) : t[1] = internal_store[v].last_voted_round
    BY Zenon DEF CanStillTimeout
  <2> DEFINE d == internal_store[v]
  <2> DEFINE r == d.last_voted_round
  <2>1. d \in SafetyDatas /\ d.epoch \in Epochs /\ r \in Nat
    BY Zenon, <1>1, DataTypes DEF Inv
  <2>2. MaxRound[d.epoch] \in Nat
    <3> HIDE DEF d
    <3> QED
      BY <2>1, BoundsAssumption, ElementOfSeq DEF Epochs
  <2>3. r > 0 /\ r \in r .. MaxRound[d.epoch] - 1
    <3> HIDE DEF d
    <3>1. 0 < r /\ r < MaxRound[d.epoch]
      BY Zenon DEF d
    <3> HIDE DEF r
    <3> QED
      BY <2>1, <2>2, <3>1 DEF r
  <2>4. PICK h \in CertifiedRounds(d.epoch) : \E tc \in TimeoutCerts(d.epoch) :
          h < r /\ safe_to_timeout(r, h, tc, d)
    BY Zenon, <1>1, <2>3 DEF Inv, CanLeave
  <2> DEFINE t == <<r, h>>
  <2>5. t \in (r .. MaxRound[d.epoch] - 1) \X CertifiedRounds(d.epoch) /\ t[1] = r /\ t[2] = h
    <3> HIDE DEF d
    <3> QED
      BY <2>3, <2>4
  <2> HIDE DEF t
  <2>6. t \in Timeouts(d)
    BY Zenon, <2>4, <2>5 DEF Timeouts
  <2> QED
    BY Zenon, <2>5, <2>6
<1> QED
  BY <1>1, Invariance, PTL

\* No request and no failure takes back what is stored.
THEOREM MovesForward == Spec => StoreMovesOn
<1>1. ASSUME Inv, [Next]_vars, NEW v \in Honest PROVE MovesOn(v)
  <2>1. CASE UNCHANGED internal_store
    BY <1>1, <2>1, DataTypes DEF Inv, MovesOn
  <2>2. CASE \E w \in Honest : Kinds(w)
    BY Zenon, <1>1, <2>2, KindMoves DEF Inv
  <2> QED
    BY Zenon, <1>1, <2>1, <2>2, StepKinds DEF Inv, Quiet
<1>2. Inv /\ [Next]_vars =>
        [\A v \in Honest :
            LET d == internal_store[v]  n == internal_store'[v] IN
            \/ n.epoch > d.epoch /\ n = NewSafetyData(n.epoch)
            \/ /\ n.epoch = d.epoch
               /\ n.last_voted_round >= d.last_voted_round
               /\ n.one_chain_round >= d.one_chain_round
               /\ n.preferred_round >= d.preferred_round]_vars
  BY Zenon, <1>1 DEF MovesOn
<1> QED
  BY <1>2, Invariance, PTL DEF Spec, StoreMovesOn

=============================================================================
