-------------------------- MODULE SafetyRulesSteps --------------------------
(***************************************************************************)
(* Every step of the safety rules is quiet, repeats a vote, votes, times   *)
(* out or enters an epoch; what each of these does to what is stored, to   *)
(* what has been signed, and to the certificates.                          *)
(*                                                                         *)
(* A validator may have stored a vote that it never released, and release  *)
(* it later: the invariant is about the votes it has signed.               *)
(***************************************************************************)
EXTENDS SafetyRules, SequenceTheorems, TLAPS

(* The time for a step that names no prover.                               *)
USE SMTT(45), ZenonT(20)

Signed(v) == {x[2] : x \in {y \in votes : y[1] = v}} \cup internal_store[v].last_vote

\* A vote that v signed is not past what it has stored.
Behind(v, b) ==
    LET d == internal_store[v] IN
    /\ b.epoch <= d.epoch
    /\ b.epoch = d.epoch => /\ Round(b) <= d.last_voted_round
                            /\ Round(Parent(b)) <= d.one_chain_round

\* There is reason to vote for b.
Justified(b) ==
    /\ b.path # << >>
    /\ Parent(b) \in CertifiedBlocks(b.epoch)
    /\ Round(Parent(b)) < Round(b)
    /\ \E tc \in TimeoutCerts(b.epoch) : safe_to_vote(b, tc)

VotesOK == \A v \in Honest : \A b \in Signed(v) : Behind(v, b) /\ Justified(b)

OneSigned ==
    \A v \in Honest : \A a, b \in Signed(v) :
        a.epoch = b.epoch /\ Round(a) = Round(b) => a = b

\* A timeout is not past what is stored.
TimeoutsOK ==
    \A t \in timeouts :
        LET d == internal_store[t[1]] IN
        t[2] <= d.epoch /\ (t[2] = d.epoch => t[3] <= d.last_voted_round)

\* The certificate in a timeout of the round of a vote, or of a later round, is
\* at least as high as the one in the block voted for.
TimeoutsLocked ==
    \A t \in timeouts : \A b \in Signed(t[1]) :
        b.epoch = t[2] /\ Round(b) <= t[3] => Round(Parent(b)) <= t[4]

\* The round of the highest certificate seen is that of a certificate, and there
\* are certificates with which to leave the round of the last signature.
CanLeave ==
    \A v \in Honest :
        LET d == internal_store[v] IN
        /\ d.one_chain_round \in CertifiedRounds(d.epoch)
        /\ d.last_voted_round = 0 => d.one_chain_round = 0
        /\ d.last_voted_round > 0 =>
             \E h \in CertifiedRounds(d.epoch) : \E tc \in TimeoutCerts(d.epoch) :
                h < d.last_voted_round /\ safe_to_timeout(d.last_voted_round, h, tc, d)

Inv ==
    /\ TypeOK /\ CacheCoherent
    /\ VotesOK /\ OneSigned /\ TimeoutsOK /\ TimeoutsLocked /\ CanLeave

-----------------------------------------------------------------------------
(* Blocks *)

\* A path without its last step, and with one more.
LEMMA FrontFacts ==
    ASSUME NEW S, NEW s \in Seq(S), s # << >>
    PROVE  /\ Len(s) \in Nat \ {0}
           /\ Last(s) \in S
           /\ Front(s) \in Seq(S)
           /\ Len(Front(s)) = Len(s) - 1
           /\ \A n \in 1 .. Len(s) - 1 : Front(s)[n] = s[n]
<1>1. Len(s) \in Nat \ {0}
  BY EmptySeq
<1>2. \A n \in 1 .. Len(s) : s[n] \in S
  BY ElementOfSeq
<1>3. Last(s) \in S
  BY <1>1, <1>2 DEF Last
<1>4. Front(s) \in Seq(S) /\ \A n \in 1 .. Len(s) - 1 : Front(s)[n] = s[n]
  BY <1>1 DEF Front
<1>5. CASE Len(s) = 1
  <2>1. SubSeq(s, 1, 0) = << >>
    BY SubSeqEmpty
  <2> QED
    BY <1>1, <1>3, <1>4, <1>5, <2>1 DEF Front
<1>6. CASE Len(s) > 1
  <2>1. Len(Front(s)) = Len(s) - 1
    BY <1>1, <1>6 DEF Front
  <2> QED
    BY <1>1, <1>3, <1>4, <2>1
<1>7. Len(s) = 1 \/ Len(s) > 1
  <2>1. \A n \in Nat \ {0} : n = 1 \/ n > 1
    OBVIOUS
  <2> QED
    BY Zenon, <1>1, <2>1
<1> QED
  BY Zenon, <1>5, <1>6, <1>7

LEMMA AppendFacts ==
    ASSUME NEW S, NEW s \in Seq(S), NEW x \in S
    PROVE  /\ Append(s, x) \in Seq(S) /\ Append(s, x) # << >>
           /\ Last(Append(s, x)) = x /\ Front(Append(s, x)) = s
<1> DEFINE t == Append(s, x)
<1>1. /\ t \in Seq(S) /\ t # << >> /\ Len(t) = Len(s) + 1
      /\ \A n \in 1 .. Len(s) : t[n] = s[n]
      /\ t[Len(s) + 1] = x
  BY AppendProperties
<1> HIDE DEF t
<1>2. Front(t) \in Seq(S) /\ Len(Front(t)) = Len(s) /\ \A n \in 1 .. Len(s) : Front(t)[n] = s[n]
  BY <1>1, FrontFacts, LenProperties
<1>3. Front(t) = s
  BY <1>2, SeqEqual
<1> QED
  BY <1>1, <1>3 DEF Last, t

\* A block has a round; only a genesis block has none.
LEMMA RoundType ==
    ASSUME NEW b \in Blocks
    PROVE  /\ Round(b) \in Nat
           /\ Round(b) = 0 <=> b.path = << >>
           /\ Round(b) = 0 => b = Genesis(b.epoch)
<1> DEFINE Step == [round : Nat \ {0}, payload : Payloads]
<1>1. b.path \in Seq(Step) /\ b = [epoch |-> b.epoch, path |-> b.path]
  BY DEF Blocks
<1>2. b.path # << >> => Last(b.path) \in Step
  BY Zenon, <1>1, FrontFacts
<1> QED
  BY <1>1, <1>2 DEF Round, Genesis

\* The parent of a block is a block of the same epoch.
LEMMA ParentType ==
    ASSUME NEW b \in Blocks, b.path # << >>
    PROVE  Parent(b) \in Blocks /\ Parent(b).epoch = b.epoch
<1> DEFINE Step == [round : Nat \ {0}, payload : Payloads]
<1>1. b.path \in Seq(Step) /\ b.epoch \in Epochs
  BY DEF Blocks
<1>2. Front(b.path) \in Seq(Step)
  BY <1>1, FrontFacts
<1> QED
  BY Zenon, <1>1, <1>2 DEF Parent, Blocks

LEMMA GenesisFacts ==
    ASSUME NEW e \in Epochs
    PROVE  Genesis(e) \in Blocks /\ Genesis(e).epoch = e /\ Round(Genesis(e)) = 0
BY DEF Genesis, Blocks, Round

\* What a proposal is made of can be read off it.
LEMMA ChildFacts ==
    ASSUME NEW q \in Blocks, NEW r \in Nat \ {0}, NEW p \in Payloads
    PROVE  LET c == Child(q, r, p) IN
           /\ c \in Blocks /\ c.epoch = q.epoch /\ c.path # << >>
           /\ Round(c) = r /\ Parent(c) = q
<1> DEFINE Step == [round : Nat \ {0}, payload : Payloads]
<1> DEFINE x == [round |-> r, payload |-> p]
<1> DEFINE c == Child(q, r, p)
<1>1. /\ q.path \in Seq(Step) /\ q.epoch \in Epochs
      /\ q = [epoch |-> q.epoch, path |-> q.path]
  BY DEF Blocks
<1>2. x \in Step /\ x.round = r
  OBVIOUS
<1>3. /\ Append(q.path, x) \in Seq(Step) /\ Append(q.path, x) # << >>
      /\ Last(Append(q.path, x)) = x /\ Front(Append(q.path, x)) = q.path
  <2> HIDE DEF x, Step
  <2> QED
    BY <1>1, <1>2, AppendFacts
<1>4. c.epoch = q.epoch /\ c.path = Append(q.path, x)
  BY DEF Blocks, Child
<1>5. c \in Blocks
  BY Zenon, <1>3 DEF Blocks, Child
<1>6. Parent(c) = [epoch |-> q.epoch, path |-> Front(Append(q.path, x))]
  <2>1. \A y : [c EXCEPT !.path = y] = [epoch |-> c.epoch, path |-> y]
    BY <1>5 DEF Blocks
  <2> HIDE DEF c, x
  <2> QED
    BY <1>4, <2>1 DEF Parent
<1> QED
  BY Zenon, <1>1, <1>2, <1>3, <1>4, <1>5, <1>6 DEF Round

\* Extending a block is reflexive, and passes from a parent to its child.
LEMMA ExtendsFacts ==
    ASSUME NEW b \in Blocks
    PROVE  /\ Extends(b, b)
           /\ Extends(b, Genesis(b.epoch))
           /\ b.path # << >> => Extends(b, Parent(b))
<1> DEFINE Step == [round : Nat \ {0}, payload : Payloads]
<1>1. b.path \in Seq(Step)
  BY DEF Blocks
<1>2. IsPrefix(b.path, b.path)
  BY <1>1 DEF IsPrefix
<1>3. IsPrefix(<< >>, b.path)
  BY <1>1 DEF IsPrefix
<1>4. ASSUME b.path # << >> PROVE IsPrefix(Front(b.path), b.path)
  <2> HIDE DEF Step
  <2>1. Front(b.path) \in Seq(Step) /\ Len(Front(b.path)) = Len(b.path) - 1 /\ Len(b.path) - 1 \in Nat
    BY <1>1, <1>4 DEF Front
  <2>2. SubSeq(Front(b.path), 1, Len(b.path) - 1) = Front(b.path)
    BY <2>1
  <2> QED
    BY <1>1, <2>1, <2>2 DEF IsPrefix, Front
<1> QED
  BY <1>2, <1>3, <1>4, ParentType DEF Extends, Genesis, Parent

LEMMA ExtendsChild ==
    ASSUME NEW b \in Blocks, b.path # << >>, NEW a \in Blocks, Extends(Parent(b), a)
    PROVE  Extends(b, a)
<1> DEFINE Step == [round : Nat \ {0}, payload : Payloads]
<1>1. a.path \in Seq(Step) /\ b.path \in Seq(Step)
  BY DEF Blocks
<1>2. a.epoch = b.epoch /\ IsPrefix(a.path, Front(b.path))
  BY ParentType DEF Extends, Parent
<1> DEFINE f == Front(b.path)
<1>3. f \in Seq(Step) /\ Len(f) = Len(b.path) - 1 /\ \A n \in 1 .. Len(f) : f[n] = b.path[n]
  <2> HIDE DEF Step
  <2> QED
    BY <1>1 DEF Front
<1>4. Len(a.path) <= Len(f) /\ SubSeq(a.path, 1, Len(a.path)) = SubSeq(f, 1, Len(a.path))
  BY <1>2 DEF IsPrefix
<1>5. SubSeq(f, 1, Len(a.path)) = SubSeq(b.path, 1, Len(a.path))
  <2> HIDE DEF Step, f
  <2> QED
    BY <1>1, <1>3, <1>4
<1> QED
  BY <1>1, <1>2, <1>3, <1>4, <1>5 DEF Extends, IsPrefix

-----------------------------------------------------------------------------
(* Certificates only ever become more *)

LEMMA EpochsType == Epochs \subseteq Nat \ {0} /\ 1 \in Epochs
<1>1. Epochs = 1 .. Len(MaxRound) /\ Len(MaxRound) \in Nat \ {0}
  BY BoundsAssumption, LenProperties, EmptySeq DEF Epochs
<1> QED
  BY <1>1

LEMMA CertifiedGrows ==
    ASSUME NEW e, votes \subseteq votes'
    PROVE  /\ CertifiedBlocks(e) \subseteq CertifiedBlocks(e)'
           /\ CertifiedRounds(e) \subseteq CertifiedRounds(e)'
<1>1. ASSUME NEW b, Certified(b) PROVE Certified(b)'
  BY <1>1 DEF Certified
<1>2. CertifiedBlocks(e) \subseteq CertifiedBlocks(e)'
  BY <1>1 DEF CertifiedBlocks
<1> QED
  BY <1>2 DEF CertifiedRounds

LEMMA TimeoutCertsGrow ==
    ASSUME NEW e, votes \subseteq votes', timeouts \subseteq timeouts'
    PROVE  TimeoutCerts(e) \subseteq TimeoutCerts(e)'
<1>1. ASSUME NEW r PROVE TimeoutCertsOf(e, r) \subseteq TimeoutCertsOf(e, r)'
  <2> DEFINE known == {h \in CertifiedRounds(e) : h < r}
  <2> DEFINE rounds(v) == {h \in known : v \in Honest => <<v, e, r, h>> \in timeouts}
  <2>1. known \subseteq known'
    BY CertifiedGrows
  <2>2. \A v : rounds(v) \subseteq rounds(v)'
    BY <2>1
  <2>3. ASSUME NEW h \in known, NEW Q \in Quorums,
               \A v \in Q : \E x \in rounds(v) : x <= h, \E v \in Q : h \in rounds(v)
        PROVE  /\ h \in known'
               /\ \A v \in Q : \E x \in rounds(v)' : x <= h
               /\ \E v \in Q : h \in rounds(v)'
    BY Zenon, <2>1, <2>2, <2>3
  <2> HIDE DEF known, rounds
  <2>4. ASSUME NEW h \in known,
               \E Q \in Quorums : (\A v \in Q : \E x \in rounds(v) : x <= h) /\ \E v \in Q : h \in rounds(v)
        PROVE  /\ h \in known'
               /\ \E Q \in Quorums : (\A v \in Q : \E x \in rounds(v)' : x <= h) /\ \E v \in Q : h \in rounds(v)'
    BY Zenon, <2>3, <2>4
  <2> QED
    BY Zenon, <2>4 DEF TimeoutCertsOf, known, rounds
<1>2. ASSUME NEW tc, NEW t \in timeouts, tc \in TimeoutCertsOf(e, t[3])
      PROVE  tc \in TimeoutCerts(e)'
  <2>1. t \in timeouts' /\ tc \in TimeoutCertsOf(e, t[3])'
    BY Zenon, <1>1, <1>2
  <2> QED
    BY Zenon, <2>1 DEF TimeoutCerts
<1>3. ASSUME NEW tc \in TimeoutCerts(e), tc # NoCert
      PROVE  \E t \in timeouts : tc \in TimeoutCertsOf(e, t[3])
  BY Zenon, <1>3 DEF TimeoutCerts
<1>4. NoCert \in TimeoutCerts(e)'
  BY Zenon DEF TimeoutCerts, NoCert
<1> QED
  BY Zenon, <1>2, <1>3, <1>4

-----------------------------------------------------------------------------
(* What certificates are made of *)

LEMMA CertifiedTypes ==
    ASSUME TypeOK, NEW e \in Epochs
    PROVE  /\ \A b \in CertifiedBlocks(e) : b \in Blocks /\ b.epoch = e /\ Certified(b)
           /\ CertifiedRounds(e) \subseteq Nat
           /\ 0 \in CertifiedRounds(e)
<1>1. \A x \in votes : x[2] \in Blocks
  BY DEF TypeOK
<1>2. \A b \in CertifiedBlocks(e) : b \in Blocks /\ b.epoch = e /\ Certified(b)
  BY <1>1, GenesisFacts DEF CertifiedBlocks, Certified
<1>3. CertifiedRounds(e) \subseteq Nat
  BY <1>2, RoundType DEF CertifiedRounds
<1>4. Genesis(e) \in CertifiedBlocks(e) /\ Round(Genesis(e)) = 0
  BY Zenon, GenesisFacts DEF CertifiedBlocks
<1>5. 0 \in CertifiedRounds(e)
  BY Zenon, <1>4 DEF CertifiedRounds
<1> QED
  BY <1>2, <1>3, <1>5

\* A timeout certificate has the signatures of a quorum; none of them put in a
\* certificate of a later round than the certificate's.
LEMMA TimeoutCertFacts ==
    ASSUME TypeOK, NEW e \in Epochs, NEW tc \in TimeoutCerts(e)
    PROVE  /\ tc.round \in Nat /\ tc.hqc \in Nat
           /\ tc.round > 0 => \E Q \in Quorums : \A v \in Q \cap Honest :
                \E h \in CertifiedRounds(e) : h <= tc.hqc /\ <<v, e, tc.round, h>> \in timeouts
<1>1. CASE tc = NoCert
  BY <1>1 DEF NoCert
<1>2. CASE tc # NoCert
  <2>1. PICK t \in timeouts : tc \in TimeoutCertsOf(e, t[3])
    BY Zenon, <1>2 DEF TimeoutCerts
  <2>2. t[3] \in Nat
    BY DEF TypeOK
  <2> DEFINE r == t[3]
  <2> DEFINE known == {h \in CertifiedRounds(e) : h < r}
  <2> DEFINE rounds(v) == {h \in known : v \in Honest => <<v, e, r, h>> \in timeouts}
  <2>3. PICK h \in known : /\ tc = [round |-> r, hqc |-> h]
                           /\ \E Q \in Quorums : (\A v \in Q : \E x \in rounds(v) : x <= h)
    BY Zenon, <2>1 DEF TimeoutCertsOf
  <2>4. h \in Nat /\ tc.round = r /\ tc.hqc = h
    BY <2>3, CertifiedTypes
  <2>5. PICK Q \in Quorums : \A v \in Q : \E x \in rounds(v) : x <= h
    BY Zenon, <2>3
  <2>6. ASSUME NEW v \in Q \cap Honest
        PROVE  \E x \in CertifiedRounds(e) : x <= h /\ <<v, e, r, x>> \in timeouts
    BY Zenon, <2>5, <2>6
  <2> HIDE DEF r, known
  <2> QED
    BY <2>2, <2>4, <2>6 DEF r
<1> QED
  BY <1>1, <1>2

\* The safety data the rules see is the stored one.
LEMMA Loaded ==
    ASSUME TypeOK, CacheCoherent, NEW v \in Honest
    PROVE  SafetyData(v) = internal_store[v]
<1>1. cached_safety_data[v] \subseteq {internal_store[v]}
  BY DEF CacheCoherent
<1>2. cached_safety_data[v] = {} \/ cached_safety_data[v] = {internal_store[v]}
  BY Zenon, <1>1
<1>3. (CHOOSE d \in {internal_store[v]} : TRUE) = internal_store[v]
  BY Zenon
<1> QED
  BY Zenon, <1>2, <1>3 DEF SafetyData

\* A block that may be voted for, and what the vote leaves stored.
LEMMA VotableFacts ==
    ASSUME TypeOK, NEW d \in SafetyDatas, NEW b \in Votable(d)
    PROVE  /\ b \in Blocks /\ b.epoch = d.epoch /\ b.path # << >>
           /\ Round(b) \in Nat \ {0} /\ Round(b) > d.last_voted_round
           /\ Parent(b) \in Blocks /\ Parent(b) \in CertifiedBlocks(d.epoch)
           /\ Round(Parent(b)) \in Nat
           /\ Round(Parent(b)) < Round(b)
           /\ \E tc \in TimeoutCerts(d.epoch) : safe_to_vote(b, tc)
<1>0. /\ b \in Proposals(d.epoch) /\ Round(b) > d.last_voted_round
      /\ \E tc \in TimeoutCerts(d.epoch) : safe_to_vote(b, tc)
  BY Zenon DEF Votable, NewRound
<1>1. d.epoch \in Epochs /\ MaxRound[d.epoch] \in Nat
  BY BoundsAssumption, ElementOfSeq DEF SafetyDatas, Epochs
<1>2. PICK q \in CertifiedBlocks(d.epoch), r \in 1 .. MaxRound[d.epoch], p \in Payloads :
        b = Child(q, r, p)
  BY <1>0 DEF Proposals
<1>3. q \in Blocks /\ q.epoch = d.epoch /\ r \in Nat \ {0}
  BY <1>1, <1>2, CertifiedTypes
<1>4. /\ b \in Blocks /\ b.epoch = q.epoch /\ b.path # << >>
      /\ Round(b) = r /\ Parent(b) = q
  BY Zenon, <1>2, <1>3, ChildFacts
<1>5. Round(Parent(b)) < Round(b) /\ Round(b) > d.last_voted_round
  BY <1>0 DEF Proposals
<1>6. \E tc \in TimeoutCerts(d.epoch) : safe_to_vote(b, tc)
  BY Zenon, <1>0
<1>7. Round(q) \in Nat
  BY Zenon, <1>3, RoundType
<1> QED
  BY Zenon, <1>2, <1>3, <1>4, <1>5, <1>6, <1>7

LEMMA VotedFacts ==
    ASSUME TypeOK, NEW d \in SafetyDatas, NEW b \in Votable(d)
    PROVE  /\ Voted(b, d) \in SafetyDatas
           /\ Voted(b, d).epoch = d.epoch
           /\ Voted(b, d).last_voted_round = Round(b)
           /\ Voted(b, d).last_vote = {b}
           /\ Voted(b, d).one_chain_round =
                IF Round(Parent(b)) > d.one_chain_round THEN Round(Parent(b)) ELSE d.one_chain_round
           /\ Voted(b, d).preferred_round \in Nat
           /\ Voted(b, d).preferred_round >= d.preferred_round
<1> DEFINE q == Parent(b)
<1> DEFINE two_chain == IF Round(q) = 0 THEN 0 ELSE Round(Parent(q))
<1> DEFINE o == IF Round(q) > d.one_chain_round THEN Round(q) ELSE d.one_chain_round
<1> DEFINE p == IF two_chain > d.preferred_round THEN two_chain ELSE d.preferred_round
<1>1. b \in Blocks /\ q \in Blocks /\ Round(b) \in Nat /\ Round(q) \in Nat
  BY VotableFacts
<1>2. Round(q) # 0 => Round(Parent(q)) \in Nat
  BY <1>1, RoundType, ParentType
<1>3. two_chain \in Nat
  BY <1>2
<1>4. /\ d = [epoch |-> d.epoch, last_voted_round |-> d.last_voted_round,
              preferred_round |-> d.preferred_round, one_chain_round |-> d.one_chain_round,
              last_vote |-> d.last_vote]
      /\ d.epoch \in Epochs /\ d.preferred_round \in Nat /\ d.one_chain_round \in Nat
  BY DEF SafetyDatas
<1> HIDE DEF two_chain
<1>5. p \in Nat /\ p >= d.preferred_round /\ o \in Nat
  BY <1>1, <1>3, <1>4
<1>6. observe_qc(q, d) = [d EXCEPT !.one_chain_round = o, !.preferred_round = p]
  BY Zenon DEF observe_qc, two_chain
<1> HIDE DEF o, p, q
<1>7. observe_qc(q, d) = [epoch |-> d.epoch, last_voted_round |-> d.last_voted_round,
              preferred_round |-> p, one_chain_round |-> o, last_vote |-> d.last_vote]
  BY Zenon, <1>4, <1>6
<1>8. /\ observe_qc(q, d) \in SafetyDatas /\ observe_qc(q, d).epoch = d.epoch
      /\ observe_qc(q, d).preferred_round = p /\ observe_qc(q, d).one_chain_round = o
  BY <1>4, <1>5, <1>7 DEF SafetyDatas
<1>9. /\ Voted(b, d) \in SafetyDatas
       /\ Voted(b, d).epoch = d.epoch
       /\ Voted(b, d).last_voted_round = Round(b)
       /\ Voted(b, d).last_vote = {b}
       /\ Voted(b, d).one_chain_round = o
       /\ Voted(b, d).preferred_round = p
  <2>1. {b} \in SUBSET Blocks
    BY <1>1
  <2>2. Voted(b, d) = [observe_qc(q, d) EXCEPT !.last_voted_round = Round(b), !.last_vote = {b}]
    BY Zenon DEF Voted, q
  <2> QED
    <3> DEFINE n == observe_qc(q, d)
    <3> DEFINE m == Voted(b, d)
    <3>1. n \in SafetyDatas /\ m = [n EXCEPT !.last_voted_round = Round(b), !.last_vote = {b}]
      BY Zenon, <1>8, <2>2
    <3> HIDE DEF n, m
    <3>2. /\ m \in SafetyDatas
          /\ m.epoch = n.epoch /\ m.last_voted_round = Round(b) /\ m.last_vote = {b}
          /\ m.preferred_round = n.preferred_round /\ m.one_chain_round = n.one_chain_round
      BY Zenon, <1>1, <2>1, <3>1 DEF SafetyDatas
    <3> QED
      BY Zenon, <1>8, <3>2 DEF n, m
<1> QED
  BY <1>5, <1>9 DEF o, q

-----------------------------------------------------------------------------
(* The kinds of steps *)

Store(v, d) == internal_store' = [internal_store EXCEPT ![v] = d]

Quiet == UNCHANGED <<internal_store, votes, timeouts>>

Repeats(v, b) ==
    /\ b \in internal_store[v].last_vote
    /\ votes' = votes \cup {<<v, b>>}
    /\ UNCHANGED <<internal_store, timeouts>>

VotesFor(v, b) ==
    /\ b \in Votable(internal_store[v])
    /\ Store(v, Voted(b, internal_store[v]))
    /\ votes' \in {votes, votes \cup {<<v, b>>}}
    /\ UNCHANGED timeouts

TimesOut(v, t) ==
    LET d == internal_store[v] IN
    /\ t \in Timeouts(d)
    /\ Store(v, [d EXCEPT !.last_voted_round = t[1]])
    /\ timeouts' \in {timeouts, timeouts \cup {<<v, d.epoch, t[1], t[2]>>}}
    /\ UNCHANGED votes

Enters(v, e) ==
    /\ e > internal_store[v].epoch
    /\ e = waypoint'[v]
    /\ Store(v, NewSafetyData(e))
    /\ UNCHANGED <<votes, timeouts>>

Kinds(v) ==
    \/ Quiet
    \/ \E b : Repeats(v, b)
    \/ \E b : VotesFor(v, b)
    \/ \E t : TimesOut(v, t)
    \/ \E e \in Epochs : Enters(v, e)

LEMMA TimeoutFacts ==
    ASSUME TypeOK, NEW d \in SafetyDatas, NEW t \in Timeouts(d)
    PROVE  /\ t[1] \in Nat /\ t[1] >= d.last_voted_round
           /\ t[2] \in CertifiedRounds(d.epoch) /\ t[2] \in Nat /\ t[2] < t[1]
           /\ t[2] >= d.one_chain_round
           /\ \E tc \in TimeoutCerts(d.epoch) : t[1] = t[2] + 1 \/ t[1] = tc.round + 1
<1>1. d.epoch \in Epochs /\ MaxRound[d.epoch] \in Nat /\ d.last_voted_round \in Nat
  BY BoundsAssumption, ElementOfSeq DEF SafetyDatas, Epochs
<1>2. t \in (d.last_voted_round .. MaxRound[d.epoch] - 1) \X CertifiedRounds(d.epoch)
  BY Zenon DEF Timeouts
<1>3. t[2] < t[1]
  BY Zenon DEF Timeouts
<1>4. PICK tc \in TimeoutCerts(d.epoch) : safe_to_timeout(t[1], t[2], tc, d)
  BY Zenon DEF Timeouts
<1>5. t[1] \in Nat /\ t[1] >= d.last_voted_round /\ t[2] \in CertifiedRounds(d.epoch)
  BY <1>1, <1>2
<1>6. t[2] \in Nat
  BY Zenon, <1>1, <1>5, CertifiedTypes
<1>7. t[2] >= d.one_chain_round /\ (t[1] = t[2] + 1 \/ t[1] = tc.round + 1)
  BY Zenon, <1>4 DEF safe_to_timeout
<1> QED
  BY Zenon, <1>3, <1>4, <1>5, <1>6, <1>7

LEMMA RoundStored ==
    ASSUME NEW d \in SafetyDatas, NEW r \in Nat
    PROVE  LET n == [d EXCEPT !.last_voted_round = r] IN
           /\ n \in SafetyDatas
           /\ n.epoch = d.epoch /\ n.last_voted_round = r /\ n.last_vote = d.last_vote
           /\ n.one_chain_round = d.one_chain_round /\ n.preferred_round = d.preferred_round
           /\ r = d.last_voted_round => n = d
BY DEF SafetyDatas

LEMMA NewDataType ==
    ASSUME NEW e \in Epochs
    PROVE  NewSafetyData(e) \in SafetyDatas
BY DEF NewSafetyData, SafetyDatas

\* Writing to the store and to the cache.
LEMMA CacheStep ==
    ASSUME TypeOK, CacheCoherent, NEW v \in Honest, NEW d \in SafetyDatas,
           Store(v, d), Cache(v, {d}) \/ Cache(v, {})
    PROVE  CacheCoherent' /\ cached_safety_data' \in [Honest -> SUBSET SafetyDatas]
<1>1. PICK C \in {{d}, {}} : cached_safety_data' = [cached_safety_data EXCEPT ![v] = C]
  BY Zenon DEF Cache
<1>2. C \in SUBSET SafetyDatas /\ C \subseteq {d}
  BY Zenon, <1>1
<1>3. /\ internal_store \in [Honest -> SafetyDatas]
      /\ cached_safety_data \in [Honest -> SUBSET SafetyDatas]
  BY Zenon DEF TypeOK
<1>4. \A w \in Honest : cached_safety_data'[w] \subseteq {internal_store'[w]}
  BY Zenon, <1>1, <1>2, <1>3 DEF CacheCoherent, Store
<1> QED
  BY Zenon, <1>1, <1>2, <1>3, <1>4 DEF CacheCoherent

LEMMA Unstored ==
    ASSUME TypeOK, NEW v \in Honest, UNCHANGED internal_store
    PROVE  Store(v, internal_store[v]) /\ internal_store[v] \in SafetyDatas
BY DEF TypeOK, Store

\* A write, whether it fails or not.
LEMMA WriteStep ==
    ASSUME TypeOK, CacheCoherent, NEW v \in Honest, NEW d \in SafetyDatas,
           SetSafetyData(v, d) \/ SetSafetyDataFails(v, d)
    PROVE  /\ Store(v, d) \/ UNCHANGED internal_store
           /\ SetSafetyData(v, d) => Store(v, d)
           /\ CacheCoherent' /\ cached_safety_data' \in [Honest -> SUBSET SafetyDatas]
           /\ faults' \in 0 .. MaxFaults
<1>1. faults' \in 0 .. MaxFaults
  BY BoundsAssumption DEF TypeOK, SetSafetyData, SetSafetyDataFails, Fault
<1>2. CASE SetSafetyData(v, d)
  BY Zenon, <1>1, <1>2, CacheStep DEF SetSafetyData, Store
<1>3. CASE SetSafetyDataFails(v, d) /\ Store(v, d)
  BY Zenon, <1>1, <1>3, CacheStep DEF SetSafetyDataFails
<1>4. CASE SetSafetyDataFails(v, d) /\ UNCHANGED internal_store
  <2>1. Cache(v, {})
    BY Zenon, <1>4 DEF SetSafetyDataFails
  <2>2. CacheCoherent' /\ cached_safety_data' \in [Honest -> SUBSET SafetyDatas]
    BY Zenon, <1>4, <2>1, Unstored, CacheStep
  <2> QED
    BY Zenon, <1>1, <1>2, <1>4, <2>2 DEF SetSafetyData, Store
<1> QED
  BY Zenon, <1>2, <1>3, <1>4 DEF SetSafetyDataFails, Store


\* What the kinds of steps do not say.
Aside ==
    /\ CacheCoherent
    /\ cached_safety_data \in [Honest -> SUBSET SafetyDatas]
    /\ waypoint \in [Honest -> Epochs]
    /\ validator_signer \in [Honest -> BOOLEAN]
    /\ faults \in 0 .. MaxFaults

LEMMA VoteKind ==
    ASSUME TypeOK, CacheCoherent, NEW v \in Honest, construct_and_sign_vote_two_chain(v)
    PROVE  Kinds(v) /\ Aside'
<1> DEFINE d == internal_store[v]
<1>1. SafetyData(v) = d /\ d \in SafetyDatas
  BY Zenon, Loaded DEF TypeOK
<1>2. PICK b \in Votable(d) :
        \/ SetSafetyData(v, Voted(b, d)) /\ votes' = votes \cup {<<v, b>>}
        \/ SetSafetyDataFails(v, Voted(b, d)) /\ UNCHANGED votes
  BY Zenon, <1>1 DEF construct_and_sign_vote_two_chain
<1>3. UNCHANGED <<waypoint, validator_signer, timeouts>>
  BY Zenon DEF construct_and_sign_vote_two_chain
<1>4. Voted(b, d) \in SafetyDatas
  BY Zenon, <1>1, VotedFacts
<1>5. /\ Store(v, Voted(b, d)) \/ UNCHANGED internal_store
      /\ SetSafetyData(v, Voted(b, d)) => Store(v, Voted(b, d))
      /\ CacheCoherent' /\ cached_safety_data' \in [Honest -> SUBSET SafetyDatas]
      /\ faults' \in 0 .. MaxFaults
  <2> HIDE DEF d
  <2> QED
    BY Zenon, <1>2, <1>4, WriteStep
<1>6. Aside'
  BY Zenon, <1>3, <1>5 DEF Aside, TypeOK
<1>7. CASE Store(v, Voted(b, d))
  BY Zenon, <1>2, <1>3, <1>6, <1>7 DEF Kinds, VotesFor
<1>8. CASE UNCHANGED internal_store /\ UNCHANGED votes
  BY Zenon, <1>3, <1>6, <1>8 DEF Kinds, Quiet
<1> QED
  BY Zenon, <1>2, <1>5, <1>7, <1>8

LEMMA RepeatKind ==
    ASSUME TypeOK, CacheCoherent, NEW v \in Honest, RepeatVote(v)
    PROVE  Kinds(v) /\ Aside'
<1> DEFINE d == internal_store[v]
<1>1. SafetyData(v) = d /\ d \in SafetyDatas
  BY Zenon, Loaded DEF TypeOK
<1>2. CacheCoherent' /\ cached_safety_data' \in [Honest -> SUBSET SafetyDatas]
  BY Zenon, <1>1, CacheStep, Unstored DEF RepeatVote
<1>3. Aside'
  BY Zenon, <1>2 DEF Aside, TypeOK, RepeatVote
<1>4. PICK b \in d.last_vote : votes' = votes \cup {<<v, b>>}
  BY Zenon, <1>1 DEF RepeatVote
<1>5. Repeats(v, b)
  BY Zenon, <1>4 DEF Repeats, RepeatVote
<1> QED
  BY Zenon, <1>3, <1>5 DEF Kinds

LEMMA TimeoutKind ==
    ASSUME TypeOK, CacheCoherent, NEW v \in Honest, sign_timeout_with_qc(v)
    PROVE  Kinds(v) /\ Aside'
<1> DEFINE d == internal_store[v]
<1> DEFINE new(t) == [d EXCEPT !.last_voted_round = t[1]]
<1> DEFINE sent(t) == timeouts \cup {<<v, d.epoch, t[1], t[2]>>}
<1>1. SafetyData(v) = d /\ d \in SafetyDatas
  BY Zenon, Loaded DEF TypeOK
<1>2. PICK t \in Timeouts(d) :
        \/ /\ t[1] > d.last_voted_round
           /\ \/ SetSafetyData(v, new(t)) /\ timeouts' = sent(t)
              \/ SetSafetyDataFails(v, new(t)) /\ UNCHANGED timeouts
        \/ /\ t[1] = d.last_voted_round
           /\ Cache(v, {d})
           /\ timeouts' = sent(t)
           /\ UNCHANGED <<internal_store, faults>>
  BY Zenon, <1>1 DEF sign_timeout_with_qc
<1>3. UNCHANGED <<waypoint, validator_signer, votes>>
  BY Zenon DEF sign_timeout_with_qc
<1>4. t[1] \in Nat
  BY Zenon, <1>1, TimeoutFacts
<1>5. new(t) \in SafetyDatas /\ (t[1] = d.last_voted_round => new(t) = d)
  <2> HIDE DEF d
  <2> QED
    BY Zenon, <1>1, <1>4, RoundStored
<1>6. CASE SetSafetyData(v, new(t)) \/ SetSafetyDataFails(v, new(t))
  <2>1. /\ Store(v, new(t)) \/ UNCHANGED internal_store
        /\ SetSafetyData(v, new(t)) => Store(v, new(t))
        /\ CacheCoherent' /\ cached_safety_data' \in [Honest -> SUBSET SafetyDatas]
        /\ faults' \in 0 .. MaxFaults
    <3> HIDE DEF new
    <3> QED
      BY Zenon, <1>5, <1>6, WriteStep
  <2>2. Aside'
    BY Zenon, <1>3, <2>1 DEF Aside, TypeOK
  <2>3. CASE Store(v, new(t))
    BY Zenon, <1>2, <1>3, <2>2, <2>3 DEF Kinds, TimesOut
  <2>4. CASE UNCHANGED internal_store /\ UNCHANGED timeouts
    BY Zenon, <1>3, <2>2, <2>4 DEF Kinds, Quiet
  <2>5. CASE UNCHANGED internal_store /\ timeouts' = sent(t) /\ t[1] = d.last_voted_round
    <3>1. Store(v, new(t))
      BY Zenon, <1>5, <2>5, Unstored
    <3> QED
      BY Zenon, <2>3, <3>1
  <2> HIDE DEF new, sent
  <2> QED
    BY Zenon, <1>2, <2>1, <2>3, <2>4, <2>5
<1>7. CASE /\ t[1] = d.last_voted_round /\ Cache(v, {d}) /\ timeouts' = sent(t)
           /\ UNCHANGED <<internal_store, faults>>
  <2>1. CacheCoherent' /\ cached_safety_data' \in [Honest -> SUBSET SafetyDatas]
    BY Zenon, <1>7, CacheStep, Unstored
  <2>2. Aside'
    BY Zenon, <1>3, <1>7, <2>1 DEF Aside, TypeOK
  <2>3. Store(v, new(t))
    BY Zenon, <1>5, <1>7, Unstored
  <2> QED
    BY Zenon, <1>2, <1>3, <1>7, <2>2, <2>3 DEF Kinds, TimesOut
<1> HIDE DEF new, sent, d
<1> QED
  BY Zenon, <1>2, <1>6, <1>7

LEMMA QuietKind ==
    ASSUME TypeOK, CacheCoherent, NEW v \in Honest,
           consensus_state(v) \/ WaypointFails(v) \/ Restart(v) \/ insert_waypoint(v)
    PROVE  Kinds(v) /\ Aside'
<1>1. Quiet
  BY Zenon DEF Quiet, consensus_state, WaypointFails, Restart, insert_waypoint
<1>2. CASE consensus_state(v)
  <2>1. Cache(v, {internal_store[v]}) /\ UNCHANGED internal_store
    BY Zenon, <1>2, Loaded DEF consensus_state
  <2>2. CacheCoherent' /\ cached_safety_data' \in [Honest -> SUBSET SafetyDatas]
    BY Zenon, <2>1, CacheStep, Unstored
  <2> QED
    BY Zenon, <1>1, <1>2, <2>2 DEF consensus_state, Aside, TypeOK, Kinds
<1>3. CASE WaypointFails(v)
  <2>1. waypoint' \in [Honest -> Epochs] /\ faults' \in 0 .. MaxFaults
    <3>1. PICK e \in Epochs : waypoint' \in {waypoint, [waypoint EXCEPT ![v] = e]} /\ Fault
      BY Zenon, <1>3 DEF WaypointFails
    <3>2. waypoint' \in [Honest -> Epochs]
      BY <3>1 DEF TypeOK
    <3>3. faults' \in 0 .. MaxFaults
      BY <3>1, BoundsAssumption DEF Fault, TypeOK
    <3> QED
      BY <3>2, <3>3
  <2>2. CacheCoherent'
    BY Zenon, <1>3 DEF WaypointFails, CacheCoherent
  <2> QED
    BY Zenon, <1>1, <1>3, <2>1, <2>2 DEF WaypointFails, Aside, TypeOK, Kinds
<1>4. CASE Restart(v)
  <2>1. Cache(v, {}) /\ UNCHANGED internal_store
    BY Zenon, <1>4 DEF Restart
  <2>2. CacheCoherent' /\ cached_safety_data' \in [Honest -> SUBSET SafetyDatas]
    BY Zenon, <2>1, CacheStep, Unstored
  <2>3. validator_signer' \in [Honest -> BOOLEAN] /\ faults' \in 0 .. MaxFaults
    BY <1>4, BoundsAssumption DEF Restart, Fault, TypeOK
  <2> QED
    BY Zenon, <1>1, <1>4, <2>2, <2>3 DEF Restart, Aside, TypeOK, Kinds
<1>5. CASE insert_waypoint(v)
  <2>1. Cache(v, {}) /\ UNCHANGED internal_store
    BY Zenon, <1>5 DEF insert_waypoint
  <2>2. CacheCoherent' /\ cached_safety_data' \in [Honest -> SUBSET SafetyDatas]
    BY Zenon, <2>1, CacheStep, Unstored
  <2>3. validator_signer' \in [Honest -> BOOLEAN] /\ faults' \in 0 .. MaxFaults
    BY <1>5, BoundsAssumption DEF insert_waypoint, Fault, TypeOK
  <2>4. waypoint' \in [Honest -> Epochs]
    <3>1. PICK e \in Epochs : waypoint' = [waypoint EXCEPT ![v] = e]
      BY Zenon, <1>5 DEF insert_waypoint, SetWaypoint
    <3> QED
      BY <3>1 DEF TypeOK
  <2> QED
    BY Zenon, <1>1, <2>2, <2>3, <2>4 DEF Aside, Kinds
<1> QED
  BY Zenon, <1>2, <1>3, <1>4, <1>5

LEMMA InitializeKind ==
    ASSUME TypeOK, CacheCoherent, NEW v \in Honest, initialize(v)
    PROVE  Kinds(v) /\ Aside'
<1> DEFINE d == internal_store[v]
<1>1. SafetyData(v) = d /\ d \in SafetyDatas
  BY Zenon, Loaded DEF TypeOK
<1>2. PICK e \in Epochs :
        /\ SetWaypoint(v, e)
        /\ \/ /\ StartsEpoch(e, d)
              /\ SetSafetyData(v, NewSafetyData(e))
              /\ ReconcileKey(v)
           \/ /\ StartsEpoch(e, d)
              /\ SetSafetyDataFails(v, NewSafetyData(e))
              /\ UNCHANGED validator_signer
           \/ /\ InEpoch(e, d)
              /\ Cache(v, {d})
              /\ ReconcileKey(v)
              /\ UNCHANGED <<internal_store, faults>>
           \/ /\ d.epoch > e
              /\ Cache(v, {d})
              /\ UNCHANGED <<internal_store, validator_signer, faults>>
        /\ UNCHANGED <<votes, timeouts>>
  BY Zenon, <1>1 DEF initialize
<1>3. /\ waypoint' \in [Honest -> Epochs] /\ validator_signer' \in [Honest -> BOOLEAN]
      /\ waypoint'[v] = e
  <2>1. waypoint \in [Honest -> Epochs] /\ validator_signer \in [Honest -> BOOLEAN]
    BY Zenon DEF TypeOK
  <2>2. \/ UNCHANGED validator_signer
        \/ \E found \in BOOLEAN : validator_signer' = [validator_signer EXCEPT ![v] = found]
    BY Zenon, <1>2 DEF ReconcileKey
  <2>3. validator_signer' \in [Honest -> BOOLEAN]
    BY Zenon, <2>1, <2>2
  <2>4. waypoint' \in [Honest -> Epochs] /\ waypoint'[v] = e
    BY Zenon, <1>2, <2>1 DEF SetWaypoint
  <2> QED
    BY Zenon, <2>3, <2>4
<1>4. NewSafetyData(e) \in SafetyDatas
  BY Zenon, NewDataType
<1>5. CASE StartsEpoch(e, d) /\ (SetSafetyData(v, NewSafetyData(e)) \/ SetSafetyDataFails(v, NewSafetyData(e)))
  <2>1. /\ Store(v, NewSafetyData(e)) \/ UNCHANGED internal_store
        /\ CacheCoherent' /\ cached_safety_data' \in [Honest -> SUBSET SafetyDatas]
        /\ faults' \in 0 .. MaxFaults
    BY Zenon, <1>4, <1>5, WriteStep
  <2>2. Aside'
    BY Zenon, <1>3, <2>1 DEF Aside
  <2>3. e > d.epoch
    <3>1. d.epoch \in Nat /\ e \in Nat /\ d.epoch < e
      <4>1. d.epoch \in Epochs
        BY <1>1 DEF SafetyDatas
      <4>2. d.epoch < e
        BY Zenon, <1>5 DEF StartsEpoch
      <4> QED
        BY Zenon, <4>1, <4>2, EpochsType
    <3> HIDE DEF d
    <3> QED
      BY <3>1
  <2> QED
    BY Zenon, <1>2, <1>3, <2>1, <2>2, <2>3 DEF Kinds, Quiet, Enters
<1>6. CASE Cache(v, {d}) /\ UNCHANGED <<internal_store, faults>>
  <2>1. CacheCoherent' /\ cached_safety_data' \in [Honest -> SUBSET SafetyDatas]
    BY Zenon, <1>6, CacheStep, Unstored
  <2> QED
    BY Zenon, <1>2, <1>3, <1>6, <2>1 DEF Kinds, Quiet, Aside, TypeOK
<1> HIDE DEF d
<1> QED
  BY Zenon, <1>2, <1>5, <1>6

LEMMA StepKinds ==
    ASSUME TypeOK, CacheCoherent, [Next]_vars
    PROVE  Aside' /\ (Quiet \/ \E v \in Honest : Kinds(v))
<1>1. CASE UNCHANGED vars
  BY Zenon, <1>1 DEF vars, Quiet, Aside, TypeOK, CacheCoherent
<1>2. CASE Next
  BY Zenon, <1>2, VoteKind, RepeatKind, TimeoutKind, QuietKind, InitializeKind DEF Next
<1> QED
  BY Zenon, <1>1, <1>2


-----------------------------------------------------------------------------
(* What is stored moves on, and what has been signed stays *)

MovesOn(v) ==
    LET d == internal_store[v]  n == internal_store'[v] IN
    \/ n.epoch > d.epoch /\ n = NewSafetyData(n.epoch)
    \/ /\ n.epoch = d.epoch
       /\ n.last_voted_round >= d.last_voted_round
       /\ n.one_chain_round >= d.one_chain_round
       /\ n.preferred_round >= d.preferred_round

LEMMA DataTypes ==
    ASSUME TypeOK, NEW v \in Honest
    PROVE  LET d == internal_store[v] IN
           /\ d \in SafetyDatas /\ d.epoch \in Epochs /\ d.epoch \in Nat
           /\ d.last_voted_round \in Nat /\ d.one_chain_round \in Nat /\ d.preferred_round \in Nat
           /\ d.last_vote \in SUBSET Blocks
<1>1. internal_store[v] \in SafetyDatas
  BY DEF TypeOK
<1>2. Epochs \subseteq Nat
  BY EpochsType
<1> QED
  BY Zenon, <1>1, <1>2 DEF SafetyDatas

LEMMA Stored ==
    ASSUME TypeOK, NEW v \in Honest, NEW d, Store(v, d)
    PROVE  internal_store'[v] = d /\ \A w \in Honest \ {v} : internal_store'[w] = internal_store[w]
BY DEF TypeOK, Store

\* Every kind of step moves the store on and keeps its type.
LEMMA KindMoves ==
    ASSUME TypeOK, NEW v \in Honest, Kinds(v), NEW w \in Honest
    PROVE  /\ MovesOn(w)
           /\ internal_store'[w] \in SafetyDatas
           /\ \A b \in internal_store'[w].last_vote : b.epoch = internal_store'[w].epoch
<1> DEFINE d == internal_store[v]
<1>1. ASSUME internal_store'[w] = internal_store[w]
      PROVE  /\ MovesOn(w) /\ internal_store'[w] \in SafetyDatas
             /\ \A b \in internal_store'[w].last_vote : b.epoch = internal_store'[w].epoch
  <2>1. MovesOn(w)
    BY <1>1, DataTypes DEF MovesOn
  <2> QED
    BY Zenon, <1>1, <2>1, DataTypes DEF TypeOK
<1>2. CASE Quiet \/ \E b : Repeats(v, b)
  BY Zenon, <1>1, <1>2 DEF Quiet, Repeats
<1>3. ASSUME NEW b, VotesFor(v, b), w = v
      PROVE  /\ MovesOn(w) /\ internal_store'[w] \in SafetyDatas
             /\ \A x \in internal_store'[w].last_vote : x.epoch = internal_store'[w].epoch
  <2>1. b \in Votable(d) /\ internal_store'[v] = Voted(b, d) /\ d \in SafetyDatas
    BY Zenon, <1>3, Stored, DataTypes DEF VotesFor
  <2> DEFINE n == Voted(b, d)
  <2>2. /\ n \in SafetyDatas /\ n.epoch = d.epoch /\ n.last_vote = {b}
        /\ n.last_voted_round = Round(b)
        /\ n.one_chain_round =
             IF Round(Parent(b)) > d.one_chain_round THEN Round(Parent(b)) ELSE d.one_chain_round
        /\ n.preferred_round >= d.preferred_round
    BY Zenon, <2>1, VotedFacts
  <2>3. b.epoch = d.epoch /\ Round(b) \in Nat /\ Round(b) > d.last_voted_round /\ Round(Parent(b)) \in Nat
    BY Zenon, <2>1, VotableFacts
  <2>4. d.last_voted_round \in Nat /\ d.one_chain_round \in Nat
    BY Zenon, DataTypes
  <2> HIDE DEF n, d
  <2>5. n.last_voted_round >= d.last_voted_round /\ n.one_chain_round >= d.one_chain_round
    BY <2>2, <2>3, <2>4
  <2> QED
    BY Zenon, <1>3, <2>1, <2>2, <2>3, <2>5 DEF MovesOn, n, d
<1>4. ASSUME NEW t, TimesOut(v, t), w = v
      PROVE  /\ MovesOn(w) /\ internal_store'[w] \in SafetyDatas
             /\ \A x \in internal_store'[w].last_vote : x.epoch = internal_store'[w].epoch
  <2> DEFINE n == [d EXCEPT !.last_voted_round = t[1]]
  <2>1. t \in Timeouts(d) /\ internal_store'[v] = n /\ d \in SafetyDatas
    BY Zenon, <1>4, Stored, DataTypes DEF TimesOut
  <2>2. t[1] \in Nat /\ t[1] >= d.last_voted_round
    BY Zenon, <2>1, TimeoutFacts
  <2>3. d.one_chain_round \in Nat /\ d.preferred_round \in Nat /\ \A x \in d.last_vote : x.epoch = d.epoch
    BY Zenon, DataTypes DEF TypeOK
  <2> HIDE DEF d
  <2>4. /\ n \in SafetyDatas
        /\ n.epoch = d.epoch /\ n.last_voted_round = t[1] /\ n.last_vote = d.last_vote
        /\ n.one_chain_round = d.one_chain_round /\ n.preferred_round = d.preferred_round
    BY <2>1, <2>2, RoundStored
  <2> HIDE DEF n
  <2>5. /\ n.last_voted_round >= d.last_voted_round /\ n.one_chain_round >= d.one_chain_round
        /\ n.preferred_round >= d.preferred_round
    BY <2>2, <2>3, <2>4
  <2> QED
    BY Zenon, <1>4, <2>1, <2>3, <2>4, <2>5 DEF MovesOn, d
<1>5. ASSUME NEW e \in Epochs, Enters(v, e), w = v
      PROVE  /\ MovesOn(w) /\ internal_store'[w] \in SafetyDatas
             /\ \A x \in internal_store'[w].last_vote : x.epoch = internal_store'[w].epoch
  <2>1. internal_store'[v] = NewSafetyData(e) /\ e > d.epoch
    BY Zenon, <1>5, Stored DEF Enters
  <2>2. NewSafetyData(e).epoch = e /\ NewSafetyData(e).last_vote = {}
    BY DEF NewSafetyData
  <2> QED
    BY Zenon, <1>5, <2>1, <2>2, NewDataType DEF MovesOn
<1>6. ASSUME \E b : VotesFor(v, b) \/ \E t : TimesOut(v, t) \/ \E e \in Epochs : Enters(v, e), w # v
      PROVE  internal_store'[w] = internal_store[w]
  BY Zenon, <1>6, Stored DEF VotesFor, TimesOut, Enters
<1> QED
  BY Zenon, <1>1, <1>2, <1>3, <1>4, <1>5, <1>6 DEF Kinds

\* What is signed was signed before, or is the block of this vote.
LEMMA SignedStep ==
    ASSUME TypeOK, NEW v \in Honest, Kinds(v), NEW w \in Honest, NEW b \in Signed(w)'
    PROVE  b \in Signed(w) \/ (w = v /\ VotesFor(v, b))
<1> DEFINE Released(x) == <<w, x>> \in votes
<1>1. \A x : x \in Signed(w) <=> Released(x) \/ x \in internal_store[w].last_vote
  BY DEF Signed, TypeOK
<1>2. votes' \subseteq Honest \X Blocks
  <2>1. ASSUME NEW x, Repeats(v, x) PROVE x \in Blocks
    BY <2>1, DataTypes DEF Repeats
  <2>2. ASSUME NEW x, VotesFor(v, x) PROVE x \in Blocks
    BY Zenon, <2>2, DataTypes, VotableFacts DEF VotesFor
  <2>3. \/ votes' = votes
        \/ \E x \in Blocks : votes' = votes \cup {<<v, x>>}
    BY Zenon, <2>1, <2>2 DEF Kinds, Quiet, Repeats, VotesFor, TimesOut, Enters
  <2>4. votes \subseteq Honest \X Blocks
    BY Zenon DEF TypeOK
  <2> QED
    BY <2>3, <2>4
<1>3. \A x : x \in Signed(w)' <=> Released(x)' \/ x \in internal_store'[w].last_vote
  BY <1>2 DEF Signed
<1> HIDE DEF Released
<1>4. ASSUME NEW x, Released(x)', ~ Released(x) PROVE w = v /\ (Repeats(v, x) \/ VotesFor(v, x))
  <2>1. <<w, x>> \in votes' /\ <<w, x>> \notin votes
    BY Zenon, <1>4 DEF Released
  <2>2. PICK y : (Repeats(v, y) \/ VotesFor(v, y)) /\ votes' = votes \cup {<<v, y>>}
    BY Zenon, <2>1 DEF Kinds, Quiet, Repeats, VotesFor, TimesOut, Enters
  <2>3. <<w, x>> = <<v, y>>
    BY Zenon, <2>1, <2>2
  <2>4. w = v /\ x = y
    BY <2>3
  <2> QED
    BY Zenon, <2>2, <2>4
<1>5. ASSUME NEW x, x \in internal_store'[w].last_vote, x \notin internal_store[w].last_vote
      PROVE  w = v /\ VotesFor(v, x)
  <2>1. ASSUME NEW y, VotesFor(v, y) PROVE w = v /\ y = x
    <3>1. w = v
      BY Zenon, <1>5, <2>1, Stored DEF VotesFor
    <3> DEFINE d == internal_store[v]
    <3>2. y \in Votable(d) /\ d \in SafetyDatas /\ internal_store'[v] = Voted(y, d)
      BY Zenon, <2>1, Stored, DataTypes DEF VotesFor
    <3>3. internal_store'[v].last_vote = {y}
      BY ZenonT(30), <3>2, VotedFacts
    <3> QED
      BY Zenon, <1>5, <3>1, <3>3
  <2>2. ASSUME NEW t, TimesOut(v, t) PROVE FALSE
    <3> DEFINE d == internal_store[v]
    <3>1. t \in Timeouts(d) /\ d \in SafetyDatas /\ internal_store'[v] = [d EXCEPT !.last_voted_round = t[1]]
      BY Zenon, <2>2, DataTypes, Stored DEF TimesOut
    <3>2. t[1] \in Nat
      BY Zenon, <3>1, TimeoutFacts
    <3>3. internal_store'[v].last_vote = d.last_vote
      <4> HIDE DEF d
      <4> QED
        BY <3>1, <3>2, RoundStored
    <3> QED
      BY Zenon, <1>5, <2>2, <3>3, Stored DEF TimesOut
  <2>3. ASSUME NEW e \in Epochs, Enters(v, e) PROVE FALSE
    <3>1. NewSafetyData(e).last_vote = {}
      BY DEF NewSafetyData
    <3> QED
      BY Zenon, <1>5, <2>3, <3>1, Stored DEF Enters
  <2> QED
    BY Zenon, <1>5, <2>1, <2>2, <2>3 DEF Kinds, Quiet, Repeats
<1>6. ASSUME NEW x, Repeats(v, x) PROVE x \in internal_store[v].last_vote
  BY Zenon, <1>6 DEF Repeats
<1> QED
  BY Zenon, <1>1, <1>3, <1>4, <1>5, <1>6


LEMMA Growing ==
    ASSUME NEW v, Kinds(v)
    PROVE  votes \subseteq votes' /\ timeouts \subseteq timeouts'
BY Zenon DEF Kinds, Quiet, Repeats, VotesFor, TimesOut, Enters

\* Only the kinds that release something change what is released.
LEMMA ReleasedTypes ==
    ASSUME TypeOK, NEW v \in Honest, Kinds(v)
    PROVE  /\ votes' \subseteq Honest \X Blocks
           /\ timeouts' \subseteq Honest \X Epochs \X Nat \X Nat
           /\ \A t \in timeouts' \ timeouts : \E x : TimesOut(v, x) /\ t = <<v, internal_store[v].epoch, x[1], x[2]>>
<1> DEFINE d == internal_store[v]
<1>1. d \in SafetyDatas /\ d.epoch \in Epochs /\ d.last_vote \in SUBSET Blocks
  BY Zenon, DataTypes
<1>2. \A x : Repeats(v, x) \/ VotesFor(v, x) => x \in Blocks
  BY Zenon, <1>1, VotableFacts DEF Repeats, VotesFor
<1>3. votes' = votes \/ \E x \in Blocks : votes' = votes \cup {<<v, x>>}
  BY Zenon, <1>2 DEF Kinds, Quiet, Repeats, VotesFor, TimesOut, Enters
<1>4. votes' \subseteq Honest \X Blocks
  BY <1>3 DEF TypeOK
<1>5. \A x : TimesOut(v, x) => x[1] \in Nat /\ x[2] \in Nat
  BY Zenon, <1>1, TimeoutFacts DEF TimesOut
<1>6. \/ timeouts' = timeouts
      \/ \E x : TimesOut(v, x) /\ timeouts' = timeouts \cup {<<v, d.epoch, x[1], x[2]>>}
  BY Zenon DEF Kinds, Quiet, Repeats, VotesFor, TimesOut, Enters
<1>7. timeouts' \subseteq Honest \X Epochs \X Nat \X Nat
  <2>1. CASE timeouts' = timeouts
    BY Zenon, <2>1 DEF TypeOK
  <2>2. CASE timeouts' # timeouts
    <3>1. PICK x : TimesOut(v, x) /\ timeouts' = timeouts \cup {<<v, d.epoch, x[1], x[2]>>}
      BY Zenon, <1>6, <2>2
    <3>2. x[1] \in Nat /\ x[2] \in Nat
      BY Zenon, <1>5, <3>1
    <3>3. <<v, d.epoch, x[1], x[2]>> \in Honest \X Epochs \X Nat \X Nat
      <4> HIDE DEF d
      <4> QED
        BY Zenon, <1>1, <3>2
    <3>4. timeouts \subseteq Honest \X Epochs \X Nat \X Nat
      BY Zenon DEF TypeOK
    <3> QED
      BY Zenon, <3>1, <3>3, <3>4
  <2> QED
    BY Zenon, <2>1, <2>2
<1>8. ASSUME NEW t \in timeouts' \ timeouts
      PROVE  \E x : TimesOut(v, x) /\ t = <<v, d.epoch, x[1], x[2]>>
  BY Zenon, <1>6, <1>8
<1> QED
  BY Zenon, <1>4, <1>7, <1>8

LEMMA TypeStep ==
    ASSUME TypeOK, Aside', NEW v \in Honest, Kinds(v)
    PROVE  TypeOK'
<1>1. internal_store' \in [Honest -> SafetyDatas]
  <2>1. PICK f : internal_store' = [internal_store EXCEPT ![v] = f] \/ internal_store' = internal_store
    BY Zenon DEF Kinds, Quiet, Repeats, VotesFor, TimesOut, Enters, Store
  <2>2. internal_store \in [Honest -> SafetyDatas] /\ internal_store'[v] \in SafetyDatas
    BY Zenon, KindMoves DEF TypeOK
  <2> QED
    BY <2>1, <2>2
<1>2. \A w \in Honest : \A b \in internal_store'[w].last_vote : b.epoch = internal_store'[w].epoch
  BY Zenon, KindMoves
<1> QED
  BY Zenon, <1>1, <1>2, ReleasedTypes DEF TypeOK, Aside

=============================================================================
