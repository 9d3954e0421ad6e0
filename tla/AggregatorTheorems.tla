------------------------- MODULE AggregatorTheorems -------------------------
(***************************************************************************)
(* Proofs that deltas are exact, for every limit, every number of calls and *)
(* all arguments: the operations on deltas and change sets, the native     *)
(* calls, the change sets of the sessions, and the theorems about Spec.    *)
(***************************************************************************)
EXTENDS Aggregator, FiniteSetTheorems, TLAPS

(* The time for a step that names no prover.                               *)
USE SMTT(45), ZenonT(20)

(* Applying d to what prev leaves.                                         *)
Then(prev, d, b) ==
  IF apply_to(prev, b) = Err THEN Err ELSE apply_to(d, apply_to(prev, b))

(* What applying a delta comes to, without the intermediate sums.          *)
LEMMA ApplyTo ==
  ASSUME NEW limit \in Nat, NEW d, IsDelta(d, limit), NEW b \in Nat
  PROVE  apply_to(d, b) = IF b + d.maxPositive > limit \/ b < d.minNegative
                          THEN Err ELSE b + d.update
BY DEF apply_to, IsDelta, addition, subtraction, Update, Err

(* merge_onto is exact: the merged delta has, on every base value, the     *)
(* effect of the two deltas one after the other, failures included.        *)
THEOREM MergeComposes ==
  ASSUME NEW limit \in Nat, NEW d, NEW prev,
         IsDelta(d, limit), IsDelta(prev, limit),
         merge_onto(d, prev) # NoDelta
  PROVE  /\ IsDelta(merge_onto(d, prev), limit)
         /\ \A b \in Nat : apply_to(merge_onto(d, prev), b) = Then(prev, d, b)
<1> DEFINE m == merge_onto(d, prev)
           shMax == shifted_max_positive_by(d, prev)
           shMin == shifted_min_negative_by(d, prev)
<1>1. /\ d.update \in Int /\ d.limit = limit
      /\ d.maxPositive \in Nat /\ d.minNegative \in Nat
      /\ d.update <= d.maxPositive /\ -d.update <= d.minNegative
      /\ prev.update \in Int /\ prev.limit = limit
      /\ prev.maxPositive \in Nat /\ prev.minNegative \in Nat
      /\ prev.update <= prev.maxPositive /\ -prev.update <= prev.minNegative
  BY Zenon DEF IsDelta
<1>2. /\ shMax # Err /\ shMin # Err
      /\ m = DeltaOp(prev.update + d.update, d.limit,
                     Larger(prev.maxPositive, shMax), Larger(prev.minNegative, shMin))
  BY Zenon DEF merge_onto
<1>3. /\ shMax = Larger(prev.update + d.maxPositive, 0)
      /\ shMin = Larger(d.minNegative - prev.update, 0)
  BY <1>1, <1>2 DEF shifted_max_positive_by, shifted_min_negative_by, addition,
                    subtraction, Larger, Err
<1>4. /\ m.update = prev.update + d.update
      /\ m.limit = limit
      /\ m.maxPositive = Larger(prev.maxPositive, Larger(prev.update + d.maxPositive, 0))
      /\ m.minNegative = Larger(prev.minNegative, Larger(d.minNegative - prev.update, 0))
  BY <1>1, <1>2, <1>3 DEF DeltaOp
<1>5. IsDelta(m, limit)
  <2>1. m \in [update : Int, limit : {limit}, maxPositive : Nat, minNegative : Nat]
    BY <1>1, <1>2, <1>3 DEF DeltaOp, Larger
  <2> QED BY <2>1, <1>1, <1>4 DEF IsDelta, Larger
<1>6. ASSUME NEW b \in Nat PROVE apply_to(m, b) = Then(prev, d, b)
  <2>1. apply_to(m, b) = IF b + m.maxPositive > limit \/ b < m.minNegative
                         THEN Err ELSE b + m.update
    BY Zenon, <1>5, ApplyTo
  <2>2. apply_to(prev, b) = IF b + prev.maxPositive > limit \/ b < prev.minNegative
                            THEN Err ELSE b + prev.update
    BY Zenon, ApplyTo
  <2>3. CASE apply_to(prev, b) = Err
    BY <2>1, <2>2, <2>3, <1>1, <1>4 DEF Then, Err, Larger
  <2>4. CASE apply_to(prev, b) # Err
    <3>1. /\ b + prev.update \in Nat /\ apply_to(prev, b) = b + prev.update
          /\ b + prev.maxPositive <= limit /\ b >= prev.minNegative
      BY <2>2, <2>4, <1>1
    <3>2. apply_to(d, b + prev.update)
            = IF b + prev.update + d.maxPositive > limit \/ b + prev.update < d.minNegative
              THEN Err ELSE b + prev.update + d.update
      BY Zenon, <3>1, ApplyTo
    <3> QED BY <2>1, <2>4, <3>1, <3>2, <1>1, <1>4 DEF Then, Larger
  <2> QED BY Zenon, <2>3, <2>4
<1> QED BY Zenon, <1>5, <1>6

(* merge_onto fails only on deltas that fail one after the other, whatever *)
(* the base value.                                                         *)
THEOREM MergeFails ==
  ASSUME NEW limit \in Nat, NEW d, NEW prev,
         IsDelta(d, limit), IsDelta(prev, limit),
         merge_onto(d, prev) = NoDelta, NEW b \in Nat
  PROVE  Then(prev, d, b) = Err
<1>1. /\ d.update \in Int /\ d.limit = limit
      /\ d.maxPositive \in Nat /\ d.minNegative \in Nat
      /\ d.update <= d.maxPositive /\ -d.update <= d.minNegative
      /\ prev.update \in Int /\ prev.limit = limit
      /\ prev.maxPositive \in Nat /\ prev.minNegative \in Nat
      /\ prev.update <= prev.maxPositive /\ -prev.update <= prev.minNegative
  BY Zenon DEF IsDelta
<1>2. \/ shifted_max_positive_by(d, prev) = Err
      \/ shifted_min_negative_by(d, prev) = Err
      \/ ~SumFits(prev.update, d.update, d.limit)
  BY <1>1 DEF merge_onto, NoDelta, DeltaOp, Err
<1>3. \/ prev.update >= 0 /\ prev.update + d.maxPositive > limit
      \/ prev.update < 0 /\ d.minNegative - prev.update > limit
  BY <1>1, <1>2 DEF shifted_max_positive_by, shifted_min_negative_by, SumFits,
                    addition, subtraction, Larger, Err
<1>4. apply_to(prev, b) = IF b + prev.maxPositive > limit \/ b < prev.minNegative
                          THEN Err ELSE b + prev.update
  BY Zenon, ApplyTo
<1>5. CASE apply_to(prev, b) = Err
  BY Zenon, <1>5 DEF Then
<1>6. CASE apply_to(prev, b) # Err
  <2>1. /\ b + prev.update \in Nat /\ apply_to(prev, b) = b + prev.update
        /\ b + prev.maxPositive <= limit
    BY <1>4, <1>6, <1>1
  <2>2. apply_to(d, b + prev.update)
          = IF b + prev.update + d.maxPositive > limit \/ b + prev.update < d.minNegative
            THEN Err ELSE b + prev.update + d.update
    BY Zenon, <2>1, ApplyTo
  <2> QED BY <1>1, <1>3, <2>1, <2>2 DEF Then
<1> QED BY Zenon, <1>5, <1>6

-----------------------------------------------------------------------------
(* The delta an aggregator stands for, and the relation to the exact value.*)
DeltaOf(a) == DeltaOp(Signed(a), Limit, a.maxPositive, a.minNegative)

(* The history covers the value that the aggregator has reached.           *)
Covered(a) ==
  /\ IsAgg(a)
  /\ a.state = "PositiveDelta" => a.value <= a.maxPositive
  /\ a.state = "NegativeDelta" => a.value <= a.minNegative

Represents(a, f) ==
  \A b \in Base : f[b] = IF a.state = "Data" THEN a.value
                         ELSE apply_to(DeltaOf(a), b)

(* The same, without the intermediate sums of apply_to.                    *)
Exact(a, b) ==
  IF a.state = "Data" THEN a.value
  ELSE IF b + a.maxPositive > Limit \/ b < a.minNegative THEN Err
  ELSE b + Signed(a)

LEMMA DeltaOfIsDelta ==
  ASSUME NEW a, Covered(a), a.state # "Data"
  PROVE  IsDelta(DeltaOf(a), Limit)
<1>1. Signed(a) \in Int /\ Signed(a) <= a.maxPositive /\ -Signed(a) <= a.minNegative
  BY DEF Covered, IsAgg, Signed, States
<1> QED BY Zenon, <1>1 DEF Covered, IsAgg, IsDelta, DeltaOf, DeltaOp

LEMMA RepresentsExact ==
  ASSUME NEW a, Covered(a), NEW f
  PROVE  Represents(a, f) <=> \A b \in Base : f[b] = Exact(a, b)
<1>1. CASE a.state = "Data" BY Zenon, <1>1 DEF Represents, Exact
<1>2. CASE a.state # "Data"
  <2>1. IsDelta(DeltaOf(a), Limit) BY Zenon, <1>2, DeltaOfIsDelta
  <2>2. /\ DeltaOf(a).maxPositive = a.maxPositive
        /\ DeltaOf(a).minNegative = a.minNegative
        /\ DeltaOf(a).update = Signed(a)
    BY Zenon DEF DeltaOf, DeltaOp
  <2>3. \A b \in Base : apply_to(DeltaOf(a), b) = Exact(a, b)
    BY <1>2, <2>1, <2>2, ApplyTo, LimitAssumption DEF Exact, Base
  <2> QED BY Zenon, <1>2, <2>3 DEF Represents
<1> QED BY Zenon, <1>1, <1>2

(* add keeps an aggregator exact; it fails only if every base value does.  *)
LEMMA AddExact ==
  ASSUME NEW a, Covered(a), NEW v \in Nat
  PROVE  /\ ~Failed(add(a, v)) =>
              /\ Covered(add(a, v))
              /\ \A b \in Base : Exact(add(a, v), b) = EagerAdd(Exact(a, b), v)
         /\ Failed(add(a, v)) => \A b \in Base : EagerAdd(Exact(a, b), v) = Err
<1> DEFINE r == add(a, v)
<1> USE LimitAssumption
<1>0. /\ a.state \in States
      /\ a.value \in Nat /\ a.maxPositive \in Nat /\ a.minNegative \in Nat
      /\ a.state = "PositiveDelta" => a.value <= a.maxPositive
      /\ a.state = "NegativeDelta" => a.value <= a.minNegative
      /\ a = [state |-> a.state, value |-> a.value,
              maxPositive |-> a.maxPositive, minNegative |-> a.minNegative]
  BY Zenon DEF Covered, IsAgg
<1>1. CASE a.state = "Data"
  <2>1. r = Agg("Data", addition(a.value, v, Limit), a.maxPositive, a.minNegative)
    BY Zenon, <1>0, <1>1 DEF add, Now
  <2>2. /\ r.state = "Data" /\ r.value = addition(a.value, v, Limit)
        /\ r.maxPositive = a.maxPositive /\ r.minNegative = a.minNegative
    BY <2>1 DEF Agg
  <2>3. ~Failed(r) => IsAgg(r)
    BY <2>1, <1>0, <1>1 DEF Agg, IsAgg, States, Failed, Larger, Err, addition
  <2> HIDE DEF r
  <2>4. ~Failed(r) => Covered(r)
    BY Zenon, <2>2, <2>3, <1>0, <1>1 DEF Covered, Failed, Larger, Err, addition
  <2>5. ASSUME NEW b \in Base
        PROVE  IF Failed(r) THEN EagerAdd(Exact(a, b), v) = Err
               ELSE Exact(r, b) = EagerAdd(Exact(a, b), v)
    BY <2>2, <1>0, <1>1 DEF Exact, EagerAdd, Failed, Base, Err, Larger, Signed, addition
  <2> QED BY Zenon, <2>4, <2>5 DEF r
<1>2. CASE a.state = "PositiveDelta"
  <2>1. r = Agg("PositiveDelta", addition(a.value, v, Limit), Larger(a.maxPositive, addition(a.value, v, Limit)), a.minNegative)
    BY Zenon, <1>0, <1>2 DEF add, Now, record, Agg
  <2>2. /\ r.state = "PositiveDelta" /\ r.value = addition(a.value, v, Limit)
        /\ r.maxPositive = Larger(a.maxPositive, addition(a.value, v, Limit)) /\ r.minNegative = a.minNegative
    BY <2>1 DEF Agg
  <2>3. ~Failed(r) => IsAgg(r)
    BY <2>1, <1>0, <1>2 DEF Agg, IsAgg, States, Failed, Larger, Err, addition
  <2> HIDE DEF r
  <2>4. ~Failed(r) => Covered(r)
    BY <2>2, <2>3, <1>0, <1>2 DEF Covered, Failed, Larger, Err, addition
  <2>5. ASSUME NEW b \in Base
        PROVE  IF Failed(r) THEN EagerAdd(Exact(a, b), v) = Err
               ELSE Exact(r, b) = EagerAdd(Exact(a, b), v)
    BY <2>2, <1>0, <1>2 DEF Exact, EagerAdd, Failed, Base, Err, Larger, Signed, addition
  <2> QED BY Zenon, <2>4, <2>5 DEF r
<1>3. CASE a.state = "NegativeDelta" /\ a.value <= v
  <2>1. r = Agg("PositiveDelta", v - a.value, Larger(a.maxPositive, v - a.value), a.minNegative)
    BY <1>0, <1>3 DEF add, Now, record, Agg, subtraction
  <2>2. /\ r.state = "PositiveDelta" /\ r.value = v - a.value
        /\ r.maxPositive = Larger(a.maxPositive, v - a.value) /\ r.minNegative = a.minNegative
    BY <2>1 DEF Agg
  <2>3. ~Failed(r) => IsAgg(r)
    BY <2>1, <1>0, <1>3 DEF Agg, IsAgg, States, Failed, Larger, Err
  <2> HIDE DEF r
  <2>4. ~Failed(r) => Covered(r)
    BY <2>2, <2>3, <1>0, <1>3 DEF Covered, Failed, Larger, Err
  <2>5. ASSUME NEW b \in Base
        PROVE  IF Failed(r) THEN EagerAdd(Exact(a, b), v) = Err
               ELSE Exact(r, b) = EagerAdd(Exact(a, b), v)
    BY <2>2, <1>0, <1>3 DEF Exact, EagerAdd, Failed, Base, Err, Larger, Signed
  <2> QED BY Zenon, <2>4, <2>5 DEF r
<1>4. CASE a.state = "NegativeDelta" /\ a.value > v
  <2>1. r = Agg("NegativeDelta", a.value - v, a.maxPositive, Larger(a.minNegative, a.value - v))
    BY <1>0, <1>4 DEF add, Now, record, Agg, subtraction
  <2>2. /\ r.state = "NegativeDelta" /\ r.value = a.value - v
        /\ r.maxPositive = a.maxPositive /\ r.minNegative = Larger(a.minNegative, a.value - v)
    BY <2>1 DEF Agg
  <2>3. ~Failed(r) => IsAgg(r)
    BY <2>1, <1>0, <1>4 DEF Agg, IsAgg, States, Failed, Larger, Err
  <2> HIDE DEF r
  <2>4. ~Failed(r) => Covered(r)
    BY <2>2, <2>3, <1>0, <1>4 DEF Covered, Failed, Larger, Err
  <2>5. ASSUME NEW b \in Base
        PROVE  IF Failed(r) THEN EagerAdd(Exact(a, b), v) = Err
               ELSE Exact(r, b) = EagerAdd(Exact(a, b), v)
    BY <2>2, <1>0, <1>4 DEF Exact, EagerAdd, Failed, Base, Err, Larger, Signed
  <2> QED BY Zenon, <2>4, <2>5 DEF r
<1> QED BY <1>0, <1>1, <1>2, <1>3, <1>4 DEF States

(* sub keeps an aggregator exact; it fails only if every base value does.  *)
LEMMA SubExact ==
  ASSUME NEW a, Covered(a), NEW v \in Nat
  PROVE  /\ ~Failed(sub(a, v)) =>
              /\ Covered(sub(a, v))
              /\ \A b \in Base : Exact(sub(a, v), b) = EagerSub(Exact(a, b), v)
         /\ Failed(sub(a, v)) => \A b \in Base : EagerSub(Exact(a, b), v) = Err
<1> DEFINE r == sub(a, v)
<1> USE LimitAssumption
<1>0. /\ a.state \in States
      /\ a.value \in Nat /\ a.maxPositive \in Nat /\ a.minNegative \in Nat
      /\ a.state = "PositiveDelta" => a.value <= a.maxPositive
      /\ a.state = "NegativeDelta" => a.value <= a.minNegative
      /\ a = [state |-> a.state, value |-> a.value,
              maxPositive |-> a.maxPositive, minNegative |-> a.minNegative]
  BY Zenon DEF Covered, IsAgg
<1>1. CASE a.state = "Data"
  <2>1. r = Agg("Data", subtraction(a.value, v), a.maxPositive, a.minNegative)
    BY Zenon, <1>0, <1>1 DEF sub, Now
  <2>2. /\ r.state = "Data" /\ r.value = subtraction(a.value, v)
        /\ r.maxPositive = a.maxPositive /\ r.minNegative = a.minNegative
    BY <2>1 DEF Agg
  <2>3. ~Failed(r) => IsAgg(r)
    BY <2>1, <1>0, <1>1 DEF Agg, IsAgg, States, Failed, Larger, Err, subtraction
  <2> HIDE DEF r
  <2>4. ~Failed(r) => Covered(r)
    BY Zenon, <2>2, <2>3, <1>0, <1>1 DEF Covered, Failed, Larger, Err, subtraction
  <2>5. ASSUME NEW b \in Base
        PROVE  IF Failed(r) THEN EagerSub(Exact(a, b), v) = Err
               ELSE Exact(r, b) = EagerSub(Exact(a, b), v)
    BY <2>2, <1>0, <1>1 DEF Exact, EagerSub, Failed, Base, Err, Larger, Signed, subtraction
  <2> QED BY Zenon, <2>4, <2>5 DEF r
<1>2. CASE a.state = "PositiveDelta" /\ a.value >= v
  <2>1. r = Agg("PositiveDelta", a.value - v, Larger(a.maxPositive, a.value - v), a.minNegative)
    BY <1>0, <1>2 DEF sub, Now, record, Agg, subtraction
  <2>2. /\ r.state = "PositiveDelta" /\ r.value = a.value - v
        /\ r.maxPositive = Larger(a.maxPositive, a.value - v) /\ r.minNegative = a.minNegative
    BY <2>1 DEF Agg
  <2>3. ~Failed(r) => IsAgg(r)
    BY <2>1, <1>0, <1>2 DEF Agg, IsAgg, States, Failed, Larger, Err
  <2> HIDE DEF r
  <2>4. ~Failed(r) => Covered(r)
    BY <2>2, <2>3, <1>0, <1>2 DEF Covered, Failed, Larger, Err
  <2>5. ASSUME NEW b \in Base
        PROVE  IF Failed(r) THEN EagerSub(Exact(a, b), v) = Err
               ELSE Exact(r, b) = EagerSub(Exact(a, b), v)
    BY <2>2, <1>0, <1>2 DEF Exact, EagerSub, Failed, Base, Err, Larger, Signed
  <2> QED BY Zenon, <2>4, <2>5 DEF r
<1>3. CASE a.state = "PositiveDelta" /\ a.value < v /\ v > Limit
  <2>1. r.value = Err
    BY <1>0, <1>3 DEF sub, Now, Agg, subtraction, Err
  <2>2. \A b \in Base : EagerSub(Exact(a, b), v) = Err
    BY <1>0, <1>3 DEF Exact, EagerSub, Base, Err, Signed
  <2> QED BY Zenon, <2>1, <2>2 DEF Failed
<1>4. CASE a.state = "PositiveDelta" /\ a.value < v /\ v <= Limit
  <2>1. r = Agg("NegativeDelta", v - a.value, a.maxPositive, Larger(a.minNegative, v - a.value))
    BY <1>0, <1>4 DEF sub, Now, record, Agg, subtraction, Err
  <2>2. /\ r.state = "NegativeDelta" /\ r.value = v - a.value
        /\ r.maxPositive = a.maxPositive /\ r.minNegative = Larger(a.minNegative, v - a.value)
    BY <2>1 DEF Agg
  <2>3. ~Failed(r) => IsAgg(r)
    BY <2>1, <1>0, <1>4 DEF Agg, IsAgg, States, Failed, Larger, Err
  <2> HIDE DEF r
  <2>4. ~Failed(r) => Covered(r)
    BY <2>2, <2>3, <1>0, <1>4 DEF Covered, Failed, Larger, Err
  <2>5. ASSUME NEW b \in Base
        PROVE  IF Failed(r) THEN EagerSub(Exact(a, b), v) = Err
               ELSE Exact(r, b) = EagerSub(Exact(a, b), v)
    BY <2>2, <1>0, <1>4 DEF Exact, EagerSub, Failed, Base, Err, Larger, Signed
  <2> QED BY Zenon, <2>4, <2>5 DEF r
<1>5. CASE a.state = "NegativeDelta"
  <2>1. r = Agg("NegativeDelta", addition(a.value, v, Limit), a.maxPositive, Larger(a.minNegative, addition(a.value, v, Limit)))
    BY Zenon, <1>0, <1>5 DEF sub, Now, record, Agg
  <2>2. /\ r.state = "NegativeDelta" /\ r.value = addition(a.value, v, Limit)
        /\ r.maxPositive = a.maxPositive /\ r.minNegative = Larger(a.minNegative, addition(a.value, v, Limit))
    BY <2>1 DEF Agg
  <2>3. ~Failed(r) => IsAgg(r)
    BY <2>1, <1>0, <1>5 DEF Agg, IsAgg, States, Failed, Larger, Err, addition
  <2> HIDE DEF r
  <2>4. ~Failed(r) => Covered(r)
    BY <2>2, <2>3, <1>0, <1>5 DEF Covered, Failed, Larger, Err, addition
  <2>5. ASSUME NEW b \in Base
        PROVE  IF Failed(r) THEN EagerSub(Exact(a, b), v) = Err
               ELSE Exact(r, b) = EagerSub(Exact(a, b), v)
    BY <2>2, <1>0, <1>5 DEF Exact, EagerSub, Failed, Base, Err, Larger, Signed, addition
  <2> QED BY Zenon, <2>4, <2>5 DEF r
<1> QED BY <1>0, <1>1, <1>2, <1>3, <1>4, <1>5 DEF States

(* A read gives the exact value of the entry that the resolver finds.      *)
LEMMA ReadExact ==
  ASSUME NEW a, Covered(a), NEW base \in Base \cup {NotFound},
         a.state # "Data" => base \in Base
  PROVE  LET r == read_and_materialize(a, base)
         IN  /\ ~Failed(r) => Covered(r) /\ r.state = "Data"
             /\ r.value = IF a.state = "Data" THEN a.value ELSE Exact(a, base)
<1> DEFINE r == read_and_materialize(a, base)
<1> USE LimitAssumption
<1>0. /\ a.value \in Nat /\ a.maxPositive \in Nat /\ a.minNegative \in Nat
      /\ a \in [state : States, value : Nat, maxPositive : Nat, minNegative : Nat]
  BY Zenon DEF Covered, IsAgg
<1>1. CASE a.state = "Data" BY Zenon, <1>1 DEF read_and_materialize, Covered
<1>2. CASE a.state # "Data"
  <2>0. base \in Nat /\ base # NotFound /\ base <= Limit BY <1>2 DEF Base, NotFound, Err
  <2>1. CASE base + a.maxPositive > Limit \/ base < a.minNegative
    <3>1. r = Now(a, a.state, Err)
      BY <1>0, <1>2, <2>0, <2>1 DEF read_and_materialize, addition, subtraction, Err
    <3> QED BY <1>0, <1>2, <2>1, <3>1 DEF Exact, Failed, Now, Agg
  <2>2. CASE ~(base + a.maxPositive > Limit \/ base < a.minNegative)
    <3>1. r = Agg("Data", Update(base, Signed(a), Limit), 0, 0)
      BY <1>0, <1>2, <2>0, <2>2 DEF read_and_materialize, addition, subtraction, Err
    <3>2. Update(base, Signed(a), Limit) = base + Signed(a) /\ base + Signed(a) \in Nat
      BY <1>0, <1>2, <2>0, <2>2 DEF Update, addition, subtraction, Err, Signed, Covered,
                                     States
    <3> QED BY <1>2, <2>2, <3>1, <3>2 DEF Exact, Failed, Covered, IsAgg, Agg, States
  <2> QED BY Zenon, <2>1, <2>2
<1> QED BY Zenon, <1>1, <1>2

-----------------------------------------------------------------------------
(***************************************************************************)
(* The inductive invariant.  Sound is what holds whatever happens, and     *)
(* gives TypeOK; IdOK and PriorOK relate one aggregator of the running     *)
(* session, and the change set of the finished one, to the exact values.   *)
(***************************************************************************)
IsChange(c) ==
  /\ c.op \in {"None", "Write", "Merge", "Delete", "Bail"}
  /\ c.op = "Write" => c.value \in Base
  /\ c.op = "Merge" => IsDelta(c.delta, Limit)

SoundAgg(a) == Covered(a) /\ (a.state = "Data" => a.value \in Base)

Sound ==
  /\ TypeOK
  /\ IsFiniteSet(DOMAIN aggregators)
  /\ Cardinality(DOMAIN aggregators) <= ops
  /\ phase # "aborted" =>
       \A id \in DOMAIN aggregators : SoundAgg(aggregators[id])
  /\ DOMAIN changes = Ids
  /\ \A id \in Ids : IsChange(changes[id])

IdOK(id) ==
  /\ live[id] \in {0, 1}
  /\ id \in DOMAIN aggregators =>
       /\ live[id] = 1
       /\ \A b \in Base : eager[id][b] = Exact(aggregators[id], b)
       /\ aggregators[id].state # "Data" => view[id] \in Base
  /\ id \notin DOMAIN aggregators /\ live[id] = 1 =>
       /\ \A b \in Base : eager[id][b] = b
       /\ view[id] \in Base
  /\ live[id] = 0 /\ id \notin destroyed => view[id] = NotFound
  /\ id \in destroyed => live[id] = 0

UserOK(id) ==
  /\ id \in destroyed => id \in Stored
  /\ id \notin Stored /\ live[id] = 1 => id \in newAggregators
  /\ id \in newAggregators => id \notin Stored
  /\ id \notin Stored => storage[id] = NotFound
  /\ view[id] = storage[id]

PriorEffect(id) ==
  LET c == changes[id]
  IN  /\ c.op # "Bail"
      /\ c.op = "None" => /\ view[id] = storage[id]
                          /\ \/ view[id] = NotFound
                             \/ \A b \in Base : prior[id][b] = b
      /\ c.op = "Write" => /\ view[id] = c.value
                           /\ \A b \in Base : prior[id][b] = c.value
      /\ c.op = "Merge" => /\ storage[id] \in Base
                           /\ view[id] \in Base
                           /\ view[id] = apply_to(c.delta, storage[id])
                           /\ \A b \in Base : prior[id][b] = apply_to(c.delta, b)
      /\ c.op = "Delete" => view[id] = NotFound

PriorOK(id) ==
  /\ PriorEffect(id)
  /\ view[id] = NotFound => live[id] = 0 /\ id \notin destroyed
  /\ id \notin newAggregators

(* The squashed change set, on the storage as it really is.                *)
FinalOK(id) ==
  /\ Applied(changes[id], storage[id]) = IF live[id] > 0 THEN Actual(id) ELSE NotFound
  /\ live[id] = 0 => changes[id].op # "Merge"

ExactInv ==
  ~clash =>
    /\ Running => \A id \in Ids : IdOK(id)
    /\ phase = "user" => \A id \in Ids : UserOK(id)
    /\ phase = "epilogue" => \A id \in Ids : PriorOK(id)
    /\ phase = "squashed" => \A id \in Ids : FinalOK(id)
    /\ FailsOnlyIfEager
    /\ SquashComposes
    /\ OutputIsEager

Inv == Sound /\ ExactInv

LEMMA SoundAdd ==
  ASSUME NEW a, SoundAgg(a), NEW v \in Nat, ~Failed(add(a, v))
  PROVE  SoundAgg(add(a, v))
<1> USE LimitAssumption
<1>1. Covered(add(a, v)) BY Zenon, AddExact DEF SoundAgg
<1>2. CASE a.state = "Data"
  BY <1>1, <1>2 DEF SoundAgg, add, Now, Agg, Failed, addition, Base, Err
<1>3. CASE a.state # "Data"
  <2>1. add(a, v).state # "Data"
    BY <1>3 DEF SoundAgg, Covered, IsAgg, States, add, Now, Agg, record
  <2> QED BY Zenon, <1>1, <2>1 DEF SoundAgg
<1> QED BY Zenon, <1>2, <1>3

LEMMA SoundSub ==
  ASSUME NEW a, SoundAgg(a), NEW v \in Nat, ~Failed(sub(a, v))
  PROVE  SoundAgg(sub(a, v))
<1> USE LimitAssumption
<1>1. Covered(sub(a, v)) BY Zenon, SubExact DEF SoundAgg
<1>2. CASE a.state = "Data"
  BY <1>1, <1>2 DEF SoundAgg, sub, Now, Agg, Failed, subtraction, Base, Err
<1>3. CASE a.state # "Data"
  <2>1. sub(a, v).state # "Data"
    BY <1>3 DEF SoundAgg, Covered, IsAgg, States, sub, Now, Agg, record
  <2> QED BY Zenon, <1>1, <2>1 DEF SoundAgg
<1> QED BY Zenon, <1>2, <1>3

LEMMA SoundRead ==
  ASSUME NEW a, SoundAgg(a), NEW base \in Result,
         ~Failed(read_and_materialize(a, base))
  PROVE  SoundAgg(read_and_materialize(a, base))
<1> DEFINE r == read_and_materialize(a, base)
<1> USE LimitAssumption
<1>1. CASE a.state = "Data" BY Zenon, <1>1 DEF read_and_materialize
<1>2. CASE a.state # "Data"
  <2>1. base \in Base
    <3>1. base # NotFound
      BY Zenon, <1>2 DEF read_and_materialize, Now, Agg, Failed
    <3> QED BY Zenon, <3>1 DEF Result, NotFound
  <2>2. Covered(r) /\ r.state = "Data" /\ r.value = Exact(a, base)
    BY Zenon, <1>2, <2>1, ReadExact DEF SoundAgg
  <2>3. Exact(a, base) \in Result
    BY <1>2, <2>1 DEF Exact, SoundAgg, Covered, IsAgg, States, Signed, Base, Result, Err
  <2> QED BY <2>2, <2>3 DEF SoundAgg, Covered, IsAgg, Result, Err
<1> QED BY Zenon, <1>1, <1>2

LEMMA FreshAgg ==
  /\ SoundAgg(Agg("PositiveDelta", 0, 0, 0))
  /\ SoundAgg(Agg("Data", 0, 0, 0))
  /\ \A b \in Base : Exact(Agg("PositiveDelta", 0, 0, 0), b) = b
  /\ \A b \in Base : Exact(Agg("Data", 0, 0, 0), b) = 0
BY LimitAssumption DEF SoundAgg, Covered, IsAgg, Agg, States, Exact, Signed, Base

(* Whatever is changed in a change set stays within the limit or fails.    *)
LEMMA AppliedType ==
  ASSUME NEW c, IsChange(c), NEW b \in Result
  PROVE  Applied(c, b) \in Result
<1> USE LimitAssumption
<1>1. CASE c.op = "Merge" /\ b # NotFound
  <2>1. b \in Nat /\ IsDelta(c.delta, Limit)
    BY <1>1 DEF IsChange, Result, Base, NotFound
  <2>2. apply_to(c.delta, b) \in Result
    BY <2>1, ApplyTo DEF IsDelta, Result, Base, Err
  <2> QED BY Zenon, <1>1, <2>2 DEF Applied
<1>2. CASE ~(c.op = "Merge" /\ b # NotFound)
  BY Zenon, <1>2 DEF Applied, IsChange, Result, NotFound
<1> QED BY Zenon, <1>1, <1>2

-----------------------------------------------------------------------------
(* A native call on an existing aggregator, given what it makes of it.     *)
LEMMA CallSound ==
  ASSUME Sound, NEW id \in Ids, NEW a, ~Failed(a) => SoundAgg(a), CallOn(id, a),
         eager' \in [Ids -> [Base -> Result]]
  PROVE  Sound'
<1> USE DEF Sound, TypeOK, CallOn, NativeCall, Running, Insert
<1>1. DOMAIN aggregators' = DOMAIN aggregators \cup {id}
  BY Zenon
<1>2. /\ IsFiniteSet(DOMAIN aggregators')
      /\ Cardinality(DOMAIN aggregators') <= Cardinality(DOMAIN aggregators) + 1
  <2>1. IsFiniteSet(DOMAIN aggregators) BY Zenon
  <2>2. /\ IsFiniteSet(DOMAIN aggregators \cup {id})
        /\ Cardinality(DOMAIN aggregators \cup {id}) =
             IF id \in DOMAIN aggregators THEN Cardinality(DOMAIN aggregators)
             ELSE Cardinality(DOMAIN aggregators) + 1
    BY <2>1, FS_AddElement, Zenon
  <2>3. Cardinality(DOMAIN aggregators) \in Nat BY Zenon, <2>1, FS_CardinalityType
  <2> QED BY <1>1, <2>2, <2>3
<1>3. Cardinality(DOMAIN aggregators) \in Nat /\ Cardinality(DOMAIN aggregators') \in Nat
  BY Zenon, <1>2, FS_CardinalityType
<1>4. ops' \in 0 .. MaxOps /\ Cardinality(DOMAIN aggregators') <= ops'
  BY <1>2, <1>3, MaxOpsAssumption
<1>5. phase' # "aborted" =>
        \A i \in DOMAIN aggregators' : SoundAgg(aggregators'[i])
  BY Zenon
<1>6. phase' # "aborted" =>
        \A i \in DOMAIN aggregators' : IsAgg(aggregators'[i])
  BY Zenon, <1>5 DEF SoundAgg, Covered
<1>7. phase' \in {"user", "epilogue", "squashed", "output", "aborted",
                "squash_error", "panicked"}
  BY Zenon
<1> QED BY <1>1, <1>2, <1>4, <1>5, <1>6, <1>7, Zenon

LEMMA CallExact ==
  ASSUME Sound, ExactInv, NEW id \in Ids, NEW a, NEW g \in [Base -> Result],
         CallOn(id, a), eager' = [eager EXCEPT ![id] = g],
         ~clash => (a.state # "Data" => view[id] \in Base) \/ Failed(a),
         ~clash /\ ~Failed(a) => \A b \in Base : g[b] = Exact(a, b),
         ~clash /\ Failed(a) => \A b \in Base : g[b] = Err
  PROVE  ExactInv'
<1> SUFFICES ASSUME ~clash PROVE ExactInv'
  BY Zenon DEF ExactInv, CallOn
<1> USE DEF CallOn, NativeCall, Insert
<1>0. /\ Running /\ \A i \in Ids : IdOK(i)
      /\ phase = "user" => \A i \in Ids : UserOK(i)
      /\ phase = "epilogue" => \A i \in Ids : PriorOK(i)
  BY Zenon DEF ExactInv
<1>1. CASE ~Failed(a)
  <2>1. phase' = phase /\ Running' BY Zenon, <1>0, <1>1 DEF Running
  <2>2. ASSUME NEW i \in Ids PROVE IdOK(i)'
    <3>0. IdOK(i) BY Zenon, <1>0
    <3>1. CASE i = id
      <4>1. live[id] = 1 BY <3>0, <3>1 DEF IdOK
      <4>2. id \in DOMAIN aggregators' /\ aggregators'[id] = a BY Zenon
      <4>3. eager'[id] = g BY Zenon DEF Sound, TypeOK
      <4>4. \A b \in Base : eager'[id][b] = Exact(aggregators'[id], b)
        BY Zenon, <1>1, <4>2, <4>3
      <4> QED BY Zenon, <1>1, <3>0, <3>1, <4>1, <4>2, <4>4 DEF IdOK
    <3>2. CASE i # id
      <4>1. /\ i \in DOMAIN aggregators' <=> i \in DOMAIN aggregators
            /\ i \in DOMAIN aggregators => aggregators'[i] = aggregators[i]
        BY Zenon, <3>2
      <4>2. eager'[i] = eager[i] BY Zenon, <3>2 DEF Sound, TypeOK
      <4> QED BY Zenon, <3>0, <4>1, <4>2 DEF IdOK
    <3> QED BY Zenon, <3>1, <3>2
  <2>3. ASSUME phase = "user", NEW i \in Ids PROVE UserOK(i)'
    BY <1>0, <2>3, Zenon DEF UserOK
  <2>4. ASSUME phase = "epilogue", NEW i \in Ids PROVE PriorOK(i)'
    BY <1>0, <2>4, ZenonT(40) DEF PriorOK, PriorEffect
  <2> QED BY Zenon, <2>1, <2>2, <2>3, <2>4 DEF ExactInv, Running, FailsOnlyIfEager,
                                        SquashComposes, OutputIsEager
<1>2. CASE Failed(a)
  <2>1. phase' = "aborted" BY <1>2, Zenon
  <2>2. eager'[id] = g BY Zenon DEF Sound, TypeOK
  <2>3. (IF view[id] = NotFound THEN 0 ELSE view[id]) \in Base
    BY LimitAssumption, SMTT(30) DEF Sound, TypeOK, Result, NotFound, Base
  <2>4. Actual(id)' = Err BY <1>2, <2>2, <2>3, Zenon DEF Actual
  <2> QED BY Zenon, <2>1, <2>4 DEF ExactInv, Running, FailsOnlyIfEager, SquashComposes,
                            OutputIsEager
<1> QED BY Zenon, <1>1, <1>2

(* The aggregator that a call finds, new or not.                           *)
LEMMA GetExact ==
  ASSUME Sound, ExactInv, Running, NEW id \in Ids, live[id] > 0
  PROVE  /\ SoundAgg(get_aggregator(id))
         /\ ~clash => /\ \A b \in Base : eager[id][b] = Exact(get_aggregator(id), b)
                      /\ get_aggregator(id).state # "Data" => view[id] \in Base
<1>1. CASE id \in DOMAIN aggregators
  BY Zenon, <1>1 DEF get_aggregator, Sound, Running, ExactInv, IdOK
<1>2. CASE id \notin DOMAIN aggregators
  <2>1. get_aggregator(id) = Agg("PositiveDelta", 0, 0, 0) BY Zenon, <1>2 DEF get_aggregator
  <2>2. ~clash => live[id] = 1 /\ (\A b \in Base : eager[id][b] = b) /\ view[id] \in Base
    BY <1>2 DEF ExactInv, IdOK
  <2> QED BY Zenon, <2>1, <2>2, FreshAgg
<1> QED BY <1>1, <1>2, ZenonT(40)

LEMMA EagerType ==
  ASSUME NEW x \in Result, NEW v \in Nat
  PROVE  EagerAdd(x, v) \in Result /\ EagerSub(x, v) \in Result
BY LimitAssumption DEF EagerAdd, EagerSub, Result, Base, Err

LEMMA AddStep ==
  ASSUME Inv, NEW id \in Ids, NEW v \in Values, native_add(id, v)
  PROVE  Inv'
<1> DEFINE a == get_aggregator(id)
           g == [b \in Base |-> EagerAdd(eager[id][b], v)]
<1>0. /\ Sound /\ ExactInv /\ CallOn(id, add(a, v)) /\ v \in Nat
      /\ eager' = [eager EXCEPT ![id] = g]
  BY Zenon, ValuesAssumption DEF Inv, native_add
<1>1. Running /\ live[id] > 0 BY Zenon, <1>0 DEF CallOn, NativeCall
<1>2. /\ SoundAgg(a)
      /\ ~clash => (\A b \in Base : eager[id][b] = Exact(a, b))
                   /\ (a.state # "Data" => view[id] \in Base)
  BY <1>0, <1>1, GetExact, ZenonT(40)
<1>3. g \in [Base -> Result]
  BY <1>0, EagerType, SMTT(30) DEF Sound, TypeOK
<1>4. eager' \in [Ids -> [Base -> Result]] BY Zenon, <1>0, <1>3 DEF Sound, TypeOK
<1> HIDE DEF a
<1>5. Sound'
  <2>1. ~Failed(add(a, v)) => SoundAgg(add(a, v)) BY Zenon, <1>0, <1>2, SoundAdd
  <2> QED BY Zenon, <2>1, <1>0, <1>4, CallSound
<1>6. ~clash /\ ~Failed(add(a, v)) => \A b \in Base : g[b] = Exact(add(a, v), b)
  BY <1>0, <1>2, AddExact DEF SoundAgg
<1>7. ~clash /\ Failed(add(a, v)) => \A b \in Base : g[b] = Err
  BY <1>0, <1>2, AddExact DEF SoundAgg
<1>8. ~clash => (add(a, v).state # "Data" => view[id] \in Base)
  BY Zenon, <1>2 DEF add, Now, Agg
<1> HIDE DEF g
<1>9. ExactInv' BY <1>0, <1>3, <1>6, <1>7, <1>8, CallExact, Zenon
<1> QED BY Zenon, <1>5, <1>9 DEF Inv

LEMMA SubStep ==
  ASSUME Inv, NEW id \in Ids, NEW v \in Values, native_sub(id, v)
  PROVE  Inv'
<1> DEFINE a == get_aggregator(id)
           g == [b \in Base |-> EagerSub(eager[id][b], v)]
<1>0. /\ Sound /\ ExactInv /\ CallOn(id, sub(a, v)) /\ v \in Nat
      /\ eager' = [eager EXCEPT ![id] = g]
  BY Zenon, ValuesAssumption DEF Inv, native_sub
<1>1. Running /\ live[id] > 0 BY Zenon, <1>0 DEF CallOn, NativeCall
<1>2. /\ SoundAgg(a)
      /\ ~clash => (\A b \in Base : eager[id][b] = Exact(a, b))
                   /\ (a.state # "Data" => view[id] \in Base)
  BY Zenon, <1>0, <1>1, GetExact
<1>3. g \in [Base -> Result]
  BY <1>0, EagerType DEF Sound, TypeOK
<1>4. eager' \in [Ids -> [Base -> Result]] BY Zenon, <1>0, <1>3 DEF Sound, TypeOK
<1> HIDE DEF a
<1>5. Sound'
  <2>1. ~Failed(sub(a, v)) => SoundAgg(sub(a, v)) BY Zenon, <1>0, <1>2, SoundSub
  <2> QED BY Zenon, <2>1, <1>0, <1>4, CallSound
<1>6. ~clash /\ ~Failed(sub(a, v)) => \A b \in Base : g[b] = Exact(sub(a, v), b)
  BY <1>0, <1>2, SubExact DEF SoundAgg
<1>7. ~clash /\ Failed(sub(a, v)) => \A b \in Base : g[b] = Err
  BY <1>0, <1>2, SubExact DEF SoundAgg
<1>8. ~clash => (sub(a, v).state # "Data" => view[id] \in Base)
  BY Zenon, <1>2 DEF sub, Now, Agg
<1> HIDE DEF g
<1>9. ExactInv' BY <1>0, <1>3, <1>6, <1>7, <1>8, CallExact, Zenon
<1> QED BY Zenon, <1>5, <1>9 DEF Inv

LEMMA ReadStep ==
  ASSUME Inv, NEW id \in Ids, native_read(id)
  PROVE  Inv'
<1> DEFINE a == get_aggregator(id)
           r == read_and_materialize(a, view[id])
           g == Constantly(Actual(id))
<1>0. /\ Sound /\ ExactInv /\ CallOn(id, r)
      /\ eager' = [eager EXCEPT ![id] = g]
  BY Zenon DEF Inv, native_read
<1>1. Running /\ live[id] > 0 BY Zenon, <1>0 DEF CallOn, NativeCall
<1>2. /\ SoundAgg(a)
      /\ ~clash => (\A b \in Base : eager[id][b] = Exact(a, b))
                   /\ (a.state # "Data" => view[id] \in Base)
  BY <1>0, <1>1, GetExact, ZenonT(40)
<1>3. /\ view[id] \in Result
      /\ (IF view[id] = NotFound THEN 0 ELSE view[id]) \in Base
  BY <1>0, LimitAssumption, SMTT(30) DEF Sound, TypeOK, Result, NotFound, Base
<1>4. Actual(id) \in Result BY <1>0, <1>3 DEF Actual, Sound, TypeOK
<1>5. g \in [Base -> Result] /\ \A b \in Base : g[b] = Actual(id)
  BY <1>4, Zenon DEF Constantly
<1>6. eager' \in [Ids -> [Base -> Result]] BY Zenon, <1>0, <1>5 DEF Sound, TypeOK
<1> HIDE DEF a, g
<1>7. Sound'
  <2>1. ~Failed(r) => SoundAgg(r) BY Zenon, <1>2, <1>3, SoundRead
  <2> QED BY Zenon, <2>1, <1>0, <1>6, CallSound
<1>8. ~clash => r.value = Actual(id) /\ (~Failed(r) => r.state = "Data")
  <2>1. ASSUME ~clash
        PROVE  /\ ~Failed(r) => r.state = "Data"
               /\ r.value = IF a.state = "Data" THEN a.value ELSE Exact(a, view[id])
    BY <1>2, <1>3, <2>1, ReadExact, Zenon DEF SoundAgg, Result, NotFound
  <2>2. ASSUME ~clash
        PROVE  Actual(id) = IF a.state = "Data" THEN a.value ELSE Exact(a, view[id])
    BY <1>2, <1>3, <2>2 DEF Actual, Exact, Base, NotFound, Err
  <2> QED BY <2>1, <2>2, Zenon
<1> HIDE DEF r
<1>9. ~clash /\ ~Failed(r) => \A b \in Base : g[b] = Exact(r, b)
  BY Zenon, <1>5, <1>8 DEF Exact
<1>10. ~clash /\ Failed(r) => \A b \in Base : g[b] = Err
  BY Zenon, <1>5, <1>8 DEF Failed
<1>11. ~clash => (r.state # "Data" => view[id] \in Base) \/ Failed(r)
  BY Zenon, <1>8
<1>12. ExactInv' BY <1>0, <1>5, <1>9, <1>10, <1>11, CallExact, Zenon
<1> QED BY Zenon, <1>7, <1>12 DEF Inv

-----------------------------------------------------------------------------
LEMMA InitInv == Init => Inv
<1> SUFFICES ASSUME Init PROVE Inv BY Zenon
<1> USE LimitAssumption, MaxOpsAssumption DEF Init
<1>1. PICK base \in [Stored -> Base] :
        storage = [id \in Ids |-> IF id \in Stored THEN base[id] ELSE NotFound]
  BY Zenon
<1>2. storage \in [Ids -> Result] /\ Unchanged \in [Base -> Result]
  BY Zenon, <1>1 DEF Result, NotFound, Unchanged
<1>21. /\ eager \in [Ids -> [Base -> Result]] /\ prior \in [Ids -> [Base -> Result]]
       /\ output \in [Ids -> Result] /\ live \in [Ids -> Nat]
  BY Zenon, <1>2 DEF Result, NotFound
<1>3. IsFiniteSet({}) /\ Cardinality({}) = 0 BY Zenon, FS_EmptySet
<1>4. DOMAIN aggregators = {} BY Zenon
<1>5. Sound
  <2>0. /\ clash \in BOOLEAN /\ ops \in 0 .. MaxOps /\ view \in [Ids -> Result]
        /\ newAggregators \subseteq Ids /\ destroyed \subseteq Ids
    <3>1. clash \in BOOLEAN BY Zenon
    <3>2. ops \in 0 .. MaxOps OBVIOUS
    <3>3. newAggregators \subseteq Ids /\ destroyed \subseteq Ids BY Zenon
    <3>4. view \in [Ids -> Result] BY Zenon, <1>2
    <3> QED BY Zenon, <3>1, <3>2, <3>3, <3>4
  <2>1. TypeOK BY Zenon, <2>0, <1>2, <1>21, <1>4 DEF TypeOK
  <2>2. \A id \in Ids : IsChange(changes[id]) BY Zenon DEF IsChange, NoChange, Change
  <2>3. IsFiniteSet(DOMAIN aggregators) /\ Cardinality(DOMAIN aggregators) <= ops
    BY <1>3, <1>4
  <2> QED BY Zenon, <1>4, <2>1, <2>2, <2>3 DEF Sound
<1>6. ASSUME NEW id \in Ids PROVE IdOK(id) /\ UserOK(id)
  <2>1. view[id] = storage[id] /\ eager[id] = Unchanged BY Zenon
  <2>2. live[id] = IF id \in Stored THEN 1 ELSE 0 BY Zenon
  <2>3. IF id \in Stored THEN storage[id] \in Base ELSE storage[id] = NotFound
    BY Zenon, <1>1
  <2>4. \A b \in Base : Unchanged[b] = b BY Zenon DEF Unchanged
  <2> QED BY <1>4, <2>1, <2>2, <2>3, <2>4 DEF IdOK, UserOK
<1>7. ExactInv
  BY Zenon, <1>6 DEF ExactInv, Running, FailsOnlyIfEager, SquashComposes, OutputIsEager
<1> QED BY Zenon, <1>5, <1>7 DEF Inv

LEMMA CreateStep ==
  ASSUME Inv, native_new_aggregator
  PROVE  Inv'
<1> DEFINE n == Cardinality(DOMAIN aggregators)
           id == NewId(n)
<1>1. /\ IsFiniteSet(DOMAIN aggregators) /\ n \in Nat /\ n <= ops
      /\ ops \in 0 .. MaxOps /\ ops < MaxOps
  <2>1. IsFiniteSet(DOMAIN aggregators) BY Zenon DEF Inv, Sound
  <2>2. n \in Nat BY Zenon, <2>1, FS_CardinalityType
  <2> QED BY <2>1, <2>2, Zenon DEF Inv, Sound, TypeOK, native_new_aggregator, NativeCall
<1>2. n \in 0 .. MaxOps BY <1>1, MaxOpsAssumption
<1>3. id \in Ids /\ id \notin Stored BY Zenon, <1>2, StoredAssumption DEF Ids
<1>4. /\ IsFiniteSet(DOMAIN aggregators \cup {id})
      /\ Cardinality(DOMAIN aggregators \cup {id}) =
           IF id \in DOMAIN aggregators THEN n ELSE n + 1
  BY Zenon, <1>1, FS_AddElement
<1>5. /\ phase = "user" /\ phase' = "user" /\ ops' = ops + 1
      /\ aggregators' = [i \in DOMAIN aggregators \cup {id} |->
                           IF i = id THEN Agg("Data", 0, 0, 0) ELSE aggregators[i]]
      /\ newAggregators' = newAggregators \cup {id}
      /\ live' = [live EXCEPT ![id] = @ + 1]
      /\ clash' = (clash \/ live[id] > 0)
      /\ eager' = [eager EXCEPT ![id] = Constantly(0)]
      /\ UNCHANGED <<phase, destroyed, storage, view, changes, output, prior>>
  BY Zenon DEF native_new_aggregator, NativeCall, Insert
<1>6. Constantly(0) \in [Base -> Result] /\ \A b \in Base : Constantly(0)[b] = 0
  BY LimitAssumption DEF Constantly, Result, Base
<1>7. SoundAgg(Agg("Data", 0, 0, 0)) /\ \A b \in Base : Exact(Agg("Data", 0, 0, 0), b) = 0
  BY FreshAgg, Zenon
<1> HIDE DEF n, id
<1>8. Sound'
  <2> USE DEF Inv, Sound, TypeOK
  <2>1. DOMAIN aggregators' = DOMAIN aggregators \cup {id} BY Zenon, <1>5
  <2>2. \A i \in DOMAIN aggregators' : SoundAgg(aggregators'[i]) BY Zenon, <1>5, <1>7
  <2>3. \A i \in DOMAIN aggregators' : IsAgg(aggregators'[i])
    BY <2>2, Zenon DEF SoundAgg, Covered
  <2>4. Cardinality(DOMAIN aggregators') <= ops' /\ ops' \in 0 .. MaxOps
    BY <1>1, <1>4, <1>5, <2>1, MaxOpsAssumption, SMTT(30)
  <2>5. live' \in [Ids -> Nat] /\ eager' \in [Ids -> [Base -> Result]]
    BY <1>3, <1>5, <1>6, SMTT(30)
  <2>6. clash' \in BOOLEAN BY <1>5, Zenon
  <2> QED BY <1>3, <1>4, <1>5, <2>1, <2>2, <2>3, <2>4, <2>5, <2>6, ZenonT(40)
<1>9. ExactInv'
  <2> SUFFICES ASSUME ~clash, ~(live[id] > 0) PROVE ExactInv'
    BY <1>5, ZenonT(40) DEF ExactInv
  <2>1. live[id] = 0 BY <1>3, SMTT(30) DEF Inv, Sound, TypeOK
  <2>2. \A i \in Ids : IdOK(i) /\ UserOK(i)
    BY <1>5, Zenon DEF Inv, ExactInv, Running
  <2>3. ASSUME NEW i \in Ids PROVE IdOK(i)' /\ UserOK(i)'
    <3>0. IdOK(i) /\ UserOK(i) BY Zenon, <2>2
    <3>1. CASE i = id
      <4>1. live'[i] = 1 /\ eager'[i] = Constantly(0)
        BY Zenon, <1>5, <2>1, <3>1, SMTT(30) DEF Inv, Sound, TypeOK
      <4>2. i \in DOMAIN aggregators' /\ aggregators'[i] = Agg("Data", 0, 0, 0)
        BY <1>5, <3>1, Zenon
      <4>3. aggregators'[i].state = "Data" BY <4>2 DEF Agg
      <4>4. i \notin destroyed BY <1>3, <3>0, <3>1, Zenon DEF UserOK
      <4>5. IdOK(i)' BY <1>5, <1>6, <1>7, <4>1, <4>2, <4>3, <4>4, SMTT(30) DEF IdOK
      <4> QED BY <1>3, <1>5, <3>0, <3>1, <4>4, <4>5, ZenonT(40) DEF UserOK
    <3>2. CASE i # id
      <4>1. /\ i \in DOMAIN aggregators' <=> i \in DOMAIN aggregators
            /\ i \in DOMAIN aggregators => aggregators'[i] = aggregators[i]
            /\ i \in newAggregators' <=> i \in newAggregators
        BY <1>5, <3>2, Zenon
      <4>2. live'[i] = live[i] /\ eager'[i] = eager[i]
        BY <1>5, <3>2, Zenon DEF Inv, Sound, TypeOK
      <4> QED BY <1>5, <3>0, <4>1, <4>2, Zenon DEF IdOK, UserOK
    <3> QED BY Zenon, <3>1, <3>2
  <2> QED BY <1>5, <2>3, Zenon DEF ExactInv, FailsOnlyIfEager, SquashComposes, OutputIsEager
<1> QED BY <1>8, <1>9, ZenonT(40) DEF Inv

LEMMA DestroyStep ==
  ASSUME Inv, NEW id \in Ids, native_destroy(id)
  PROVE  Inv'
<1>1. /\ Running /\ live[id] > 0 /\ ops < MaxOps /\ ops' = ops + 1
      /\ aggregators' = [i \in DOMAIN aggregators \ {id} |-> aggregators[i]]
      /\ newAggregators' = newAggregators \ {id}
      /\ destroyed' = IF id \in newAggregators THEN destroyed
                      ELSE destroyed \cup {id}
      /\ live' = [live EXCEPT ![id] = @ - 1]
      /\ UNCHANGED <<phase, storage, view, changes, output, clash, eager, prior>>
  BY Zenon DEF native_destroy, NativeCall
<1>2. Sound'
  <2> USE DEF Inv, Sound, TypeOK
  <2>1. /\ IsFiniteSet(DOMAIN aggregators')
        /\ Cardinality(DOMAIN aggregators') <= Cardinality(DOMAIN aggregators)
    <3>1. DOMAIN aggregators' \subseteq DOMAIN aggregators BY <1>1, Zenon
    <3> QED BY <3>1, FS_Subset, Zenon
  <2>2. Cardinality(DOMAIN aggregators) \in Nat /\ Cardinality(DOMAIN aggregators') \in Nat
    BY <2>1, FS_CardinalityType, ZenonT(40)
  <2>3. Cardinality(DOMAIN aggregators') <= ops' /\ ops' \in 0 .. MaxOps
    BY <1>1, <2>1, <2>2, MaxOpsAssumption, SMTT(30)
  <2>4. live' \in [Ids -> Nat] BY <1>1
  <2> QED BY <1>1, <2>1, <2>3, <2>4, Zenon
<1>3. ExactInv'
  <2> SUFFICES ASSUME ~clash PROVE ExactInv' BY <1>1, Zenon DEF ExactInv
  <2>0. live \in [Ids -> Nat] BY Zenon DEF Inv, Sound, TypeOK
  <2>1. /\ \A i \in Ids : IdOK(i)
        /\ phase = "user" => \A i \in Ids : UserOK(i)
        /\ phase = "epilogue" => \A i \in Ids : PriorOK(i)
    BY <1>1, ZenonT(40) DEF Inv, ExactInv
  <2>2. live[id] = 1 /\ live'[id] = 0
    BY <1>1, <2>0, <2>1 DEF IdOK
  <2>3. \A i \in Ids : i # id => live'[i] = live[i] BY Zenon, <1>1, <2>0
  <2>4. ASSUME NEW i \in Ids PROVE IdOK(i)'
    <3>0. IdOK(i) BY <2>1, Zenon
    <3>1. CASE i = id
      <4>1. i \notin DOMAIN aggregators' BY <1>1, <3>1, ZenonT(40)
      <4>2. id \in newAggregators => view[id] = NotFound
        BY Zenon, <1>1, <2>1, SMTT(30) DEF Running, UserOK, PriorOK
      <4> QED BY <1>1, <2>2, <3>1, <4>1, <4>2 DEF IdOK
    <3>2. CASE i # id
      <4>1. /\ i \in DOMAIN aggregators' <=> i \in DOMAIN aggregators
            /\ i \in DOMAIN aggregators => aggregators'[i] = aggregators[i]
            /\ i \in destroyed' <=> i \in destroyed
        BY Zenon, <1>1, <3>2
      <4> QED BY Zenon, <1>1, <2>3, <3>0, <3>2, <4>1 DEF IdOK
    <3> QED BY Zenon, <3>1, <3>2
  <2>5. ASSUME phase = "user", NEW i \in Ids PROVE UserOK(i)'
    <3>1. CASE i = id BY <1>1, <2>1, <2>2, <2>5, <3>1, SMTT(30) DEF UserOK
    <3>2. CASE i # id BY Zenon, <1>1, <2>1, <2>3, <2>5, <3>2 DEF UserOK
    <3> QED BY <3>1, <3>2, Zenon
  <2>6. ASSUME phase = "epilogue", NEW i \in Ids PROVE PriorOK(i)'
    <3>1. CASE i = id
      <4>1. PriorOK(id) BY Zenon, <2>1, <2>6
      <4>2. id \notin newAggregators' BY Zenon, <1>1
      <4>3. view[id] # NotFound BY Zenon, <2>2, <4>1, SMTT(30) DEF PriorOK
      <4>4. PriorEffect(id)' <=> PriorEffect(id) BY Zenon, <1>1 DEF PriorEffect
      <4>5. view'[id] = view[id] BY Zenon, <1>1
      <4> QED BY <3>1, <4>1, <4>2, <4>3, <4>4, <4>5, Zenon DEF PriorOK
    <3>2. CASE i # id
      <4>1. PriorOK(i) BY Zenon, <2>1, <2>6
      <4>2. /\ i \in destroyed' <=> i \in destroyed
            /\ i \in newAggregators' <=> i \in newAggregators
            /\ live'[i] = live[i] /\ view'[i] = view[i]
        BY Zenon, <1>1, <2>3, <3>2
      <4>3. PriorEffect(i)' <=> PriorEffect(i) BY Zenon, <1>1 DEF PriorEffect
      <4> QED BY <4>1, <4>2, <4>3, Zenon DEF PriorOK
    <3> QED BY <3>1, <3>2, ZenonT(40)
  <2> QED BY <1>1, <2>4, <2>5, <2>6, Zenon DEF ExactInv, Running, FailsOnlyIfEager,
                                        SquashComposes, OutputIsEager
<1> QED BY <1>2, <1>3, Zenon DEF Inv

-----------------------------------------------------------------------------
(* squash, by what the two changes are.                                    *)
LEMMA SquashCases ==
  ASSUME NEW c1, NEW c2, IsChange(c1), IsChange(c2), c2.op # "Bail"
  PROVE  LET s == squash(c1, c2)
         IN  /\ c2.op = "None" => s = c1
             /\ c2.op \in {"Write", "Delete"} /\ c1.op # "Delete" => s = c2
             /\ c2.op = "Merge" /\ c1.op = "None" => s = c2
             /\ c2.op = "Merge" /\ c1.op = "Write" =>
                  s = IF apply_to(c2.delta, c1.value) = Err THEN Bail
                      ELSE Write(apply_to(c2.delta, c1.value))
             /\ c2.op = "Merge" /\ c1.op = "Merge" =>
                  s = IF merge_onto(c2.delta, c1.delta) = NoDelta THEN Bail
                      ELSE Merge(merge_onto(c2.delta, c1.delta))
             /\ c2.op # "None" /\ c1.op = "Delete" => s = Bail
BY Zenon DEF squash, SquashDelta, SquashWrite, IsChange

LEMMA SquashType ==
  ASSUME NEW c1, NEW c2, IsChange(c1), IsChange(c2), c2.op # "Bail"
  PROVE  IsChange(squash(c1, c2))
<1> DEFINE s == squash(c1, c2)
<1>1. IsChange(Bail) BY Zenon DEF Bail, Change, IsChange
<1>2. CASE c2.op = "Merge" /\ c1.op = "Write"
  <2>1. c1.value \in Base /\ IsDelta(c2.delta, Limit) BY Zenon, <1>2 DEF IsChange
  <2>2. apply_to(c2.delta, c1.value) \in Result
    BY <2>1, ApplyTo, LimitAssumption DEF IsDelta, Result, Base, Err
  <2>3. CASE apply_to(c2.delta, c1.value) = Err BY <1>1, <1>2, <2>3, SquashCases, Zenon
  <2>4. CASE apply_to(c2.delta, c1.value) # Err
    <3>1. s = Write(apply_to(c2.delta, c1.value)) BY Zenon, <1>2, <2>4, SquashCases
    <3>2. s.op = "Write" /\ s.value = apply_to(c2.delta, c1.value)
      BY <3>1 DEF Write, Change
    <3> QED BY Zenon, <2>2, <2>4, <3>2 DEF IsChange, Result
  <2> QED BY Zenon, <2>3, <2>4
<1>3. CASE c2.op = "Merge" /\ c1.op = "Merge"
  <2>1. CASE merge_onto(c2.delta, c1.delta) = NoDelta BY <1>1, <1>3, <2>1, SquashCases, Zenon
  <2>2. CASE merge_onto(c2.delta, c1.delta) # NoDelta
    <3>1. s = Merge(merge_onto(c2.delta, c1.delta)) BY Zenon, <1>3, <2>2, SquashCases
    <3>2. s.op = "Merge" /\ s.delta = merge_onto(c2.delta, c1.delta)
      BY Zenon, <3>1, SMTT(30) DEF Merge, Change
    <3>3. IsDelta(merge_onto(c2.delta, c1.delta), Limit)
      BY Zenon, <1>3, <2>2, MergeComposes, LimitAssumption DEF IsChange
    <3> QED BY Zenon, <3>2, <3>3 DEF IsChange
  <2> QED BY Zenon, <2>1, <2>2
<1>4. CASE ~(c2.op = "Merge" /\ c1.op \in {"Write", "Merge"})
  <2>1. s \in {c1, c2, Bail}
    BY Zenon, <1>4 DEF squash, SquashDelta, SquashWrite, IsChange
  <2> QED BY Zenon, <1>1, <2>1
<1> QED BY Zenon, <1>2, <1>3, <1>4

(* The entries of the change set that a session ends with.                 *)
LEMMA ChangeCases ==
  ASSUME NEW id \in Ids
  PROVE  LET c == into_change_set[id]
             a == aggregators[id]
         IN  /\ id \in destroyed => c.op = "Delete"
             /\ id \notin destroyed /\ id \notin DOMAIN aggregators => c.op = "None"
             /\ id \notin destroyed /\ id \in DOMAIN aggregators /\ a.state = "Data" =>
                  c.op = "Write" /\ c.value = a.value
             /\ id \notin destroyed /\ id \in DOMAIN aggregators /\ a.state # "Data" =>
                  c.op = "Merge" /\ c.delta = DeltaOf(a)
BY Zenon DEF into_change_set, Delete, NoChange, Write, Merge, Change, DeltaOf

LEMMA ChangeType ==
  ASSUME Sound, phase # "aborted", NEW id \in Ids
  PROVE  IsChange(into_change_set[id])
<1> DEFINE c == into_change_set[id]
<1>1. CASE id \notin destroyed /\ id \in DOMAIN aggregators
  <2>1. SoundAgg(aggregators[id]) BY Zenon, <1>1 DEF Sound
  <2>2. CASE aggregators[id].state = "Data"
    <3>1. c.op = "Write" /\ c.value = aggregators[id].value BY Zenon, <1>1, <2>2, ChangeCases
    <3> QED BY Zenon, <2>1, <2>2, <3>1 DEF IsChange, SoundAgg
  <2>3. CASE aggregators[id].state # "Data"
    <3>1. c.op = "Merge" /\ c.delta = DeltaOf(aggregators[id])
      BY Zenon, <1>1, <2>3, ChangeCases
    <3>2. IsDelta(DeltaOf(aggregators[id]), Limit)
      BY Zenon, <2>1, <2>3, DeltaOfIsDelta DEF SoundAgg
    <3> QED BY Zenon, <3>1, <3>2 DEF IsChange
  <2> QED BY Zenon, <2>2, <2>3
<1>2. CASE id \in destroyed \/ id \notin DOMAIN aggregators
  <2>1. c.op \in {"Delete", "None"} BY Zenon, <1>2, ChangeCases
  <2> QED BY Zenon, <2>1 DEF IsChange
<1> QED BY Zenon, <1>1, <1>2

(* Applied to any value, the entry of a used aggregator is what it stands  *)
(* for.                                                                    *)
LEMMA ChangeExact ==
  ASSUME Sound, ExactInv, Running, ~clash, NEW id \in Ids, id \in DOMAIN aggregators
  PROVE  LET c == into_change_set[id]
         IN  /\ live[id] = 1 /\ c.op \in {"Write", "Merge"}
             /\ c.op = "Write" => \A b \in Base : eager[id][b] = c.value
             /\ c.op = "Merge" => /\ view[id] \in Base
                                  /\ \A b \in Base : eager[id][b] = apply_to(c.delta, b)
<1> DEFINE c == into_change_set[id]
           a == aggregators[id]
<1>1. /\ IdOK(id) /\ live[id] = 1 /\ id \notin destroyed
  BY DEF ExactInv, IdOK
<1>2. SoundAgg(a) BY Zenon DEF Sound, Running
<1>3. \A b \in Base : eager[id][b] = Exact(a, b) BY Zenon, <1>1 DEF IdOK
<1>4. CASE a.state = "Data"
  <2>1. c.op = "Write" /\ c.value = a.value BY Zenon, <1>1, <1>4, ChangeCases
  <2> QED BY Zenon, <1>1, <1>3, <1>4, <2>1 DEF Exact
<1>5. CASE a.state # "Data"
  <2>1. c.op = "Merge" /\ c.delta = DeltaOf(a) BY Zenon, <1>1, <1>5, ChangeCases
  <2>2. view[id] \in Base BY Zenon, <1>1, <1>5 DEF IdOK
  <2>3. \A b \in Base : eager[id][b] = apply_to(DeltaOf(a), b)
    <3>1. Covered(a) BY Zenon, <1>2 DEF SoundAgg
    <3>2. Represents(a, eager[id]) BY Zenon, <1>3, <3>1, RepresentsExact
    <3> QED BY Zenon, <1>5, <3>2 DEF Represents
  <2> QED BY Zenon, <1>1, <2>1, <2>2, <2>3
<1> QED BY Zenon, <1>4, <1>5

LEMMA FinishUserStep ==
  ASSUME Inv, FinishUser
  PROVE  Inv'
<1> DEFINE cs == into_change_set
<1>0. Sound /\ ExactInv /\ phase = "user" /\ Running /\ phase # "aborted"
  BY Zenon DEF Inv, FinishUser, Running
<1>1. /\ changes' = cs
      /\ aggregators' = [id \in {} |-> NoChange]
      /\ newAggregators' = {} /\ destroyed' = {}
      /\ UNCHANGED <<storage, output, live, clash, ops>>
  BY Zenon DEF FinishUser
<1>2. \A id \in Ids : IsChange(cs[id]) BY Zenon, <1>0, ChangeType
<1>3. DOMAIN cs = Ids BY Zenon DEF into_change_set
<1>4. DOMAIN aggregators' = {} BY Zenon, <1>1
<1>5. IsFiniteSet(DOMAIN aggregators') /\ Cardinality(DOMAIN aggregators') <= ops'
  <2>1. IsFiniteSet({}) /\ Cardinality({}) = 0 BY Zenon, FS_EmptySet
  <2>2. ops \in Nat BY <1>0, MaxOpsAssumption DEF Sound, TypeOK
  <2> QED BY <1>1, <1>4, <2>1, <2>2
<1>6. CASE DeltaFails(cs, view)
  <2>1. phase' = "panicked" /\ UNCHANGED <<view, prior, eager>>
    BY Zenon, <1>6 DEF FinishUser
  <2>2. Sound'
    BY Zenon, <1>0, <1>1, <1>2, <1>3, <1>4, <1>5, <2>1 DEF Sound, TypeOK
  <2>3. ~clash => \E id \in Ids : Actual(id)' = Err
    <3>1. PICK id \in Ids : cs[id].op = "Merge" /\ Applied(cs[id], view[id]) = Err
      BY Zenon, <1>6 DEF DeltaFails
    <3>2. id \in DOMAIN aggregators BY Zenon, <3>1, ChangeCases
    <3>3. ASSUME ~clash PROVE Actual(id) = Err
      <4>1. view[id] \in Base /\ eager[id][view[id]] = apply_to(cs[id].delta, view[id])
        BY Zenon, <1>0, <3>1, <3>2, <3>3, ChangeExact
      <4>2. view[id] # NotFound BY <4>1 DEF Base, NotFound, Err
      <4> QED BY Zenon, <3>1, <4>1, <4>2 DEF Applied, Actual
    <3>4. Actual(id)' = Actual(id) BY Zenon, <2>1 DEF Actual
    <3> QED BY Zenon, <3>3, <3>4
  <2>4. ExactInv'
    BY Zenon, <1>1, <2>1, <2>3 DEF ExactInv, Running, FailsOnlyIfEager, SquashComposes,
                            OutputIsEager
  <2> QED BY Zenon, <2>2, <2>4 DEF Inv
<1>7. CASE ~DeltaFails(cs, view)
  <2>1. /\ phase' = "epilogue" /\ prior' = eager
        /\ view' = [id \in Ids |-> Applied(cs[id], view[id])]
        /\ eager' = [id \in Ids |-> Unchanged]
    BY Zenon, <1>7 DEF FinishUser
  <2>2. view' \in [Ids -> Result]
    BY Zenon, <1>0, <1>2, <2>1, AppliedType DEF Sound, TypeOK
  <2>3. Unchanged \in [Base -> Result] /\ \A b \in Base : Unchanged[b] = b
    BY Zenon DEF Unchanged, Result
  <2>4. Sound'
    BY Zenon, <1>0, <1>1, <1>2, <1>3, <1>4, <1>5, <2>1, <2>2, <2>3 DEF Sound, TypeOK
  <2>5. ASSUME ~clash, NEW id \in Ids PROVE IdOK(id)' /\ PriorOK(id)'
    <3> DEFINE c == cs[id]
    <3>1. IdOK(id) /\ UserOK(id) BY Zenon, <1>0, <2>5 DEF ExactInv
    <3>2. view'[id] = Applied(c, view[id]) /\ changes'[id] = c /\ live'[id] = live[id]
      BY Zenon, <1>1, <2>1
    <3>3. c.op = "Merge" => Applied(c, view[id]) # Err BY Zenon, <1>7 DEF DeltaFails
    <3>4. /\ c.op \in {"None", "Write", "Merge", "Delete"}
          /\ c.op = "Write" => c.value \in Base
      BY Zenon, <1>2, ChangeCases DEF IsChange
    <3> HIDE DEF cs
    <3>5. /\ live[id] = 1 => view'[id] \in Base
          /\ live[id] = 0 => view'[id] = NotFound
      <4>1. CASE id \in DOMAIN aggregators
        <5>1. /\ live[id] = 1 /\ c.op \in {"Write", "Merge"}
              /\ c.op = "Merge" => view[id] \in Base
          BY Zenon, <1>0, <2>5, <4>1, ChangeExact DEF cs
        <5>2. CASE c.op = "Write" BY <3>2, <3>4, <5>1, <5>2 DEF Applied
        <5>3. CASE c.op = "Merge"
          BY <2>2, <3>2, <3>3, <5>1, <5>3 DEF Result
        <5> QED BY Zenon, <5>1, <5>2, <5>3
      <4>2. CASE id \notin DOMAIN aggregators /\ id \in destroyed
        <5>1. c.op = "Delete" BY Zenon, <4>2, ChangeCases DEF cs
        <5> QED BY <3>1, <3>2, <4>2, <5>1 DEF Applied, IdOK
      <4>3. CASE id \notin DOMAIN aggregators /\ id \notin destroyed
        <5>1. c.op = "None" BY Zenon, <4>3, ChangeCases DEF cs
        <5> QED BY Zenon, <3>1, <3>2, <4>3, <5>1 DEF Applied, IdOK
      <4> QED BY Zenon, <4>1, <4>2, <4>3
    <3>6. IdOK(id)'
      BY Zenon, <1>1, <1>4, <2>1, <2>3, <3>1, <3>5 DEF IdOK
    <3>7. view'[id] = NotFound => live[id] = 0
      BY <3>1, <3>5 DEF IdOK, Base, NotFound, Err
    <3>8. /\ c.op = "None" => /\ view'[id] = storage[id]
                              /\ \/ view'[id] = NotFound
                                 \/ \A b \in Base : eager[id][b] = b
          /\ c.op = "Delete" => view'[id] = NotFound
      <4>1. c.op = "None" => id \notin DOMAIN aggregators /\ id \notin destroyed
        BY Zenon, ChangeCases DEF cs
      <4> QED BY Zenon, <3>1, <3>2, <3>5, <4>1 DEF Applied, IdOK, UserOK
    <3>9. c.op = "Write" => /\ view'[id] = c.value
                            /\ \A b \in Base : eager[id][b] = c.value
      <4>1. c.op = "Write" => id \in DOMAIN aggregators BY Zenon, ChangeCases DEF cs
      <4> QED BY Zenon, <1>0, <2>5, <3>2, <4>1, ChangeExact DEF cs, Applied
    <3>10. c.op = "Merge" => /\ storage[id] \in Base
                             /\ view'[id] \in Base
                             /\ view'[id] = apply_to(c.delta, storage[id])
                             /\ \A b \in Base : eager[id][b] = apply_to(c.delta, b)
      <4>1. c.op = "Merge" => id \in DOMAIN aggregators BY Zenon, ChangeCases DEF cs
      <4>2. c.op = "Merge" => /\ view[id] \in Base /\ live[id] = 1
                              /\ \A b \in Base : eager[id][b] = apply_to(c.delta, b)
        BY Zenon, <1>0, <2>5, <4>1, ChangeExact DEF cs
      <4>3. view[id] \in Base => view[id] # NotFound BY DEF Base, NotFound, Err
      <4> QED BY Zenon, <3>1, <3>2, <3>5, <4>2, <4>3 DEF Applied, UserOK
    <3> HIDE DEF c
    <3>11. PriorOK(id)'
      BY <1>1, <2>1, <3>2, <3>4, <3>7, <3>8, <3>9, <3>10, Zenon DEF PriorOK, PriorEffect
    <3> QED BY Zenon, <3>6, <3>11
  <2>6. ExactInv'
    BY Zenon, <1>1, <2>1, <2>5 DEF ExactInv, Running, FailsOnlyIfEager, SquashComposes,
                            OutputIsEager
  <2> QED BY Zenon, <2>4, <2>6 DEF Inv
<1> QED BY Zenon, <1>6, <1>7

LEMMA MaterializeStep ==
  ASSUME Inv, Materialize
  PROVE  Inv'
<1> DEFINE written == [id \in Ids |-> Applied(changes[id], storage[id])]
<1>0. /\ Sound /\ ExactInv /\ phase = "squashed"
      /\ UNCHANGED <<aggregators, newAggregators, destroyed, storage, view,
                     changes, live, clash, eager, prior, ops>>
  BY Zenon DEF Inv, Materialize
<1>1. ~clash => \A id \in Ids : FinalOK(id) BY Zenon, <1>0 DEF ExactInv
<1>2. \A id \in Ids : Actual(id)' = Actual(id) BY Zenon, <1>0 DEF Actual
<1>3. CASE DeltaFails(changes, storage)
  <2>1. phase' = "panicked" /\ output' = output BY Zenon, <1>3 DEF Materialize
  <2>2. Sound' BY Zenon, <1>0, <2>1 DEF Sound, TypeOK
  <2>3. ~clash => \E id \in Ids : Actual(id) = Err
    <3>1. PICK id \in Ids : changes[id].op = "Merge" /\ Applied(changes[id], storage[id]) = Err
      BY Zenon, <1>3 DEF DeltaFails
    <3>2. live[id] \in Nat BY Zenon, <1>0 DEF Sound, TypeOK
    <3> QED BY <1>1, <3>1, <3>2 DEF FinalOK
  <2>4. ExactInv'
    BY Zenon, <1>0, <1>2, <2>1, <2>3 DEF ExactInv, Running, FailsOnlyIfEager, SquashComposes,
                                  OutputIsEager
  <2> QED BY Zenon, <2>2, <2>4 DEF Inv
<1>4. CASE ~DeltaFails(changes, storage)
  <2>1. phase' = "output" /\ output' = written BY Zenon, <1>4 DEF Materialize
  <2>2. written \in [Ids -> Result] BY Zenon, <1>0, AppliedType DEF Sound, TypeOK
  <2>3. Sound' BY Zenon, <1>0, <2>1, <2>2 DEF Sound, TypeOK
  <2>4. ~clash => \A id \in Ids :
          output'[id] = IF live[id] > 0 THEN Actual(id) ELSE NotFound
    BY Zenon, <1>1, <2>1 DEF FinalOK
  <2>5. ExactInv'
    BY <1>0, <1>2, <2>1, <2>4, ZenonT(40) DEF ExactInv, Running, FailsOnlyIfEager, SquashComposes,
                                  OutputIsEager
  <2> QED BY Zenon, <2>3, <2>5 DEF Inv
<1> QED BY Zenon, <1>3, <1>4

(* What squashing the epilogue's change onto the user's comes to, for one  *)
(* aggregator: it has the exact effect, or the exact operations fail.      *)
LEMMA SquashOK ==
  ASSUME Sound, ExactInv, phase = "epilogue", ~clash, NEW id \in Ids
  PROVE  LET s == squash(changes[id], into_change_set[id])
         IN  /\ s = Bail => Actual(id) = Err
             /\ s # Bail =>
                  /\ Applied(s, storage[id]) =
                       IF live[id] > 0 THEN Actual(id) ELSE NotFound
                  /\ live[id] = 0 => s.op # "Merge"
                  /\ live[id] > 0 => \A b \in Base :
                       prior[id][b] # Err => Applied(s, b) = eager[id][prior[id][b]]
<1> DEFINE c1 == changes[id]
           c2 == into_change_set[id]
           s == squash(c1, c2)
<1>0. /\ Running /\ IdOK(id) /\ PriorOK(id) /\ phase # "aborted"
      /\ live[id] \in {0, 1}
  BY Zenon DEF ExactInv, Running, IdOK
<1>1. IsChange(c1) /\ IsChange(c2) /\ c1.op # "Bail" /\ c2.op # "Bail"
  <2>1. c2.op # "Bail" BY Zenon, ChangeCases
  <2> QED BY Zenon, <1>0, <2>1, ChangeType DEF Sound, PriorOK, PriorEffect
<1>2. /\ view[id] \in Result /\ storage[id] \in Result
      /\ \A b \in Base : prior[id][b] \in Result
      /\ \A b \in Base : b # Err /\ b # NotFound
      /\ Bail.op = "Bail" /\ \A x \in Result : x # Err => x \in Base
  <2>1. /\ view[id] \in Result /\ storage[id] \in Result
        /\ \A b \in Base : prior[id][b] \in Result
    BY Zenon DEF Sound, TypeOK
  <2>2. \A b \in Base : b # Err /\ b # NotFound
    BY LimitAssumption DEF Base, NotFound, Err
  <2>3. Bail.op = "Bail" BY Zenon DEF Bail, Change
  <2>4. \A x \in Result : x # Err => x \in Base BY Zenon DEF Result
  <2> QED BY Zenon, <2>1, <2>2, <2>3, <2>4
<1>3. view[id] \in Base => Actual(id) = eager[id][view[id]]
  BY Zenon, <1>2 DEF Actual
(* The user's change has the prior effect.                                 *)
<1>4. /\ Applied(c1, storage[id]) = view[id]
      /\ view[id] \in Base => \A b \in Base : Applied(c1, b) = prior[id][b]
  <2>1. CASE c1.op = "None" BY Zenon, <1>0, <1>2, <2>1 DEF PriorOK, PriorEffect, Applied
  <2>2. CASE c1.op = "Write" BY Zenon, <1>0, <1>2, <2>2 DEF PriorOK, PriorEffect, Applied
  <2>3. CASE c1.op = "Merge" BY Zenon, <1>0, <1>2, <2>3 DEF PriorOK, PriorEffect, Applied
  <2>4. CASE c1.op = "Delete" BY Zenon, <1>0, <1>2, <2>4 DEF PriorOK, PriorEffect, Applied
  <2> QED BY Zenon, <1>1, <2>1, <2>2, <2>3, <2>4 DEF IsChange
<1>5. /\ c1.op = "Delete" => view[id] = NotFound
      /\ c1.op = "Merge" => storage[id] \in Base /\ view[id] \in Base
      /\ view[id] = NotFound => live[id] = 0 /\ id \notin destroyed
  BY <1>0, ZenonT(40) DEF PriorOK, PriorEffect
<1> HIDE DEF c1, c2
<1>6. CASE id \notin DOMAIN aggregators /\ id \notin destroyed
  <2>1. c2.op = "None" BY Zenon, <1>6, ChangeCases DEF c2
  <2>2. s = c1 BY Zenon, <1>1, <2>1, SquashCases
  <2>3. s # Bail BY Zenon, <1>1, <1>2, <2>2
  <2>4. CASE live[id] = 1
    <3>1. view[id] \in Base /\ \A b \in Base : eager[id][b] = b
      BY Zenon, <1>0, <1>6, <2>4 DEF IdOK
    <3> QED BY <1>2, <1>3, <1>4, <2>2, <2>3, <2>4, <3>1 DEF c1, c2
  <2>5. CASE live[id] = 0
    <3>1. view[id] = NotFound BY Zenon, <1>0, <1>6, <2>5 DEF IdOK
    <3>2. c1.op # "Merge" BY Zenon, <1>2, <1>5, <3>1
    <3> QED BY <1>4, <2>2, <2>3, <2>5, <3>1, <3>2 DEF c1, c2
  <2> QED BY Zenon, <1>0, <2>4, <2>5
<1>7. CASE id \in destroyed
  <2>1. c2.op = "Delete" BY Zenon, <1>7, ChangeCases DEF c2
  <2>2. c1.op # "Delete" BY Zenon, <1>5, <1>7
  <2>3. s = c2 BY Zenon, <1>1, <2>1, <2>2, SquashCases
  <2>4. live[id] = 0 BY Zenon, <1>0, <1>7 DEF IdOK
  <2>5. s # Bail BY <1>2, <2>1, <2>3, ZenonT(40)
  <2> QED BY <2>1, <2>3, <2>4, <2>5 DEF Applied, c1, c2
<1>8. CASE id \in DOMAIN aggregators /\ id \notin destroyed
  <2>1. /\ live[id] = 1 /\ c2.op \in {"Write", "Merge"}
        /\ c2.op = "Write" => \A b \in Base : eager[id][b] = c2.value
        /\ c2.op = "Merge" => /\ view[id] \in Base
                              /\ \A b \in Base : eager[id][b] = apply_to(c2.delta, b)
    BY Zenon, <1>0, <1>8, ChangeExact DEF c2
  <2>2. view[id] \in Base BY <1>2, <1>5, <2>1 DEF NotFound
  <2>3. c1.op # "Delete" BY <1>2, <1>5, <2>2, Zenon
  <2> SUFFICES /\ s = Bail => eager[id][view[id]] = Err
               /\ s # Bail => /\ Applied(s, storage[id]) = eager[id][view[id]]
                              /\ \A b \in Base : prior[id][b] # Err =>
                                   Applied(s, b) = eager[id][prior[id][b]]
    BY <1>3, <2>1, <2>2 DEF c1, c2
  <2>4. CASE c2.op = "Write"
    <3>1. s = c2 BY Zenon, <1>1, <2>3, <2>4, SquashCases
    <3>2. s # Bail BY Zenon, <1>2, <2>4, <3>1
    <3> QED BY Zenon, <1>2, <2>1, <2>2, <2>4, <3>1, <3>2 DEF Applied
  <2>5. CASE c2.op = "Merge" /\ c1.op = "None"
    <3>1. s = c2 BY Zenon, <1>1, <2>5, SquashCases
    <3>2. s # Bail BY Zenon, <1>2, <2>5, <3>1
    <3>3. /\ storage[id] = view[id] /\ \A b \in Base : prior[id][b] = b
      BY <1>2, <1>4, <2>2, <2>5, ZenonT(40) DEF Applied
    <3> QED BY <1>2, <2>1, <2>2, <2>5, <3>1, <3>2, <3>3, Zenon DEF Applied
  <2>6. CASE c2.op = "Merge" /\ c1.op = "Write"
    <3>1. c1.value = view[id] /\ \A b \in Base : prior[id][b] = c1.value
      BY Zenon, <1>4, <2>2, <2>6 DEF Applied
    <3>2. apply_to(c2.delta, c1.value) = eager[id][view[id]] BY Zenon, <2>1, <2>2, <2>6, <3>1
    <3>3. CASE apply_to(c2.delta, c1.value) = Err
      <4>1. s = Bail BY Zenon, <1>1, <2>6, <3>3, SquashCases
      <4> QED BY Zenon, <3>2, <3>3, <4>1
    <3>4. CASE apply_to(c2.delta, c1.value) # Err
      <4>1. s = Write(apply_to(c2.delta, c1.value)) BY <1>1, <2>6, <3>4, SquashCases, ZenonT(40)
      <4>2. s.op = "Write" /\ s.value = eager[id][view[id]]
        BY <3>2, <4>1 DEF Write, Change
      <4>3. s # Bail BY Zenon, <1>2, <4>2
      <4> QED BY Zenon, <3>1, <4>2, <4>3 DEF Applied
    <3> QED BY Zenon, <3>3, <3>4
  <2>7. CASE c2.op = "Merge" /\ c1.op = "Merge"
    <3>1. /\ storage[id] \in Base /\ apply_to(c1.delta, storage[id]) = view[id]
          /\ \A b \in Base : prior[id][b] = apply_to(c1.delta, b)
      BY Zenon, <1>2, <1>4, <1>5, <2>2, <2>7 DEF Applied
    <3>2. IsDelta(c1.delta, Limit) /\ IsDelta(c2.delta, Limit) /\ Limit \in Nat
      BY Zenon, <1>1, <2>7, LimitAssumption DEF IsChange
    <3>3. \A b \in Base : b \in Nat BY <3>2 DEF Base
    <3>4. Then(c1.delta, c2.delta, storage[id]) = eager[id][view[id]]
      BY Zenon, <1>2, <2>1, <2>2, <2>7, <3>1 DEF Then
    <3>5. CASE merge_onto(c2.delta, c1.delta) = NoDelta
      <4>1. s = Bail BY Zenon, <1>1, <2>7, <3>5, SquashCases
      <4>2. Then(c1.delta, c2.delta, storage[id]) = Err
        BY <3>1, <3>2, <3>3, <3>5, MergeFails, SMTT(30)
      <4> QED BY Zenon, <3>4, <4>1, <4>2
    <3>6. CASE merge_onto(c2.delta, c1.delta) # NoDelta
      <4>1. s = Merge(merge_onto(c2.delta, c1.delta)) BY Zenon, <1>1, <2>7, <3>6, SquashCases
      <4>2. s.op = "Merge" /\ s.delta = merge_onto(c2.delta, c1.delta)
        BY <4>1 DEF Merge, Change
      <4>3. s # Bail BY Zenon, <1>2, <4>2
      <4>4. \A b \in Base : apply_to(s.delta, b) = Then(c1.delta, c2.delta, b)
        BY <3>2, <3>3, <3>6, <4>2, MergeComposes
      <4>5. \A b \in Base : Applied(s, b) = Then(c1.delta, c2.delta, b)
        BY <1>2, <4>2, <4>4, Zenon DEF Applied
      <4>6. ASSUME NEW b \in Base, prior[id][b] # Err
            PROVE  Applied(s, b) = eager[id][prior[id][b]]
        <5>1. prior[id][b] \in Base BY Zenon, <1>2, <4>6
        <5> QED BY <2>1, <2>7, <3>1, <4>5, <4>6, <5>1, Zenon DEF Then
      <4> QED BY Zenon, <3>1, <3>4, <4>3, <4>5, <4>6
    <3> QED BY Zenon, <3>5, <3>6
  <2> QED BY Zenon, <1>1, <2>1, <2>3, <2>4, <2>5, <2>6, <2>7 DEF IsChange
<1> QED BY Zenon, <1>6, <1>7, <1>8

LEMMA FinishEpilogueStep ==
  ASSUME Inv, FinishEpilogue
  PROVE  Inv'
<1> DEFINE squashed == [id \in Ids |-> squash(changes[id], into_change_set[id])]
<1>0. /\ Sound /\ ExactInv /\ phase = "epilogue" /\ phase # "aborted"
      /\ changes' = squashed
      /\ phase' = IF \E id \in Ids : squashed[id] = Bail
                  THEN "squash_error" ELSE "squashed"
      /\ UNCHANGED <<aggregators, newAggregators, destroyed, storage, view,
                     output, live, clash, eager, prior, ops>>
  BY Zenon DEF Inv, FinishEpilogue
<1>1. \A id \in Ids : Actual(id)' = Actual(id) BY Zenon, <1>0 DEF Actual
<1> HIDE DEF squashed
<1>2. \A id \in Ids : squashed[id] = squash(changes[id], into_change_set[id])
  BY Zenon DEF squashed
<1>3. Sound'
  <2>1. ASSUME NEW id \in Ids PROVE IsChange(squashed[id])
    <3>1. IsChange(changes[id]) BY Zenon, <1>0 DEF Sound
    <3>2. IsChange(into_change_set[id]) BY Zenon, <1>0, ChangeType
    <3>3. into_change_set[id].op # "Bail" BY Zenon, ChangeCases
    <3> QED BY Zenon, <1>2, <3>1, <3>2, <3>3, SquashType, SMTT(30)
  <2>2. DOMAIN squashed = Ids BY Zenon DEF squashed
  <2> QED BY Zenon, <1>0, <2>1, <2>2 DEF Sound, TypeOK
<1>4. ExactInv'
  <2> SUFFICES ASSUME ~clash PROVE ExactInv' BY <1>0, Zenon DEF ExactInv
  <2>1. ASSUME NEW id \in Ids
        PROVE  /\ squashed[id] = Bail => Actual(id) = Err
               /\ squashed[id] # Bail =>
                    /\ Applied(squashed[id], storage[id]) =
                         IF live[id] > 0 THEN Actual(id) ELSE NotFound
                    /\ live[id] = 0 => squashed[id].op # "Merge"
                    /\ live[id] > 0 => \A b \in Base : prior[id][b] # Err =>
                         Applied(squashed[id], b) = eager[id][prior[id][b]]
    BY <1>0, <1>2, SquashOK, ZenonT(40)
  <2>2. CASE \E id \in Ids : squashed[id] = Bail
    BY <1>0, <1>1, <2>1, <2>2 DEF ExactInv, Running, FailsOnlyIfEager,
                                  SquashComposes, OutputIsEager
  <2>3. CASE ~\E id \in Ids : squashed[id] = Bail
    <3>1. phase' = "squashed" BY <1>0, <2>3, Zenon
    <3>2. \A id \in Ids : FinalOK(id)' BY <1>0, <1>1, <2>1, <2>3, Zenon DEF FinalOK
    <3>3. SquashComposes' BY Zenon, <1>0, <2>1, <2>3 DEF SquashComposes
    <3> QED BY Zenon, <3>1, <3>2, <3>3 DEF ExactInv, Running, FailsOnlyIfEager, OutputIsEager
  <2> QED BY Zenon, <2>2, <2>3
<1> QED BY Zenon, <1>3, <1>4 DEF Inv

-----------------------------------------------------------------------------
(* Inv is inductive: it holds at the start of a transaction and is kept by *)
(* every native call and by each of the three ways a session ends.         *)
THEOREM Invariance == Spec => []Inv
<1>1. ASSUME Inv, [Next]_vars PROVE Inv'
  <2>1. CASE native_new_aggregator BY Zenon, <1>1, <2>1, CreateStep
  <2>2. ASSUME NEW id \in Ids, NEW v \in Values, native_add(id, v) PROVE Inv'
    BY Zenon, <1>1, <2>2, AddStep
  <2>3. ASSUME NEW id \in Ids, NEW v \in Values, native_sub(id, v) PROVE Inv'
    BY Zenon, <1>1, <2>3, SubStep
  <2>4. ASSUME NEW id \in Ids, native_read(id) PROVE Inv' BY Zenon, <1>1, <2>4, ReadStep
  <2>5. ASSUME NEW id \in Ids, native_destroy(id) PROVE Inv' BY Zenon, <1>1, <2>5, DestroyStep
  <2>6. CASE FinishUser BY Zenon, <1>1, <2>6, FinishUserStep
  <2>7. CASE FinishEpilogue BY Zenon, <1>1, <2>7, FinishEpilogueStep
  <2>8. CASE Materialize BY Zenon, <1>1, <2>8, MaterializeStep
  <2>9. CASE UNCHANGED vars
    <3>1. Sound' BY Zenon, <1>1, <2>9 DEF vars, Inv, Sound, TypeOK
    <3>2. \A id \in Ids : Actual(id)' = Actual(id) BY Zenon, <2>9 DEF vars, Actual
    <3>3. (Running => \A id \in Ids : IdOK(id)) <=> (Running => \A id \in Ids : IdOK(id))'
      BY <2>9 DEF vars, Running, IdOK
    <3>4. \A id \in Ids : UserOK(id)' <=> UserOK(id) BY Zenon, <2>9 DEF vars, UserOK
    <3>5. \A id \in Ids : PriorOK(id)' <=> PriorOK(id) BY <2>9, ZenonT(40) DEF vars, PriorOK, PriorEffect
    <3>6. \A id \in Ids : FinalOK(id)' <=> FinalOK(id) BY Zenon, <2>9, <3>2 DEF vars, FinalOK
    <3>7. FailsOnlyIfEager' <=> FailsOnlyIfEager
      BY Zenon, <2>9, <3>2 DEF vars, FailsOnlyIfEager
    <3>8. SquashComposes' <=> SquashComposes BY Zenon, <2>9 DEF vars, SquashComposes
    <3>9. OutputIsEager' <=> OutputIsEager BY Zenon, <2>9, <3>2 DEF vars, OutputIsEager
    <3>10. phase' = phase /\ clash' = clash BY Zenon, <2>9 DEF vars
    <3>11. ExactInv'
      BY Zenon, <1>1, <3>3, <3>4, <3>5, <3>6, <3>7, <3>8, <3>9, <3>10 DEF Inv, ExactInv
    <3> QED BY <3>1, <3>11, ZenonT(40) DEF Inv
  <2> QED BY Zenon, <1>1, <2>1, <2>2, <2>3, <2>4, <2>5, <2>6, <2>7, <2>8, <2>9 DEF Next
<1> QED BY <1>1, InitInv, PTL DEF Spec

(* Values stay within the limit and deltas keep their ranges.              *)
THEOREM TypeCorrect == Spec => []TypeOK
<1>1. Inv => TypeOK BY Zenon DEF Inv, Sound
<1> QED BY <1>1, Invariance, PTL

(* A delta with its history is exactly the sequence of checked operations  *)
(* it stands for, whatever value storage holds.                            *)
THEOREM DeltasAreExact == Spec => []LazyIsEager
<1>1. Inv => LazyIsEager
  <2> SUFFICES ASSUME Inv, Running, ~clash, NEW id \in DOMAIN aggregators
               PROVE  Represents(aggregators[id], eager[id])
    BY Zenon DEF LazyIsEager, Represents, DeltaOf
  <2>1. id \in Ids /\ Covered(aggregators[id])
    BY Zenon DEF Inv, Sound, TypeOK, SoundAgg, Running
  <2>2. \A b \in Base : eager[id][b] = Exact(aggregators[id], b)
    BY Zenon, <2>1 DEF Inv, ExactInv, IdOK
  <2> QED BY <2>1, <2>2, RepresentsExact, Zenon
<1> QED BY <1>1, Invariance, PTL

(* Deferring the checks never fails a transaction that would have passed.  *)
THEOREM NoSpuriousFailure == Spec => []FailsOnlyIfEager
<1>1. Inv => FailsOnlyIfEager
  BY Zenon DEF Inv, ExactInv, FailsOnlyIfEager
<1> QED BY <1>1, Invariance, PTL

(* Squashing the epilogue's change set onto the user's is composition.     *)
THEOREM SquashIsComposition == Spec => []SquashComposes
<1>1. Inv => SquashComposes
  BY Zenon DEF Inv, ExactInv, SquashComposes
<1> QED BY <1>1, Invariance, PTL

(* Only exact values are written.                                          *)
THEOREM OutputExact == Spec => []OutputIsEager
<1>1. Inv => OutputIsEager
  BY Zenon DEF Inv, ExactInv, OutputIsEager
<1> QED BY <1>1, Invariance, PTL
=============================================================================
