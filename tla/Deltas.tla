------------------------------- MODULE Deltas -------------------------------
(***************************************************************************)
(* DeltaOp, the change an aggregator makes to a value it has not read.     *)
(*                                                                         *)
(* A delta carries the signed sum of the additions and subtractions it     *)
(* stands for (DeltaUpdate, Plus as a number >= 0 and Minus as one below), *)
(* and the extremes that the sum went through, so that applying it later   *)
(* fails exactly when one of the operations would have failed.  Values are *)
(* u128 in the code; every sum is compared with a limit of that type       *)
(* before it is formed, so none of them can wrap.                          *)
(***************************************************************************)
EXTENDS Integers

(* Err(abort_error(..)) of a fallible operation on values.                 *)
Err == -1

Larger(a, b) == IF a >= b THEN a ELSE b

AdditionUnchecked(base, value, limit) == base + value

addition(base, value, limit) ==
  IF limit < base \/ value > limit - base THEN Err ELSE base + value

subtraction(base, value) == IF value > base THEN Err ELSE base - value

DeltaOp(update, limit, maxPositive, minNegative) ==
  [update |-> update, limit |-> limit,
   maxPositive |-> maxPositive, minNegative |-> minNegative]

(* DeltaUpdate::Plus(u) or DeltaUpdate::Minus(-u) on a base value.         *)
Update(base, u, limit) ==
  IF u >= 0 THEN addition(base, u, limit) ELSE subtraction(base, -u)

ApplyWithoutHistory(d, base) == Update(base, d.update, d.limit)

apply_to(d, base) ==
  IF \/ addition(base, d.maxPositive, d.limit) = Err
     \/ subtraction(base, d.minNegative) = Err
  THEN Err
  ELSE Update(base, d.update, d.limit)

shifted_max_positive_by(d, prev) ==
  IF prev.update >= 0
  THEN addition(prev.update, d.maxPositive, d.limit)
  ELSE Larger(subtraction(d.maxPositive, -prev.update), 0)

shifted_min_negative_by(d, prev) ==
  IF prev.update >= 0
  THEN Larger(subtraction(d.minNegative, prev.update), 0)
  ELSE addition(-prev.update, d.minNegative, d.limit)

(* The sum of two updates; of the same sign only if it is within the limit *)
SumFits(u, v, limit) ==
  /\ u >= 0 /\ v >= 0 => addition(u, v, limit) # Err
  /\ u < 0 /\ v < 0 => addition(-u, -v, limit) # Err

(* The delta of d applied after prev; NoDelta if the merge is an error.    *)
NoDelta == [update |-> 0, limit |-> Err, maxPositive |-> 0, minNegative |-> 0]

merge_onto(d, prev) ==
  LET shiftedMax == shifted_max_positive_by(d, prev)
      shiftedMin == shifted_min_negative_by(d, prev)
  IN  IF \/ shiftedMax = Err
         \/ shiftedMin = Err
         \/ ~SumFits(prev.update, d.update, d.limit)
      THEN NoDelta
      ELSE DeltaOp(prev.update + d.update, d.limit,
                   Larger(prev.maxPositive, shiftedMax),
                   Larger(prev.minNegative, shiftedMin))

(***************************************************************************)
(* The deltas that aggregators produce: the update is one of the sums that *)
(* the extremes cover.                                                     *)
(***************************************************************************)
IsDelta(d, limit) ==
  /\ d \in [update : Int, limit : {limit}, maxPositive : Nat, minNegative : Nat]
  /\ d.update <= d.maxPositive
  /\ -d.update <= d.minNegative
=============================================================================
