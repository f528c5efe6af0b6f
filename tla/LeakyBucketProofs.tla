--------------------------- MODULE LeakyBucketProofs ---------------------------
(***************************************************************************)
(* The bucket keeps the promise of RateBudget, for every capacity and rate *)
(* and however long the service runs: one number replaces the record of    *)
(* all exceptions.  The arithmetic comes first.                            *)
(***************************************************************************)
EXTENDS LeakyBucket, TLAPS

(* Multiplication by a positive number keeps the order.                    *)
LEMMA ProductOrder ==
  ASSUME NEW x \in Int, NEW y \in Int, NEW d \in Nat, d > 0
  PROVE  x <= y <=> x * d <= y * d
<1>1. y * d - x * d = (y - x) * d
  BY SMT
<1>2. (y - x) * d >= 0 <=> y - x >= 0
  BY SMT
<1> QED  BY <1>1, <1>2, SMT

(* A quotient reaches q when the dividend reaches q times the divisor.     *)
LEMMA QuotientReaches ==
  ASSUME NEW a \in Int, NEW q \in Int, NEW d \in Nat, d > 0
  PROVE  q <= a \div d <=> q * d <= a
<1> DEFINE m == a \div d
<1>1. m \in Int /\ m * d <= a /\ a < (m + 1) * d
  BY SMT
<1> HIDE DEF m
<1>2. q <= m => q * d <= m * d
  BY <1>1, ProductOrder
<1>3. m + 1 <= q => (m + 1) * d <= q * d
  BY <1>1, ProductOrder
<1>4. q * d \in Int /\ m * d \in Int /\ (m + 1) * d \in Int
  BY <1>1
<1>5. q <= m <=> q * d <= a
  BY <1>1, <1>2, <1>3, <1>4
<1> QED  BY <1>5 DEF m

(* Rounding up reaches q when the dividend is more than q - 1 divisors.    *)
LEMMA CeilDivReaches ==
  ASSUME NEW a \in Int, NEW q \in Int, NEW d \in Nat, d > 0
  PROVE  /\ CeilDiv(a, d) \in Int
         /\ q <= CeilDiv(a, d) <=> (q - 1) * d < a
<1>1. q <= (a + d - 1) \div d <=> q * d <= a + d - 1
  BY QuotientReaches
<1>2. q * d = (q - 1) * d + d
  BY SMT
<1>3. q * d \in Int /\ (q - 1) * d \in Int
  OBVIOUS
<1>4. (a + d - 1) \div d \in Int
  OBVIOUS
<1> QED  BY <1>1, <1>2, <1>3, <1>4 DEF CeilDiv

-----------------------------------------------------------------------------
(* The bucket                                                              *)

LEMMA EmptyRecord ==
  ASSUME clock \in Nat, e = clock, survived = <<>>, exited = FALSE
  PROVE  BucketInv
<1>1. survived \in Seq(Nat)
  OBVIOUS
<1>2. Len(survived) = 0
  OBVIOUS
<1>3. 1..Len(survived) = {}
  BY <1>2
<1>4. BucketTypeOK
  BY <1>1 DEF BucketTypeOK
<1> QED  BY <1>3, <1>4 DEF BucketInv

(* The exceptions since the i-th leak one by one.                          *)
LEMMA LeaksByFacts ==
  ASSUME BucketTypeOK, NEW i \in 1..Len(survived)
  PROVE  /\ survived[i] \in Nat /\ LeaksBy(i) \in Int
         /\ Len(survived) - i + 1 \in Int
         /\ (Len(survived) - i + 1) * Drip \in Int
         /\ LeaksBy(i) = survived[i] + (Len(survived) - i + 1) * Drip
  BY LeakyBucketAssumption DEF BucketTypeOK, LeaksBy

LEMMA AddKeepsInv ==
  ASSUME BucketInv, Add, survived' = Append(survived, clock),
         UNCHANGED <<clock, exited>>
  PROVE  BucketInv'
<1> USE LeakyBucketAssumption
<1>0. PICK n \in Nat : n = Len(survived)
  BY DEF BucketInv, BucketTypeOK
<1>1. n \in Nat /\ Len(survived') = n + 1 /\ survived'[n + 1] = clock
  BY <1>0 DEF BucketInv, BucketTypeOK
<1>2. \A i \in 1..n : survived'[i] = survived[i] /\ survived[i] \in Nat
  BY <1>0 DEF BucketInv, BucketTypeOK
<1>3. /\ clock \in Nat /\ e \in Nat /\ Drip \in Nat
      /\ e' = (IF clock >= e THEN clock ELSE e) + Drip
  BY DEF BucketInv, BucketTypeOK, Add
<1>4. BucketTypeOK'
  BY <1>3 DEF BucketInv, BucketTypeOK
<1>5. LeaksBy(n + 1)' = clock + Drip
  BY <1>1, <1>3 DEF LeaksBy
<1>6. ASSUME NEW i \in 1..n
      PROVE  LeaksBy(i)' = LeaksBy(i) + Drip /\ LeaksBy(i) \in Int
  <2>1. i \in Int
    OBVIOUS
  <2>2. (n + 1 - i + 1) * Drip = (n - i + 1) * Drip + Drip
    BY <1>1, <1>3, <2>1, SMT
  <2>3. LeaksBy(i)' = survived[i] + (n + 1 - i + 1) * Drip
    BY <1>1, <1>2 DEF LeaksBy
  <2>4. LeaksBy(i) = survived[i] + (n - i + 1) * Drip
    BY <1>0 DEF LeaksBy
  <2>5. (n - i + 1) * Drip \in Int /\ survived[i] \in Int
    BY <1>1, <1>2, <1>3, <2>1
  <2> QED  BY <1>3, <2>2, <2>3, <2>4, <2>5
<1>7. ASSUME NEW i \in 1..(n + 1)
      PROVE  survived'[i] <= clock /\ LeaksBy(i)' <= e'
  <2>1. CASE i = n + 1
    BY <1>1, <1>3, <1>5, <2>1
  <2>2. CASE i \in 1..n
    <3>1. survived[i] <= clock /\ LeaksBy(i) <= e
      BY <1>0, <2>2 DEF BucketInv
    <3>2. LeaksBy(i)' = LeaksBy(i) + Drip /\ LeaksBy(i) \in Int
      BY <1>6, <2>2
    <3>3. LeaksBy(i)' <= e'
      BY <1>3, <3>1, <3>2
    <3> QED  BY <1>2, <2>2, <3>1, <3>3
  <2> QED  BY <1>1, <2>1, <2>2
<1>8. \E i \in 1..(n + 1) : LeaksBy(i)' = e'
  <2>1. CASE clock >= e
    BY <1>1, <1>3, <1>5, <2>1
  <2>2. CASE ~(clock >= e)
    <3>1. PICK i \in 1..n : LeaksBy(i) = e
      BY <1>0, <1>3, <2>2 DEF BucketInv
    <3>2. i \in 1..(n + 1) /\ LeaksBy(i)' = e'
      BY <1>1, <1>3, <1>6, <2>2, <3>1
    <3> QED  BY <3>2
  <2> QED  BY <2>1, <2>2
<1> QED  BY <1>1, <1>4, <1>7, <1>8 DEF BucketInv

LEMMA NextBucketInv ==
  ASSUME BucketInv, [BucketNext]_bucketVars
  PROVE  BucketInv'
<1>1. CASE InitExceptionRateLimiter
  <2>1. clock' \in Nat /\ e' = clock' /\ survived' = <<>> /\ exited' = FALSE
    BY <1>1 DEF InitExceptionRateLimiter, BucketInv, BucketTypeOK
  <2>2. survived' \in Seq(Nat) /\ e' <= clock' /\ e' \in Nat
    BY <2>1
  <2>3. 1..Len(survived') = {}
    BY <2>1
  <2>4. BucketTypeOK'
    BY <2>1, <2>2 DEF BucketTypeOK
  <2> QED  BY <2>1, <2>2, <2>3, <2>4 DEF BucketInv
<1>2. CASE CheckExceptionRateLimit
  <2>1. CASE /\ Add /\ survived' = Append(survived, clock)
             /\ UNCHANGED <<clock, exited>>
    BY <2>1, AddKeepsInv
  <2>2. CASE exited' = TRUE /\ UNCHANGED <<clock, e, survived>>
    BY <2>2 DEF BucketInv, BucketTypeOK, LeaksBy
  <2> QED  BY <1>2, <2>1, <2>2 DEF CheckExceptionRateLimit
<1>3. CASE Tick
  <2>1. /\ clock' = clock + 1 /\ clock \in Nat /\ e' = e /\ e \in Nat
        /\ survived' = survived /\ exited' = exited
    BY <1>3 DEF Tick, BucketInv, BucketTypeOK
  <2>2. BucketTypeOK'
    BY <2>1 DEF BucketInv, BucketTypeOK
  <2>3. \A i \in 1..Len(survived) : LeaksBy(i)' = LeaksBy(i)
    BY <2>1 DEF LeaksBy
  <2>4. ASSUME NEW i \in 1..Len(survived)
        PROVE  survived[i] <= clock' /\ LeaksBy(i)' <= e'
    BY <2>1, <2>3, LeaksByFacts DEF BucketInv
  <2>5. \/ e' <= clock' /\ survived' = <<>>
        \/ \E i \in 1..Len(survived) : LeaksBy(i)' = e'
    BY <2>1, <2>3 DEF BucketInv
  <2> QED  BY <2>1, <2>2, <2>4, <2>5 DEF BucketInv
<1>4. CASE UNCHANGED bucketVars
  BY <1>4 DEF bucketVars, BucketInv, BucketTypeOK, LeaksBy
<1> QED  BY <1>1, <1>2, <1>3, <1>4 DEF BucketNext

-----------------------------------------------------------------------------
(* The bucket is full exactly when the promise allows no more.             *)
LEMMA FullWhenSpent == ASSUME BucketInv PROVE IsFull <=> ~Budget!Affordable(clock)
<1> USE LeakyBucketAssumption
<1>1. clock \in Nat /\ e \in Nat /\ BucketTypeOK
  BY DEF BucketInv, BucketTypeOK
<1>2. ASSUME NEW i \in 1..Len(survived)
      PROVE  Budget!Outstanding(i, clock) < Capacity
               <=> LeaksBy(i) - (Capacity - 1) * Drip <= clock
  <2> DEFINE k == Len(survived) - i + 1
             s == survived[i]
             quotient == (clock - s) \div Drip
  <2>1. /\ k \in Int /\ s \in Int /\ k * Drip \in Int
        /\ LeaksBy(i) = s + k * Drip
    BY <1>1, LeaksByFacts
  <2>2. quotient \in Int
    BY <1>1, <2>1
  <2>3. Budget!Outstanding(i, clock) = k - quotient
    BY DEF Budget!Outstanding
  <2> HIDE DEF k, s
  <2>4. k - Capacity + 1 <= quotient <=> (k - Capacity + 1) * Drip <= clock - s
    BY <1>1, <2>1, QuotientReaches
  <2>5. (k - Capacity + 1) * Drip = k * Drip - (Capacity - 1) * Drip
    BY <2>1, SMT
  <2>6. (Capacity - 1) * Drip \in Int
    OBVIOUS
  <2> HIDE DEF quotient
  <2> QED  BY <1>1, <2>1, <2>2, <2>3, <2>4, <2>5, <2>6
<1>3. CASE clock >= e
  <2>1. IsFull <=> Capacity <= 0
    BY <1>3 DEF IsFull, Count
  <2>2. ASSUME Capacity > 0, NEW i \in 1..Len(survived)
        PROVE  Budget!Outstanding(i, clock) < Capacity
    <3>1. LeaksBy(i) <= clock /\ LeaksBy(i) \in Int
      BY <1>1, <1>3, LeaksByFacts DEF BucketInv
    <3>2. 0 * Drip <= (Capacity - 1) * Drip /\ (Capacity - 1) * Drip \in Int
      BY <2>2, ProductOrder
    <3>3. 0 * Drip = 0
      OBVIOUS
    <3> QED  BY <1>1, <1>2, <3>1, <3>2, <3>3
  <2> QED  BY <2>1, <2>2 DEF Budget!Affordable
<1>4. CASE ~(clock >= e)
  <2>1. IsFull <=> (Capacity - 1) * Drip < e - clock
    <3>1. Count = CeilDiv(e - clock, Drip)
      BY <1>4 DEF Count
    <3>2. /\ CeilDiv(e - clock, Drip) \in Int
          /\ Capacity <= CeilDiv(e - clock, Drip)
               <=> (Capacity - 1) * Drip < e - clock
      BY <1>1, CeilDivReaches
    <3> QED  BY <3>1, <3>2 DEF IsFull
  <2>2. (Capacity - 1) * Drip \in Int
    OBVIOUS
  <2>3. PICK i \in 1..Len(survived) : LeaksBy(i) = e
    BY <1>1, <1>4 DEF BucketInv
  <2>4. IsFull => ~(Budget!Outstanding(i, clock) < Capacity)
    BY <1>1, <1>2, <2>1, <2>2, <2>3
  <2>5. ASSUME ~IsFull
        PROVE  Capacity > 0
    <3>1. CASE Capacity <= 0
      <4>1. (Capacity - 1) * Drip <= 0 * Drip
        BY <3>1, ProductOrder
      <4>2. 0 * Drip = 0
        OBVIOUS
      <4> QED  BY <1>1, <1>4, <2>1, <2>2, <2>5, <4>1, <4>2
    <3> QED  BY <3>1
  <2>6. ASSUME ~IsFull, NEW j \in 1..Len(survived)
        PROVE  Budget!Outstanding(j, clock) < Capacity
    <3>1. LeaksBy(j) <= e /\ LeaksBy(j) \in Int
      BY <1>1, LeaksByFacts DEF BucketInv
    <3> QED  BY <1>1, <1>2, <2>1, <2>2, <2>6, <3>1
  <2> QED  BY <2>3, <2>4, <2>5, <2>6 DEF Budget!Affordable
<1> QED  BY <1>3, <1>4

(* The whole record of exceptions is in one number, at every time.         *)
THEOREM BucketIsSummary == BucketSpec => []BucketInv
<1>1. BucketInv /\ [BucketNext]_bucketVars => BucketInv'
  BY NextBucketInv
<1>2. BucketInit => BucketInv
  BY EmptyRecord, 0 \in Nat DEF BucketInit
<1> QED  BY <1>1, <1>2, PTL DEF BucketSpec

LEMMA StepKeepsPromise ==
  ASSUME BucketInv, [BucketNext]_bucketVars
  PROVE  [Budget!Next]_<<clock, survived, exited>>
<1>1. CASE InitExceptionRateLimiter
  BY <1>1 DEF InitExceptionRateLimiter, Budget!Next, Budget!Restart
<1>2. CASE CheckExceptionRateLimit
  BY <1>2, FullWhenSpent
     DEF CheckExceptionRateLimit, Add, Budget!Next, Budget!Survive, Budget!GiveUp
<1>3. CASE Tick
  <2>1. clock' > clock
    BY <1>3 DEF Tick, BucketInv, BucketTypeOK
  <2> QED  BY <1>3, <2>1 DEF Tick, Budget!Next, Budget!Pass
<1>4. CASE UNCHANGED bucketVars
  BY <1>4 DEF bucketVars
<1> QED  BY <1>1, <1>2, <1>3, <1>4 DEF BucketNext

(* The process gives up exactly when the exceptions since some earlier one *)
(* are more than the number allowed and the rate: the limiter neither lets *)
(* an exception too many pass nor ends a process that is within its budget.*)
THEOREM BucketKeepsPromise == BucketSpec => BudgetSpec
<1>1. BucketInit => Budget!Init
  BY DEF BucketInit, Budget!Init
<1>2. BucketInv /\ [BucketNext]_bucketVars => [Budget!Next]_<<clock, survived, exited>>
  BY StepKeepsPromise
<1>3. BucketInv /\ [BucketNext]_bucketVars => BucketInv'
  BY NextBucketInv
<1>4. BucketInit => BucketInv
  BY EmptyRecord, 0 \in Nat DEF BucketInit
<1> QED
  BY <1>1, <1>2, <1>3, <1>4, PTL DEF BucketSpec, BudgetSpec, Budget!Spec
================================================================================
