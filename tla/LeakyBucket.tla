------------------------------ MODULE LeakyBucket ------------------------------
(***************************************************************************)
(* The limiter that ends the process when too many exceptions are caught   *)
(* in the refresh of records (class LeakyBucket of fdr_common.cpp and      *)
(* CheckExceptionRateLimit of fdr.cpp).  It keeps one number: the time at  *)
(* which everything in the bucket will have leaked out.                    *)
(*                                                                         *)
(* Time is counted in the unit of Drip, the time one exception takes to    *)
(* leak (1 / ExceptionAllowRate seconds), taken as a whole number.         *)
(***************************************************************************)
EXTENDS Integers, Sequences

CONSTANTS
  Capacity,     \* GeneralConfig.ExceptionAllowNumber
  Drip,         \* 1 / GeneralConfig.ExceptionAllowRate
  MaxClock,     \* bound: the clock stops here
  MaxSurvived   \* bound: how many exceptions one process survives

ASSUME LeakyBucketAssumption ==
  /\ Capacity \in Int
  /\ Drip \in Nat /\ Drip > 0
  /\ MaxClock \in Nat /\ MaxSurvived \in Nat

VARIABLES
  clock,     \* std::chrono::steady_clock::now()
  e,         \* when the bucket will be empty
  survived,  \* history: when this process caught an exception and went on
  exited     \* exit(EXIT_FAILURE) was called

bucketVars == <<clock, e, survived, exited>>

(* a / b rounded up, for b > 0.                                            *)
CeilDiv(a, b) == (a + b - 1) \div b

Count_roundedDown == IF clock >= e THEN 0 ELSE (e - clock) \div Drip
Count == IF clock >= e THEN 0 ELSE CeilDiv(e - clock, Drip)

IsFull == Count >= Capacity

BucketInit == clock = 0 /\ e = 0 /\ survived = <<>> /\ exited = FALSE

(* InitExceptionRateLimiter, in every process that is started.             *)
InitExceptionRateLimiter ==
  /\ e' = clock /\ survived' = <<>> /\ exited' = FALSE
  /\ UNCHANGED clock

(* Add(1): an empty bucket starts to fill now.                             *)
Add ==
  /\ ~IsFull
  /\ e' = (IF clock >= e THEN clock ELSE e) + Drip

(* CheckExceptionRateLimit: an exception was caught.                       *)
CheckExceptionRateLimit ==
  /\ ~exited
  /\ \/ /\ Len(survived) < MaxSurvived
        /\ Add
        /\ survived' = Append(survived, clock)
        /\ UNCHANGED <<clock, exited>>
     \/ /\ IsFull
        /\ exited' = TRUE
        /\ UNCHANGED <<clock, e, survived>>

Tick ==
  /\ clock < MaxClock
  /\ clock' = clock + 1
  /\ UNCHANGED <<e, survived, exited>>

BucketNext == InitExceptionRateLimiter \/ CheckExceptionRateLimit \/ Tick

BucketSpec == BucketInit /\ [][BucketNext]_bucketVars

-----------------------------------------------------------------------------
BucketTypeOK ==
  /\ clock \in Nat /\ e \in Nat /\ exited \in BOOLEAN
  /\ survived \in Seq(Nat)

(* One number stands for the whole record of exceptions: e is the latest   *)
(* time at which the exceptions since some earlier one will have leaked.   *)
LeaksBy(i) == survived[i] + (Len(survived) - i + 1) * Drip

BucketInv ==
  /\ BucketTypeOK
  /\ \A i \in 1..Len(survived) : survived[i] <= clock /\ LeaksBy(i) <= e
  /\ \/ e <= clock /\ survived = <<>>
     \/ \E i \in 1..Len(survived) : LeaksBy(i) = e

(* The bucket ends the process exactly when its promise allows no more.    *)
Budget == INSTANCE RateBudget
BudgetSpec == Budget!Spec
================================================================================
