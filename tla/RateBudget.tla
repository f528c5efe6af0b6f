------------------------------ MODULE RateBudget ------------------------------
(***************************************************************************)
(* What the exception limiter promises, without the bucket: an exception   *)
(* is survived exactly when, counted from each exception survived before,  *)
(* there have not been more than the capacity and what the rate allowed in *)
(* the time since.                                                         *)
(***************************************************************************)
EXTENDS Integers, Sequences

CONSTANTS
  Capacity,  \* GeneralConfig.ExceptionAllowNumber
  Drip       \* the time after which one more exception is allowed

VARIABLES
  clock,     \* the time
  survived,  \* when the exceptions were caught that did not end the process
  exited     \* the process gave up

(* How many of the exceptions since the i-th still count at time t.        *)
Outstanding(i, t) == (Len(survived) - i + 1) - ((t - survived[i]) \div Drip)

Affordable(t) ==
  /\ Capacity > 0
  /\ \A i \in 1..Len(survived) : Outstanding(i, t) < Capacity

Init == survived = <<>> /\ exited = FALSE

Survive ==
  /\ ~exited /\ Affordable(clock)
  /\ survived' = Append(survived, clock)
  /\ UNCHANGED <<clock, exited>>

GiveUp ==
  /\ ~exited /\ ~Affordable(clock)
  /\ exited' = TRUE
  /\ UNCHANGED <<clock, survived>>

(* A new process starts with a clean record.                               *)
Restart == survived' = <<>> /\ exited' = FALSE /\ UNCHANGED clock

Pass == clock' > clock /\ UNCHANGED <<survived, exited>>

Next == Survive \/ GiveUp \/ Restart \/ Pass

Spec == Init /\ [][Next]_<<clock, survived, exited>>
================================================================================
