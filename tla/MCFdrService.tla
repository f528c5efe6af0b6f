----------------------------- MODULE MCFdrService -----------------------------
(* Device names for the run of FdrService: one that has an instance number *)
(* and an Error record, and the generic name of its kind.                  *)
EXTENDS FdrService

MCNames ==
  {[kind |-> "GPU", numbers |-> <<1>>], [kind |-> "GPU", numbers |-> <<>>]}
MCComponents == {[kind |-> "GPU", number |-> 1]}
================================================================================
