---------------------------- MODULE SampleRetention ----------------------------
(***************************************************************************)
(* What the compactor promises, without saying how: samples are only ever  *)
(* added to the open directory, and a sample may be thrown away only when  *)
(* its directory is no longer the open one and no error reported so far    *)
(* lies within Preserve seconds of it.  Directories, files, bookkeeping    *)
(* and crashes do not appear.                                              *)
(***************************************************************************)
EXTENDS Integers

CONSTANT Preserve  \* GeneralConfig.HiFiDataPreserveTimeSecs

VARIABLES
  open,    \* the directory samples are stored in
  kept,    \* the samples that can still be read, raw or high fidelity
  errors   \* the errors reported so far

Near(s, e) ==
  /\ e.boot = s.dir.boot
  /\ e.time - Preserve <= s.time
  /\ s.time <= e.time + Preserve

Init == errors = {}

Take ==
  /\ kept \subseteq kept'
  /\ \A s \in kept' \ kept : s.dir = open
  /\ UNCHANGED <<open, errors>>

Report ==
  /\ errors \subseteq errors'
  /\ \A e \in errors' \ errors : e.boot = open.boot
  /\ UNCHANGED <<open, kept>>

Forget ==
  /\ kept' \subseteq kept
  /\ \A s \in kept \ kept' : s.dir # open /\ \A e \in errors : ~Near(s, e)
  /\ UNCHANGED <<open, errors>>

OpenNext == open' # open /\ UNCHANGED <<kept, errors>>

Next == Take \/ Report \/ Forget \/ OpenNext

Spec == Init /\ [][Next]_<<open, kept, errors>>
================================================================================
