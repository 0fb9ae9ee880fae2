----------------------------- MODULE MCSimdbFile -----------------------------
(***************************************************************************)
(* Instances of SimdbFile for TLC.                                         *)
(***************************************************************************)
EXTENDS SimdbFile, TLC

(* Processes are interchangeable.                                          *)
Symmetry == Permutations(Proc)
=============================================================================
