------------------------------ MODULE MCCncrLst ------------------------------
(***************************************************************************)
(* Instances of CncrLst for TLC.                                           *)
(***************************************************************************)
EXTENDS CncrLst, TLC

(* Threads and lists are interchangeable.                                  *)
Symmetry == Permutations(Proc) \union Permutations(Handle)
=============================================================================
