------------------------------ MODULE MCCncrStr ------------------------------
(***************************************************************************)
(* Instances of CncrStr for TLC.                                           *)
(***************************************************************************)
EXTENDS CncrStr, TLC

(* Threads and blocks are interchangeable.                                 *)
Symmetry == Permutations(Proc) \union Permutations(Blk)
=============================================================================
