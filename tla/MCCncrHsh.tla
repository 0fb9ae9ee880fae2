------------------------------ MODULE MCCncrHsh ------------------------------
(***************************************************************************)
(* Instances of CncrHsh for TLC.                                           *)
(***************************************************************************)
EXTENDS CncrHsh, TLC

CONSTANTS a, b, p1

(* Keys that hash to different slots, and keys that collide.               *)
HomeApart == [k \in Key |-> IF k = a THEN 0 ELSE 1]
HomeSame == [k \in Key |-> 0]

(* Every key has one thread that puts it, as in the co-simulation.  Both   *)
(* threads delete a, as the two sides of a mailbox do; b is deleted by the *)
(* thread that puts it.                                                    *)
PutsOwn == [p \in Proc |-> IF p = p1 THEN {a} ELSE Key \ {a}]
DelsOwn == [p \in Proc |-> IF p = p1 THEN {a} ELSE Key]

(* Every thread puts and deletes every key.                                *)
AnyKey == [p \in Proc |-> Key]
=============================================================================
