------------------------------- MODULE KVStore -------------------------------
(***************************************************************************)
(* What the hash table of simdb promises: a map from keys to values.  Every *)
(* put() makes a new entry that becomes the value of its key, and a key     *)
(* that is deleted has no value until the next put().                       *)
(***************************************************************************)
EXTENDS Naturals

CONSTANTS Key, Entry, None

VARIABLES
  kv,         \* the entry of every key, or None
  used        \* the entries that have been the value of a key

Init == kv = [k \in Key |-> None] /\ used = {}

Put(k, e) ==
  /\ e \notin used
  /\ used' = used \union {e}
  /\ kv' = [kv EXCEPT ![k] = e]

Del(k) ==
  /\ kv[k] # None
  /\ kv' = [kv EXCEPT ![k] = None]
  /\ UNCHANGED used

Next == \E k \in Key : Del(k) \/ \E e \in Entry : Put(k, e)

Spec == Init /\ [][Next]_<<kv, used>>
=============================================================================
