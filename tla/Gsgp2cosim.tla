----------------------------- MODULE Gsgp2cosim -----------------------------
(***************************************************************************)
(* The bridge from the virtual platform's bus to the RTL simulator         *)
(* (Gsgp2cosim::b_transact): a mailbox of two keys in the shared database  *)
(* for every direction, "dn" for the request and "up" for the answer.      *)
(*                                                                         *)
(* The constructor deletes the keys it finds in the database.  The         *)
(* database is used as the map that CncrHsh provides to callers that put   *)
(* absent keys only.  A get() asks for the length of the value first,      *)
(* which decides whether there is one, and then reads it, which matters    *)
(* where the value is used: a value that has changed in between may be     *)
(* read as zeros.                                                          *)
(*                                                                         *)
(* The SystemC kernel runs one transaction of a bridge at a time.  The RTL  *)
(* side is external: it takes a request from dn in two steps, get and      *)
(* delete, and answers in up.                                              *)
(***************************************************************************)
EXTENDS KeyScan

CONSTANTS
  MaxTx,       \* bound: transactions
  Timeout      \* shm_timeout, 2^32 - 1 by default

Dir == {"wr", "rd"}
Tx == 1 .. MaxTx
None == 0
Old == -1      \* what an earlier run left behind
Zeros == -2    \* the value of a get() that found the length only

ASSUME TxAssumption == MaxTx \in Nat \ {0} /\ Timeout \in Nat \ {0}

VARIABLES
  dn, up,      \* the keys of both directions: the transaction they belong to
  pc,          \* where b_transact stands
  tx,          \* transactions begun
  dir,         \* direction of the one in progress
  sawDn, sawUp,\* what the first gets of the transaction found
  timeout,     \* polls left
  got,         \* the answer the loop ended with, None on timeout
  rtl,         \* where the RTL side of each direction stands
  req,         \* the request it is working on
  done,        \* requests the RTL has carried out
  expired,     \* ghost: the accesses of each direction that ran out of time
  left         \* ghost: the directions with keys of an earlier run

boxVars ==
  <<dn, up, pc, tx, dir, sawDn, sawUp, timeout, got, rtl, req, done, expired, left>>
vars == <<boxVars, scanVars>>
rtlVars == <<rtl, req, done>>
ctorVars == <<left, scanVars>>

Go(l) == pc' = l

DnKey == [wr |-> "wr_dn", rd |-> "rd_dn"]
UpKey == [wr |-> "wr_up", rd |-> "rd_up"]
Keys == {DnKey[d] : d \in Dir} \union {UpKey[d] : d \in Dir}

Init ==
  /\ ScanInit(Tables(Keys))
  /\ dn = [d \in Dir |-> None] /\ up = [d \in Dir |-> None]
  /\ pc = "ctor" /\ tx = 0 /\ dir = "wr"
  /\ sawDn = None /\ sawUp = None /\ timeout = Timeout /\ got = None
  /\ rtl = [d \in Dir |-> "idle"] /\ req = [d \in Dir |-> None]
  /\ done = {} /\ expired = [d \in Dir |-> {}] /\ left = {}

------------------------------------------------------------------------------

(* The constructor: getKeyStrs() ...                                       *)
CtorScan == pc = "ctor" /\ NxtKey /\ UNCHANGED boxVars

(* ... and del() of what it lists.                                         *)
CtorDel ==
  /\ pc = "ctor" /\ DelListed
  /\ dn' = [d \in Dir |-> IF DnKey[d] \in Left THEN Old ELSE None]
  /\ up' = [d \in Dir |-> IF UpKey[d] \in Left THEN Old ELSE None]
  /\ left' = {d \in Dir : {DnKey[d], UpKey[d]} \intersect Left # {}}
  /\ Go("idle")
  /\ UNCHANGED <<tx, dir, sawDn, sawUp, timeout, got, rtlVars, expired>>

(* A bus access begins with a look at both keys, the request first.        *)
GetDn ==
  /\ pc = "idle" /\ tx < MaxTx
  /\ tx' = tx + 1
  /\ dir' \in Dir
  /\ sawDn' = dn[dir']
  /\ got' = None
  /\ Go("get_up")
  /\ UNCHANGED <<dn, up, sawUp, timeout, rtlVars, expired, ctorVars>>

GetUp ==
  /\ pc = "get_up"
  /\ sawUp' = up[dir]
  /\ Go("del_up")
  /\ UNCHANGED <<dn, up, tx, dir, sawDn, timeout, got, rtlVars, expired, ctorVars>>

(* "The last ... up stream FIFO is not empty!"                             *)
DelOldUp ==
  /\ pc = "del_up"
  /\ up' = IF sawUp # None THEN [up EXCEPT ![dir] = None] ELSE up
  /\ Go("del_dn")
  /\ UNCHANGED <<dn, tx, dir, sawDn, sawUp, timeout, got, rtlVars, expired, ctorVars>>

(* "The last ... down stream is not done yet!"                             *)
DelOldDn ==
  /\ pc = "del_dn"
  /\ dn' = IF sawDn # None THEN [dn EXCEPT ![dir] = None] ELSE dn
  /\ Go("put_dn")
  /\ UNCHANGED <<up, tx, dir, sawDn, sawUp, timeout, got, rtlVars, expired, ctorVars>>

(* Mutant: the request goes to the key of the other direction.             *)
PutDnOtherKey ==
  /\ pc = "put_dn"
  /\ dn' = [dn EXCEPT !["wr"] = tx]
  /\ timeout' = Timeout
  /\ Go("poll")
  /\ UNCHANGED <<up, tx, dir, sawDn, sawUp, got, rtlVars, expired, ctorVars>>

PutDn ==
  /\ pc = "put_dn"
  /\ dn' = [dn EXCEPT ![dir] = tx]
  /\ timeout' = Timeout
  /\ Go("poll")
  /\ UNCHANGED <<up, tx, dir, sawDn, sawUp, got, rtlVars, expired, ctorVars>>

(* The answer is whatever is in up: its length ...                         *)
PollHit ==
  /\ pc = "poll" /\ up[dir] # None
  /\ got' = up[dir]
  /\ Go("read")
  /\ UNCHANGED <<dn, up, tx, dir, sawDn, sawUp, timeout, rtlVars, expired, ctorVars>>

(* ... and its value.  The search for a key may miss it while its value is *)
(* replaced, and then leaves the buffer as it was.                         *)
PollRead ==
  /\ pc = "read"
  /\ got' \in IF up[dir] = got THEN {got} ELSE {up[dir], Zeros} \ {None}
  /\ Go("del_answer")
  /\ UNCHANGED <<dn, up, tx, dir, sawDn, sawUp, timeout, rtlVars, expired, ctorVars>>

(* Mutant: the last poll gives up without a countdown.                     *)
PollMissNoCount ==
  /\ pc = "poll" /\ up[dir] = None
  /\ Go("poll")
  /\ UNCHANGED <<dn, up, tx, dir, sawDn, sawUp, timeout, got, rtlVars, expired, ctorVars>>

(* Mutant: the countdown does not stop at zero.                            *)
PollMissNoStop ==
  /\ pc = "poll" /\ up[dir] = None
  /\ timeout' = timeout - 1
  /\ UNCHANGED <<dn, up, pc, tx, dir, sawDn, sawUp, got, rtlVars, expired, ctorVars>>

(* Nothing yet: wait, and count down.                                      *)
PollMiss ==
  /\ pc = "poll" /\ up[dir] = None
  /\ \/ /\ timeout = 0
        /\ expired' = [expired EXCEPT ![dir] = @ \union {tx}]
        /\ Go("del_answer")
        /\ UNCHANGED timeout
     \/ /\ timeout > 0
        /\ timeout' = timeout - 1
        /\ UNCHANGED <<pc, expired>>
  /\ UNCHANGED <<dn, up, tx, dir, sawDn, sawUp, got, rtlVars, ctorVars>>

(* Mutant: the answer stays in the database.                               *)
DelAnswerSkipped ==
  /\ pc = "del_answer"
  /\ Go("idle")
  /\ UNCHANGED <<dn, up, tx, dir, sawDn, sawUp, timeout, got, rtlVars, expired, ctorVars>>

(* The answer is deleted in any case, and the access returns.              *)
DelAnswer ==
  /\ pc = "del_answer"
  /\ up' = [up EXCEPT ![dir] = None]
  /\ Go("idle")
  /\ UNCHANGED <<dn, tx, dir, sawDn, sawUp, timeout, got, rtlVars, expired, ctorVars>>

------------------------------------------------------------------------------

(* The RTL side, external: get the request, delete it, carry it out and    *)
(* answer.                                                                 *)
RtlGet(d) ==
  /\ rtl[d] = "idle" /\ dn[d] # None
  /\ req' = [req EXCEPT ![d] = dn[d]]
  /\ rtl' = [rtl EXCEPT ![d] = "del"]
  /\ UNCHANGED <<dn, up, pc, tx, dir, sawDn, sawUp, timeout, got, done, expired, ctorVars>>

RtlDel(d) ==
  /\ rtl[d] = "del"
  /\ dn' = [dn EXCEPT ![d] = None]
  /\ rtl' = [rtl EXCEPT ![d] = "answer"]
  /\ UNCHANGED <<up, pc, tx, dir, sawDn, sawUp, timeout, got, req, done, expired, ctorVars>>

RtlAnswer(d) ==
  /\ rtl[d] = "answer"
  /\ done' = done \union {req[d]}
  /\ up' = [up EXCEPT ![d] = req[d]]
  /\ req' = [req EXCEPT ![d] = None]
  /\ rtl' = [rtl EXCEPT ![d] = "idle"]
  /\ UNCHANGED <<dn, pc, tx, dir, sawDn, sawUp, timeout, got, expired, ctorVars>>

Bridge ==
  \/ GetUp \/ DelOldUp \/ DelOldDn \/ PutDn \/ PollHit \/ PollRead \/ PollMiss \/ DelAnswer
Rtl(d) == RtlGet(d) \/ RtlDel(d) \/ RtlAnswer(d)

Next == CtorScan \/ CtorDel \/ GetDn \/ Bridge \/ \E d \in Dir : Rtl(d)

Spec == Init /\ [][Next]_vars

(* The SystemC kernel keeps running the transaction in progress; nothing   *)
(* is assumed of the RTL side.                                             *)
FairSpec == Spec /\ WF_vars(Bridge)

------------------------------------------------------------------------------

Box == Tx \union {None, Old}

(* Every variable has the type the code declares for it.                   *)
TypeOK ==
  /\ dn \in [Dir -> Box] /\ up \in [Dir -> Box]
  /\ pc \in {"ctor", "idle", "get_up", "del_up", "del_dn", "put_dn", "poll", "read",
            "del_answer"}
  /\ tx \in 0 .. MaxTx /\ dir \in Dir
  /\ sawDn \in Box /\ sawUp \in Box /\ got \in Box \union {Zeros}
  /\ timeout \in 0 .. Timeout
  /\ rtl \in [Dir -> {"idle", "del", "answer"}] /\ req \in [Dir -> Box]
  /\ done \subseteq Tx \union {Old} /\ expired \in [Dir -> SUBSET Tx]
  /\ left \subseteq Dir /\ nxtChIdx \in Slot /\ srchCnt \in Nat /\ listed \subseteq Keys

(* An access gets the answer to its own request, unless an earlier access  *)
(* of the same direction ran out of time, or keys of that direction were   *)
(* left by an earlier run: a late answer shifts the answers of its own     *)
(* direction only, to a request that was carried out, never to one older   *)
(* than the access that expired; and only then is an answer replaced while *)
(* it is read, which returns zeros that no request was answered with.      *)
AnswerExplained ==
  got # None /\ pc # "read" =>
    \/ got = tx /\ got \in done
    \/ got = Old /\ dir \in left
    \/ got \in done /\ got < tx /\ (dir \in left \/ \E e \in expired[dir] : e <= got)
    \/ got = Zeros /\ (dir \in left \/ \E e \in expired[dir] : e < tx)

(* While no access has run out of time and no key was left by an earlier   *)
(* run, every access that has returned was carried out by the RTL, got its *)
(* own answer, and left the mailbox empty for the next one.                *)
ReturnsDone ==
  pc = "idle" /\ tx > 0 /\ left = {} /\ (\A d \in Dir : expired[d] = {}) =>
    /\ got = tx /\ tx \in done
    /\ \A d \in Dir : dn[d] = None /\ up[d] = None

(* Every access returns, even if the RTL simulator stops answering.        *)
Returns == (pc = "poll") ~> (pc = "idle")
=============================================================================
