----------------------------- MODULE Gsgp2fpga -----------------------------
(***************************************************************************)
(* The bridge from the virtual platform's bus to the FPGA (Gsgp2fpga):     *)
(* b_transact splits an access into 32-bit peeks or pokes and at most one  *)
(* 8-bit one, and reports an error from the combined return codes.         *)
(*                                                                         *)
(* The accesses are external: each one succeeds or fails.  data_write and  *)
(* data_read have the same control and differ in the call and, for reads   *)
(* of words, in the address: 0xfffffffc clears the two low bits and, being *)
(* a mask of 32 bits, all above the lower half of the 64-bit address.      *)
(***************************************************************************)
EXTENDS Integers, FiniteSets

CONSTANTS
  MaxLen,      \* bound: bytes of an access
  MaxAddr,     \* bound: addresses
  Wide         \* addresses the mask of a read leaves apart, 2^32 in the code

ASSUME LenAssumption == MaxLen \in Nat /\ MaxAddr \in Nat
ASSUME WideAssumption == Wide \in Nat \ {0} /\ Wide % 4 = 0

VARIABLES
  throws,                \* whether SC_REPORT_ERROR throws (set by SC_LOG, see log.cpp)
  pc, cmd, addr, size,   \* the access in progress
  len, index,            \* what data_write and data_read count
  ret,                   \* the combined return code, TRUE for an error
  good, bad,             \* ghost: bytes of the FPGA reached, bytes that failed
  report                 \* the error reported, if any

vars == <<throws, pc, cmd, addr, size, len, index, ret, good, bad, report>>
access == <<throws, cmd, addr, size>>

Init ==
  /\ throws \in BOOLEAN
  /\ pc = "idle" /\ cmd = "WR" /\ addr = 0 /\ size = 0 /\ len = 0 /\ index = 0
  /\ ret = TRUE /\ good = {} /\ bad = {} /\ report = "none"

------------------------------------------------------------------------------

Misaligned(a, n) == n >= 4 /\ (n % 4 # 0 \/ a % 4 # 0)

(* An empty access returns at once.  A misaligned one is reported, which   *)
(* ends it if the report throws.                                           *)
Begin(c, a, n) ==
  LET wrong == Misaligned(a, n) IN
  /\ pc = "idle"
  /\ cmd' = c /\ addr' = a /\ size' = n /\ len' = n /\ index' = 0
  /\ ret' = TRUE /\ good' = {} /\ bad' = {}
  /\ report' = IF wrong THEN "alignment" ELSE "none"
  /\ pc' = IF n = 0 \/ (wrong /\ throws) THEN "idle" ELSE "words"
  /\ UNCHANGED throws

(* The bytes an access of n bytes at offset index reaches.                 *)
Reached(n) ==
  LET a == IF cmd = "RD" /\ n = 4 THEN (((addr + index) \div 4) * 4) % Wide
                                     ELSE addr + index
  IN a .. (a + n - 1)

(* Mutant: the codes are combined with or.                                 *)
CombineOr(r, fails) == r \/ fails

(* The return code is 0 for success and counts as TRUE otherwise.          *)
Combine(r, fails) == r /\ fails

Account(n, fails) ==
  /\ ret' = Combine(ret, fails)
  /\ good' = IF fails THEN good ELSE good \union Reached(n)
  /\ bad' = IF fails THEN bad \union Reached(n) ELSE bad

(* Mutant: the offset moves by the number of words.                        *)
WordShort(fails) ==
  /\ pc = "words" /\ len >= 4
  /\ Account(4, fails)
  /\ len' = len - 4 /\ index' = index + 1
  /\ UNCHANGED <<pc, access, report>>

(* Mutant: the loop goes on for a rest of less than a word.                *)
WordNoRest(fails) ==
  /\ pc = "words" /\ len >= 2
  /\ Account(4, fails)
  /\ len' = len - 4 /\ index' = index + 4
  /\ UNCHANGED <<pc, access, report>>

Word(fails) ==
  /\ pc = "words" /\ len >= 4
  /\ Account(4, fails)
  /\ len' = len - 4 /\ index' = index + 4
  /\ UNCHANGED <<pc, access, report>>

(* What is left of one byte is accessed, what is left of two or three is   *)
(* not.                                                                    *)
Byte(fails) ==
  /\ pc = "words" /\ len = 1
  /\ Account(1, fails)
  /\ pc' = "report"
  /\ UNCHANGED <<access, len, index, report>>

NoByte ==
  /\ pc = "words" /\ len \in {0, 2, 3}
  /\ pc' = "report"
  /\ UNCHANGED <<access, len, index, ret, good, bad, report>>

(* "ERROR on data write!", "ERROR on data read!"                           *)
Report ==
  /\ pc = "report"
  /\ report' = IF ret THEN "access" ELSE report
  /\ pc' = "idle"
  /\ UNCHANGED <<access, len, index, ret, good, bad>>

Next ==
  \/ \E c \in {"WR", "RD"}, a \in 0 .. MaxAddr, n \in 0 .. MaxLen : Begin(c, a, n)
  \/ \E fails \in BOOLEAN : Word(fails) \/ Byte(fails)
  \/ NoByte \/ Report

Spec == Init /\ [][Next]_vars

------------------------------------------------------------------------------

(* A read of words that the mask sends to other addresses, in part or all. *)
Truncated == cmd = "RD" /\ size >= 4 /\ addr + size > Wide

Done == pc = "idle" /\ size > 0
Whole == addr .. (addr + size - 1)

(* Every variable has the type the code declares for it; the remaining     *)
(* length, a signed int, never becomes negative.                           *)
TypeOK ==
  /\ throws \in BOOLEAN /\ ret \in BOOLEAN
  /\ pc \in {"idle", "words", "report"} /\ cmd \in {"WR", "RD"}
  /\ addr \in 0 .. MaxAddr /\ size \in 0 .. MaxLen
  /\ len \in 0 .. MaxLen /\ index \in 0 .. MaxLen
  /\ good \subseteq Nat /\ bad \subseteq Nat
  /\ report \in {"none", "alignment", "access"}

(* An access that has run is reported as failed exactly when none of it    *)
(* succeeded (so a burst that fails in part is not reported), and a write  *)
(* tries no byte outside the access: offset, remaining length and combined *)
(* return code of the loop stay in step.                                   *)
ReportedIfNoneReached ==
  /\ Done /\ ~(Misaligned(addr, size) /\ throws) => (report = "access" <=> good = {})
  /\ cmd = "WR" => good \union bad \subseteq Whole

(* An aligned access, or one of a single byte, tries each of its bytes and *)
(* no other, unless it is a read of words that goes beyond 4 GiB: those    *)
(* read from the address without its upper half.                           *)
TriesAll ==
  Done /\ ~Misaligned(addr, size) /\ ~Truncated /\ size \notin {2, 3} =>
    good \union bad = Whole
=============================================================================
