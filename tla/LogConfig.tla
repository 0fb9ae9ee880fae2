----------------------------- MODULE LogConfig -----------------------------
(***************************************************************************)
(* The report configuration of log.cpp, as functions: what log_parse makes *)
(* of the entries of the SC_LOG string.                                    *)
(*                                                                         *)
(* An entry is what split() and trim() leave of the text between two       *)
(* semicolons: whether it has a colon, and the fields around the colons (a *)
(* trailing empty field is dropped).  "bus" stands for the name of the one *)
(* reporting module that is followed.                                      *)
(***************************************************************************)
EXTENDS Integers, Sequences

Severities == {"info", "warning", "error", "fatal"}
SevRank == [s \in Severities |->
  CASE s = "info" -> 0 [] s = "warning" -> 1 [] s = "error" -> 2 [] s = "fatal" -> 3]
Levels == Severities \union {"enable", "disable"}
Verbosities == {"sc_none", "sc_low", "sc_medium", "sc_high", "sc_full", "sc_debug"}

(* Which severities keep SystemC's default action; the others do nothing.  *)
AllDefault == [s \in Severities |-> TRUE]
Unset == [s \in {} |-> TRUE]

(* The state of sc_report_handler: actions for every message and for those *)
(* of "bus", the verbosity, whether there is a log file; and whether one   *)
(* of the branches marked "Should not come here" was taken.                *)
DefaultConfig ==
  [all |-> AllDefault, bus |-> Unset, verbosity |-> "sc_medium",
   file |-> FALSE, astray |-> FALSE]

(* Mutant: a level lets only the severities above it through.              *)
ScActionsAbove(level) ==
  [s \in Severities |->
     level = "enable" \/ (level # "disable" /\ SevRank[level] < SevRank[s])]

ScActions(level) ==
  [s \in Severities |->
     level = "enable" \/ (level # "disable" /\ SevRank[level] <= SevRank[s])]

(* set_sc_report(): t has bit 0 if there is a message, bit 1 if there is a *)
(* level.                                                                  *)
set_sc_report(c, msg, level, t) ==
  CASE msg = "outfile" ->
         IF t \in {1, 3} THEN [c EXCEPT !.file = TRUE] ELSE [c EXCEPT !.astray = TRUE]
    [] msg = "verbosity_level" ->
         IF level \in Verbosities THEN [c EXCEPT !.verbosity = level] ELSE c
    [] msg \notin {"outfile", "verbosity_level"} /\ level \notin Levels -> c
    [] OTHER ->
         CASE t = 2 -> [c EXCEPT !.all = ScActions(level)]
           [] t = 3 -> [c EXCEPT !.bus = ScActions(level)]
           [] OTHER -> [c EXCEPT !.astray = TRUE]

(* A field with nothing in it.                                             *)
Empty == ""

Type(msg, level) == (IF msg = Empty THEN 0 ELSE 1) + (IF level = Empty THEN 0 ELSE 2)

(* One turn of the loop of log_parse(): entries without a colon or with    *)
(* more than two fields are ignored.                                       *)
ParseEntry(c, e) ==
  LET info == IF Len(e.info) = 1 THEN Append(e.info, Empty) ELSE e.info
  IN  IF e.colon /\ Len(info) = 2
      THEN set_sc_report(c, info[1], info[2], Type(info[1], info[2]))
      ELSE c

(* sc_report_handler, external: actions set for a message type go before   *)
(* those of the severity, and the default action of an error throws.       *)
ErrorThrows(c) == IF c.bus = Unset THEN c.all["error"] ELSE c.bus["error"]

(* The entries a user may write, up to what the code tells apart.          *)
Fields == {Empty, "bus", "outfile", "verbosity_level"}
Values == Levels \union {Empty, "sc_high", "other"}
Single == {<<m>> : m \in Fields \ {"verbosity_level"}}
Pairs == {<<m, l>> : m \in Fields, l \in Values}
Entries ==
  [colon : {TRUE}, info : Single \union Pairs \union {<<"bus", "fatal", "other">>}]
  \union [colon : {FALSE}, info : {<<"bus">>}]
=============================================================================
