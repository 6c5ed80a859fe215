----------------------------- MODULE AwriseSpec -----------------------------
(***************************************************************************)
(* What a job record may hold: as `add` and `set` judge it before they     *)
(* save (cli.py), and as every load judges it again (store.py).  The two   *)
(* judgements are written apart in the code; a record that passes the      *)
(* first and not the second makes every later verb exit 2.                 *)
(*                                                                         *)
(* A record keeps the fields that are judged together (wake, park_after,   *)
(* detach) and the set of the other fields whose value is out of range.    *)
(***************************************************************************)
EXTENDS Naturals, Sequences, FiniteSets

\* Fields judged on their own, that an operator can give a wrong value.
Fields == {"run", "every", "timeout_s", "at", "missed", "predict", "executor",
           "bearer_file", "permission_mode", "report.relay", "report.on", "report.card_after"}

\* At most one of them is wrong in a record: each is judged alone.
Specs == [bad : {{}} \cup {{f} : f \in Fields}, wake : {"none", "unit", "bad"},
          park_after : BOOLEAN, detach : BOOLEAN]

\* store.new_job: the defaults.
NewSpec == [bad |-> {}, wake |-> "none", park_after |-> FALSE, detach |-> FALSE]

\* store.validate_report.
ReportFields == {"report.relay", "report.on", "report.card_after"}

\* store.validate_record: an empty command is no reason, a park that stops a
\* detached child's unit, or has no unit, is one.
LoadAccepts(r) ==
  /\ r.bad \cap ({"every", "timeout_s", "at", "missed", "predict", "executor",
                  "bearer_file", "permission_mode"} \cup ReportFields) = {}
  /\ r.wake # "bad"
  /\ r.park_after => r.wake = "unit" /\ ~r.detach

\* A slip: a field set alone is judged alone.
VerbAcceptsAlone(r) == r.bad = {} /\ r.wake # "bad"

\* cli._validate_spec, after _coerce.
VerbAccepts(r) ==
  /\ r.bad = {} /\ r.wake # "bad"
  /\ r.park_after => r.wake = "unit" /\ ~r.detach

-----------------------------------------------------------------------------
(* Migration of a 0.1.0 store                                              *)

\* A name of the old store: what it reads as when cleaned, and whether it
\* was a legal name as it stood.
OldNames(words) == [word : words, legal : BOOLEAN]

\* sanitised_name: the cleaned name, with the first serial not in use.
FirstFree(word, used, n) == CHOOSE s \in 1..n : /\ <<word, s>> \notin used
                                                /\ \A t \in 1..(s - 1) : <<word, t>> \in used

NameOf(old, used, n) ==
  IF old.legal THEN <<old.word, 1>> ELSE <<old.word, FirstFree(old.word, used, n)>>

\* _migrate_v1: the names after each record, in the order of the file.
MigratedNames(olds) ==
  LET n == Len(olds) + 1
      used[i \in 0..Len(olds)] ==
        IF i = 0 THEN {} ELSE used[i - 1] \cup {NameOf(olds[i], used[i - 1], n)}
  IN used[Len(olds)]

=============================================================================
