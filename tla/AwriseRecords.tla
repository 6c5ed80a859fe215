---------------------------- MODULE AwriseRecords ----------------------------
(***************************************************************************)
(* The data a pass works on, and the pure functions it applies to them:    *)
(* job records as jobs.json holds them (store.py), ledger rows (ledger.py) *)
(* and the stamping, pairing and recovery rules of cli.py.                 *)
(*                                                                         *)
(* A record keeps the fields some rule reads.  Rows of the events tick,    *)
(* tick_end, reconciled, missed, report_error and card_* are read by none  *)
(* of these rules and are left out.  A wake id is the wake itself: the     *)
(* invocation that issued it, the job, and which of its rows it is (the    *)
(* clock-skew row of a job, or its wake or policy skip).                   *)
(***************************************************************************)
EXTENDS Naturals, Sequences, FiniteSetsExt

CONSTANTS
  Procs,        \* invocations of awrise
  JobCount,     \* the jobs are 1..JobCount, in the order of their names
  Interval,     \* interval_s of every job, in clock units
  Tolerance,    \* SKEW_TOLERANCE_S
  CardAfter,    \* report.card_after; 0 is no card
  NoWake,       \* no wake id
  NoJob,        \* no record under this name
  NoReceipt     \* the detached child has left no receipt file

Jobs == 1..JobCount
Never == 0
Wakes == [proc : Procs, job : Jobs, kind : {"skew", "wake"}]

ASSUME RecordsAssumption ==
  /\ JobCount \in Nat \ {0}
  /\ Interval \in Nat \ {0}
  /\ Tolerance \in Nat
  /\ CardAfter \in Nat
  /\ NoWake \notin Wakes

\* ledger.STATES, with timeout read as failure and the policy skips as one.
BadStates == {"failure", "error", "orphaned"}
UnstampedStates == {"overlap"}
States == BadStates \cup UnstampedStates \cup {"success", "detached", "skipped", "cancelled"}

\* The report block: the operator's part, and the open card of the streak.
Reports == [edited : BOOLEAN, card : {"none", "open", "spent"}]
Records == [enabled : BOOLEAN, report : Reports, created : Nat, started : Nat,
            wake : Wakes \cup {NoWake}, state : States \cup {"none"}, fails : Nat]

ASSUME NoJobAssumption == NoJob \notin Records

NewRecord(now) ==
  [enabled |-> TRUE, report |-> [edited |-> FALSE, card |-> "none"],
   created |-> now, started |-> Never, wake |-> NoWake, state |-> "none", fails |-> 0]

Rows == [event : {"started", "finished"}, wake : Wakes, job : Jobs, state : States \cup {"none"}, ts : Nat]
        \cup [event : {"removed"}, wake : {NoWake}, job : Jobs, state : {"none"}, ts : Nat]

StartedRow(w, ts) ==
  [event |-> "started", wake |-> w, job |-> w.job, state |-> "none", ts |-> ts]
FinishedRow(w, state, ts) ==
  [event |-> "finished", wake |-> w, job |-> w.job, state |-> state, ts |-> ts]
RemovedRow(j, ts) ==
  [event |-> "removed", wake |-> NoWake, job |-> j, state |-> "none", ts |-> ts]

Receipts == [ts : Nat, ok : BOOLEAN]

-----------------------------------------------------------------------------
(* The clock                                                               *)

\* clock.is_due, for a job without an anchor.
IsDue(r, now) == r.started = Never \/ now >= r.started + Interval

\* clock.skew_s: the last start lies ahead of now.
Skewed(r, now) == r.started # Never /\ r.started > now + Tolerance

-----------------------------------------------------------------------------
(* Stamps                                                                  *)

\* A slip: the streak is counted whatever the outcome.
StampEveryOutcome(r, w, ts, state, executed) ==
  [r EXCEPT
    !.started = IF ts # Never /\ (executed \/ r.started = Never \/ ts > r.started)
                  THEN ts ELSE @,
    !.wake = w, !.state = state,
    !.fails = IF state = "success" THEN 0 ELSE @ + 1]

\* _stamp: an executed wake (or the skew row) stamps its start as it is, any
\* other row only moves it forward; the streak counts bad states.
Stamp(r, w, ts, state, executed) ==
  [r EXCEPT
    !.started = IF ts # Never /\ (executed \/ r.started = Never \/ ts > r.started)
                  THEN ts ELSE @,
    !.wake = w, !.state = state,
    !.fails = IF state \in BadStates THEN @ + 1 ELSE IF state = "success" THEN 0 ELSE @]

\* STATE_KEYS but created_at.
Overlay(fresh, mine) ==
  [fresh EXCEPT !.started = mine.started, !.wake = mine.wake,
                !.state = mine.state, !.fails = mine.fails]

\* store.reload_merge: what is on disk, with the touched jobs' state on top.
Merge(fresh, mine, touched) ==
  [j \in Jobs |-> IF j \in touched /\ fresh[j] # NoJob /\ mine[j] # NoJob
                    THEN Overlay(fresh[j], mine[j]) ELSE fresh[j]]

-----------------------------------------------------------------------------
(* Reading the ledger                                                      *)

FinishedIn(rows, w) ==
  \E k \in DOMAIN rows : rows[k].event = "finished" /\ rows[k].wake = w

\* ledger.open_wakes, as the places of the started rows.
OpenAt(rows) ==
  {i \in DOMAIN rows : rows[i].event = "started" /\ ~FinishedIn(rows, rows[i].wake)}

\* No `removed` row of the job after place i.
StillTheJob(rows, i) ==
  \A k \in DOMAIN rows : k > i => ~(rows[k].event = "removed" /\ rows[k].job = rows[i].job)

\* The finished rows _recover_stamps considers for job j.
StampingAt(rows, j) ==
  {i \in DOMAIN rows : /\ rows[i].event = "finished" /\ rows[i].job = j
                       /\ rows[i].state \notin UnstampedStates
                       /\ StillTheJob(rows, i)}

\* The start of the wake of row i: its started row's stamp, or the row's own.
StartOf(rows, i) ==
  IF \E k \in DOMAIN rows : rows[k].event = "started" /\ rows[k].wake = rows[i].wake
    THEN rows[CHOOSE k \in DOMAIN rows :
                rows[k].event = "started" /\ rows[k].wake = rows[i].wake].ts
    ELSE rows[i].ts

\* The store is behind row i.
Behind(r, rows, i) ==
  /\ r.wake # rows[i].wake
  /\ StartOf(rows, i) >= r.created
  /\ StartOf(rows, i) > r.started

\* A slip: nothing is recovered.
RecoverNothing(mem, rows) == [j \in Jobs |-> mem[j]]

\* _recover_stamps: the newest stamping row stamps a record that is behind.
RecoverStamps(mem, rows) ==
  [j \in Jobs |->
     IF mem[j] = NoJob \/ StampingAt(rows, j) = {} THEN mem[j]
     ELSE LET i == Max(StampingAt(rows, j)) IN
       IF Behind(mem[j], rows, i)
         THEN Stamp(mem[j], rows[i].wake, StartOf(rows, i), rows[i].state, FALSE)
         ELSE mem[j]]

\* _receipt_verdict: the receipt is not older than the wake it judges.
ReceiptJudges(r, receipt) ==
  /\ r # NoJob /\ receipt # NoReceipt
  /\ r.enabled /\ r.state = "detached"
  /\ receipt.ts >= r.started

\* A slip: the state is left as it was, so a receipt is judged again.
JudgeReceiptAgain(r, receipt) ==
  IF ~ReceiptJudges(r, receipt) THEN r
  ELSE IF receipt.ok THEN [r EXCEPT !.fails = 0]
  ELSE [r EXCEPT !.fails = @ + 1]

\* _judge_detached_by_receipt, for one job.
JudgeReceipt(r, receipt) ==
  IF ~ReceiptJudges(r, receipt) THEN r
  ELSE IF receipt.ok THEN [r EXCEPT !.state = "success", !.fails = 0]
  ELSE [r EXCEPT !.state = "failure", !.fails = @ + 1]

-----------------------------------------------------------------------------
(* The card of a failure streak                                            *)

\* _notify acts: the streak ended with a card on record, or it is long
\* enough and has none.
NeedsNotice(r) ==
  IF r.fails = 0 THEN r.report.card # "none"
  ELSE CardAfter > 0 /\ r.fails >= CardAfter /\ r.report.card = "none"

=============================================================================
