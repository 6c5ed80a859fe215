---------------------------- MODULE AwriseLedger ----------------------------
(***************************************************************************)
(* The ledger as its day files (ledger.py): lines that are appended, whole *)
(* or cut short by a crash, read back in the order of the files, and files *)
(* that are pruned (cli.py).  And the rules `awrise checks` (checks.py)    *)
(* and `status --history` judge that record by.                            *)
(***************************************************************************)
EXTENDS AwriseClock, SequencesExt

CONSTANTS
  JobCount,   \* the jobs are 1..JobCount, in the order of their names
  LastDay     \* bound: the last day there is

ASSUME LedgerAssumption == JobCount \in Nat \ {0} /\ LastDay \in Nat

Jobs == 1..JobCount
Days == 0..LastDay

\* The states a pass and its wakes leave.  A wake that ran, well or badly or to
\* its timeout, is one here: what the predict engine makes of it is open.
JudgedStates == {"ran", "error", "orphaned"}
UnstampedStates == {"skipped_overlap", "would_fire"}
States == JudgedStates \cup UnstampedStates \cup
  {"none", "skipped_disabled", "skipped_missed", "skipped_predicted"}

\* A row of the ledger; rows of the clock name no job, 0; a row of no
\* executed wake has wake 0.  n is its windows (missed), or how long the
\* wake took (finished).
Rows == [event : {"tick", "tick_end", "started", "finished", "missed"}, ts : Nat,
         job : 0..JobCount, wake : Nat, state : States, n : Nat, by : {"clock", "hand"}]

Row(event, ts) ==
  [event |-> event, ts |-> ts, job |-> 0, wake |-> 0, state |-> "none", n |-> 0, by |-> "clock"]

\* A line cut short, that no newline ends; and a line that no reader can read.
Torn == [event |-> "torn"]
Unreadable == [event |-> "unreadable"]
Lines == Rows \cup {Torn, Unreadable}

-----------------------------------------------------------------------------
(* Files                                                                   *)

NoFiles == [d \in Days |-> <<>>]

\* append: one line at the end of the day file of its stamp; behind a line cut
\* short the two are one line.
Add(files, row) ==
  [files EXCEPT ![DayOf(row.ts)] =
     IF @ # <<>> /\ Last(@) = Torn THEN [@ EXCEPT ![Len(@)] = Unreadable] ELSE Append(@, row)]

AddAll(files, rows) ==
  LET added[k \in 0..Len(rows)] == IF k = 0 THEN files ELSE Add(added[k - 1], rows[k])
  IN added[Len(rows)]

\* The append that a crash cuts short.
AddTorn(files, day) ==
  [files EXCEPT ![day] = IF @ # <<>> /\ Last(@) = Torn THEN @ ELSE Append(@, Torn)]

\* ledger.read of the files from day `first` on: rows in write order.
ReadFrom(files, first) ==
  LET upto[d \in Days] ==
        (IF d = 0 THEN <<>> ELSE upto[d - 1])
        \o (IF d < first THEN <<>> ELSE SelectSeq(files[d], LAMBDA line : line.event \notin {"torn", "unreadable"}))
  IN upto[LastDay]

Read(files) == ReadFrom(files, 0)

HasUnreadable(files, first) ==
  \E d \in Days : d >= first /\ \E i \in DOMAIN files[d] : files[d][i] \in {Torn, Unreadable}

\* ledger.open_wakes, as the places of the started rows.
OpenAt(rows) ==
  {i \in DOMAIN rows :
     /\ rows[i].event = "started"
     /\ ~\E k \in DOMAIN rows : rows[k].event = "finished" /\ rows[k].wake = rows[i].wake}

OpenWakes(rows) == {rows[i].wake : i \in OpenAt(rows)}

\* A slip: no file is spared.
PruneAll(files, floor) == [d \in Days |-> IF d < floor THEN <<>> ELSE files[d]]

\* prune_ledger: whole files older than the floor go, but those that hold the
\* started row of an open wake.
Prune(files, floor) ==
  LET rows == Read(files)
      holding == {DayOf(rows[i].ts) : i \in OpenAt(rows)}
  IN [d \in Days |-> IF d < floor /\ d \notin holding THEN <<>> ELSE files[d]]

\* hostclock.last_tick, of some invoker's: its stamp, or Never.
LastTick(rows, by) ==
  LET ticks == SelectSeq(rows, LAMBDA r : r.event = "tick" /\ r.by \in by)
  IN IF ticks = <<>> THEN Never ELSE Last(ticks).ts

-----------------------------------------------------------------------------
(* The judges                                                              *)

Stamps(rows) == {rows[i].ts : i \in DOMAIN rows}

\* A slip, once in the code: an unreadable line has the stamp of its file.
SpanOfFiles(rows, files, first) ==
  LET stamps == Stamps(rows) \cup
        {d * Day : d \in {e \in Days : e >= first /\ \E i \in DOMAIN files[e] : files[e][i] \in {Torn, Unreadable}}}
  IN IF stamps = {} THEN -1 ELSE Max(stamps) - Min(stamps)

\* span_s: from the oldest to the newest row that can be read; -1 is none.
Span(rows, files, first) ==
  IF Len(rows) < 2 THEN -1 ELSE Max(Stamps(rows)) - Min(Stamps(rows))

\* WINDOW_FACTOR: a job is judged on a record of two of its windows.
Judgeable(r, span) == r.enabled /\ span >= 2 * Period(r)

WL001(rows, live) == IF OpenWakes(rows) \subseteq live THEN "ok" ELSE "violation"

WL002(files, first) == IF HasUnreadable(files, first) THEN "violation" ELSE "ok"

\* OVERDUE_FACTOR: due for more than two windows, and no wake in flight.
Overdue(r, now) == now - NextDue(r, now) > 2 * Period(r)

WL003(jobs, held, span, now) ==
  LET judged == {j \in Jobs : Judgeable(jobs[j], span)}
  IN IF \E j \in judged : ~held[j] /\ Overdue(jobs[j], now) THEN "violation"
     ELSE IF judged = {} THEN "unjudged" ELSE "ok"

\* An attached job that took longer than a tick of the clock holds up the rest.
WL005(rows, jobs) ==
  LET finished(j) == {i \in DOMAIN rows : rows[i].job = j /\ rows[i].event = "finished"}
      measured == {j \in Jobs : finished(j) # {}}
  IN IF \E j \in measured : jobs[j].enabled /\ \E i \in finished(j) : rows[i].n > 1 THEN "violation"
     ELSE IF measured = {} /\ \E j \in Jobs : jobs[j].enabled THEN "unjudged" ELSE "ok"

\* checks.verdict: a measured no outranks a could-not-judge, and silence is
\* never a pass.
Verdict(findings) ==
  IF "violation" \in findings THEN "violation"
  ELSE IF "unjudged" \in findings \/ findings = {} THEN "unjudged" ELSE "ok"

\* checks.run over the files from day `first` on.
Checks(files, first, jobs, live, held, now) ==
  LET rows == ReadFrom(files, first)
      span == Span(rows, files, first)
  IN Verdict({WL001(rows, live), WL002(files, first),
              WL003(jobs, held, span, now), WL005(rows, jobs)})

\* DRIFT_FACTOR: a gap of more than three windows between the starts of a job,
\* or since the last of them.
Drifts(rows, j, period, now) ==
  LET starts == {rows[i].ts : i \in {k \in DOMAIN rows : rows[k].event = "started" /\ rows[k].job = j}}
  IN \/ starts = {}
     \/ \E a \in starts : /\ ~\E b \in starts : b > a /\ b - a <= 3 * period
                          /\ a # Max(starts) \/ now - a > 3 * period

\* _judge_history (`status --history`), over the files from day `first` on.
Judge(files, first, jobs, now) ==
  LET rows == ReadFrom(files, first)
      judged == {j \in Jobs : Judgeable(jobs[j], Span(rows, files, first))}
  IN IF judged = {} THEN "unjudged"
     ELSE IF \E j \in judged : Drifts(rows, j, Period(jobs[j]), now) THEN "violation"
     ELSE "ok"

=============================================================================
