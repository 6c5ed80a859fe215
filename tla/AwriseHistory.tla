--------------------------- MODULE AwriseHistory ---------------------------
(***************************************************************************)
(* Jobs over days: passes of the host clock that wake them, miss their     *)
(* windows when the host slept, hold them back by policy or prediction     *)
(* (cli.py), dry runs that say what the next pass would do, manual runs,   *)
(* the ledger's day files that grow, tear and are pruned, and the verdicts *)
(* that are read off them (checks.py, `history --judge`).                  *)
(*                                                                         *)
(* Invocations that work on the store at the same time are the subject of  *)
(* AwrisePass; here the verbs of the operator come between two passes, and *)
(* a row and the stamp saved after it are one step.  A wake takes time.    *)
(***************************************************************************)
EXTENDS AwriseLedger

CONSTANTS
  Scenarios,    \* the jobs there may be, each with its bounds, see Budget
  MaxNow,       \* bound: the last clock reading
  MinRows,      \* PREDICT_MIN_ROWS
  RecentDays,   \* days of ledger that reconcile, checks and judges read
  TickDays      \* days of ledger that the last tick is looked for in

\* How often time passes; an operator edits, runs a job or a dry run, prunes; a
\* process dies, or dies in the middle of a line; and the clock steps back.
Budget == [tick : Nat, edit : Nat, run : Nat, dry : Nat, prune : Nat, die : Nat, tear : Nat, step : Nat]

ASSUME HistoryAssumption ==
  /\ Scenarios \subseteq
       [jobs : [Jobs -> [every : Nat \ {0}, at : 0..Day, missed : {"catch_up", "skip"},
                         predict : {"off", "skip"}]],
        left : Budget]
  /\ MaxNow \in Nat \ {0} /\ LastDay = DayOf(MaxNow)
  /\ \A s \in Scenarios : s.left.tick < MaxNow
  /\ {MinRows, RecentDays, TickDays} \subseteq Nat

VARIABLES
  now,        \* the host clock
  files,      \* the ledger's day files
  job,        \* the job records
  wake,       \* the wake in flight of each job
  wakes,      \* how many wakes were started
  pass,       \* what the pass has in memory
  ticked,     \* did the host clock fire in this unit of time?
  engine,     \* what the predict engine says of each job's rows
  left,       \* what is left of each budget
  plan,       \* what the last dry run said, while nothing has changed since
  born        \* when the first line was written, in true time; and that time

vars == <<now, files, job, wake, wakes, pass, ticked, engine, left, plan, born>>

JobRecords == [every : Nat, at : 0..Day, missed : {"catch_up", "skip"}, predict : {"off", "skip"},
               enabled : BOOLEAN, created : Nat, started : Nat]

Idle == [pc |-> "idle", gap |-> Never, at |-> 0, job |-> 0, lost |-> 0]
NoGap == MaxNow + 1
NoWake == [id |-> 0, at |-> 0, by |-> "none"]
NoPlan == [j \in Jobs |-> "none"]

TypeOK ==
  /\ now \in 1..MaxNow
  /\ files \in [Days -> Seq(Lines)]
  /\ job \in [Jobs -> JobRecords]
  /\ wake \in [Jobs -> [id : Nat, at : 0..MaxNow, by : {"none", "clock", "hand"}]]
  /\ wakes \in Nat
  /\ pass \in [pc : {"idle", "turn", "gate", "fire", "wake", "end"}, gap : -MaxNow..NoGap,
               at : 0..MaxNow, job : 0..JobCount, lost : Nat]
  /\ ticked \in BOOLEAN
  /\ engine \in [Jobs -> {"good", "bad", "unjudged"}]
  /\ left \in Budget
  /\ plan \in [Jobs -> {"none", "would_fire", "hold"}]
  /\ born \in [first : Nat, true : Nat]

Init ==
  /\ now = 1
  /\ files = NoFiles
  /\ \E s \in Scenarios :
       /\ job = [j \in Jobs |-> s.jobs[j] @@ [enabled |-> TRUE, created |-> 1, started |-> Never]]
       /\ left = s.left
  /\ wake = [j \in Jobs |-> NoWake] /\ wakes = 0
  /\ pass = Idle /\ ticked = FALSE
  /\ engine = [j \in Jobs |-> "unjudged"]
  /\ plan = NoPlan
  /\ born = [first |-> 0, true |-> 1]

Spend(what) == left[what] > 0 /\ left' = [left EXCEPT ![what] = @ - 1]

Write(rows) ==
  /\ files' = AddAll(files, rows)
  /\ born' = IF born.first = 0 /\ rows # <<>> THEN [born EXCEPT !.first = born.true] ELSE born

Recent == DayOf(now) - RecentDays
InFlight(j) == wake[j] # NoWake
Live == {wake[j].id : j \in {k \in Jobs : InFlight(k)}}

RowOf(j, event, state, n) == [Row(event, now) EXCEPT !.job = j, !.state = state, !.n = n]
StartRow(j, id, by) == [RowOf(j, "started", "none", 0) EXCEPT !.wake = id, !.by = by]
FinishRow(j, w, state) == [RowOf(j, "finished", state, now - w.at) EXCEPT !.wake = w.id]

\* _stamp: an executed wake or the skew row sets the start, others move it
\* forward; some states leave no stamp.
Forward(r, ts) == [r EXCEPT !.started = IF @ = Never \/ ts > @ THEN ts ELSE @]

\* The engine hears of other rows of these jobs, and may say anything of them.
Rejudged(jobs) ==
  \E said \in [{j \in jobs : job[j].predict # "off"} -> {"good", "bad"}] :
    engine' = said @@ engine

-----------------------------------------------------------------------------
(* What the passes and the dry run decide by                               *)

\* _missed_windows_to_record: arrears, a measured clock that was silent for
\* more than MISSED_GAP_FACTOR windows, and no wake in flight.
LostWindows(j, r, at, gap) ==
  IF InFlight(j) \/ gap <= 2 * Period(r) THEN 0 ELSE MissedWindows(r, at)

\* _predict_judged_rows and predict_verdict: rows enough, then the engine.  The
\* decide door, which would be asked before both, is not configured.
JudgedRows(rows, j) ==
  SelectSeq(rows, LAMBDA r : r.event = "finished" /\ r.job = j /\ r.state \in JudgedStates)
Prediction(rows, j) == IF Len(JudgedRows(rows, j)) < MinRows THEN "unjudged" ELSE engine[j]

LastState(rows, j) ==
  LET own == SelectSeq(rows, LAMBDA r : r.event = "finished" /\ r.job = j)
  IN IF own = <<>> THEN "none" ELSE Last(own).state

\* _predict_should_skip: a bad verdict, and not twice running.
HoldsBack(rows, j) ==
  /\ job[j].predict = "skip" /\ Prediction(rows, j) = "bad"
  /\ LastState(rows, j) # "skipped_predicted"

\* _measured_gap_s: since the last tick of the last days.
MeasuredGap ==
  LET tick == LastTick(ReadFrom(files, DayOf(now) - TickDays), {"clock", "hand"})
  IN IF tick = Never THEN NoGap ELSE now - tick

\* A slip: what is missed is forgotten.
WouldDoUnmissed(j, gap) ==
  LET r == job[j] IN
  IF \/ ~Skewed(r, now) /\ ~IsDue(r, now)
     \/ ~r.enabled \/ InFlight(j) THEN "hold"
  ELSE IF ~Skewed(r, now) /\ HoldsBack(Read(files), j) THEN "hold" ELSE "would_fire"

\* _would_do.
WouldDo(j, gap) ==
  LET r == job[j] IN
  IF \/ ~Skewed(r, now) /\ ~IsDue(r, now)
     \/ ~r.enabled \/ InFlight(j) THEN "hold"
  ELSE IF Skewed(r, now) THEN "would_fire"
  ELSE IF \/ LostWindows(j, r, now, gap) > 0 /\ r.missed = "skip"
          \/ HoldsBack(Read(files), j) THEN "hold"
  ELSE "would_fire"

-----------------------------------------------------------------------------
(* A pass                                                                  *)

\* The open wakes that reconcile closes: nobody runs them.
DeadWakes(rows) == OpenWakes(rows) \ Live

\* _tick, then reconcile: every dead wake of the recent days is closed, and
\* its start stamped.
StartPass ==
  /\ pass.pc = "idle" /\ ~ticked
  /\ LET ticking == Add(files, Row("tick", now))
         rows == ReadFrom(ticking, Recent)
         dead == SelectSeq([i \in DOMAIN rows |-> i], LAMBDA i : rows[i].wake \in DeadWakes(rows)
                                                                  /\ rows[i].event = "started")
     IN /\ Write(<<Row("tick", now)>> \o [k \in DOMAIN dead |->
                   [RowOf(rows[dead[k]].job, "finished", "orphaned", 0) EXCEPT !.wake = rows[dead[k]].wake]])
        /\ job' = [j \in Jobs |->
             LET stamps == {rows[dead[k]].ts : k \in {m \in DOMAIN dead : rows[dead[m]].job = j}}
             IN IF stamps = {} THEN job[j] ELSE Forward(job[j], Max(stamps))]
        /\ Rejudged({rows[dead[k]].job : k \in DOMAIN dead})
        /\ plan' = IF dead = <<>> THEN plan ELSE NoPlan
  /\ pass' = [pc |-> "turn", gap |-> MeasuredGap, at |-> now, job |-> 1, lost |-> 0]
  /\ ticked' = TRUE
  /\ UNCHANGED <<now, wake, wakes, left>>

NextJob == IF pass.job < JobCount THEN [pass EXCEPT !.pc = "turn", !.job = @ + 1, !.lost = 0]
           ELSE [pass EXCEPT !.pc = "end", !.lost = 0]

\* A job's turn: a stamp ahead of the clock is reported and healed, and makes
\* the job due; one that is not due is passed over.
Turn ==
  /\ pass.pc = "turn"
  /\ LET j == pass.job IN
     IF Skewed(job[j], pass.at)
       THEN /\ Write(<<RowOf(j, "finished", "error", 0)>>)
            /\ job' = [job EXCEPT ![j].started = now]
            /\ pass' = [pass EXCEPT !.pc = "gate"]
            /\ Rejudged({j})
       ELSE /\ pass' = IF IsDue(job[j], pass.at) THEN [pass EXCEPT !.pc = "gate"] ELSE NextJob
            /\ UNCHANGED <<files, born, job, engine>>
  /\ UNCHANGED <<now, wake, wakes, ticked, left, plan>>

\* A disabled job is skipped; lost windows are recorded.
Gate ==
  /\ pass.pc = "gate"
  /\ LET j == pass.job
         lost == LostWindows(j, job[j], pass.at, pass.gap)
     IN IF ~job[j].enabled
          THEN /\ Write(<<RowOf(j, "finished", "skipped_disabled", 0)>>)
               /\ job' = [job EXCEPT ![j] = Forward(@, now)]
               /\ pass' = NextJob
          ELSE /\ Write(IF lost > 0 THEN <<RowOf(j, "missed", "none", lost)>> ELSE <<>>)
               /\ pass' = [pass EXCEPT !.pc = "fire", !.lost = lost]
               /\ UNCHANGED job
  /\ UNCHANGED <<now, wake, wakes, ticked, engine, left, plan>>

\* The policies that hold a due job back, as the state of the row they leave.
Policy(j) ==
  IF pass.lost > 0 /\ job[j].missed = "skip" THEN "skipped_missed"
  ELSE IF HoldsBack(Read(files), j) THEN "skipped_predicted"
  ELSE IF InFlight(j) THEN "skipped_overlap" ELSE "none"

\* A slip: a skip leaves no stamp.
SkipUnstamped ==
  /\ pass.pc = "fire" /\ Policy(pass.job) # "none"
  /\ Write(<<RowOf(pass.job, "finished", Policy(pass.job), 0)>>)
  /\ pass' = NextJob
  /\ UNCHANGED <<now, job, wake, wakes, ticked, engine, left, plan>>

Skip ==
  /\ pass.pc = "fire"
  /\ LET j == pass.job
         state == Policy(j)
     IN /\ state # "none"
        /\ Write(<<RowOf(j, "finished", state, 0)>>)
        /\ job' = IF state \in UnstampedStates THEN job ELSE [job EXCEPT ![j] = Forward(@, now)]
  /\ pass' = NextJob
  /\ UNCHANGED <<now, wake, wakes, ticked, engine, left, plan>>

\* The wake of job j begins, by a pass or by hand.
Begins(j, by) ==
  /\ wakes' = wakes + 1
  /\ wake' = [wake EXCEPT ![j] = [id |-> wakes + 1, at |-> now, by |-> by]]
  /\ Write(<<StartRow(j, wakes + 1, by)>>)

\* ... and ends: its row, and its stamp.
Ends(j) ==
  /\ Write(<<FinishRow(j, wake[j], "ran")>>)
  /\ job' = [job EXCEPT ![j].started = wake[j].at]
  /\ wake' = [wake EXCEPT ![j] = NoWake]
  /\ Rejudged({j})
  /\ plan' = NoPlan

Fire ==
  /\ pass.pc = "fire" /\ Policy(pass.job) = "none"
  /\ Begins(pass.job, "clock")
  /\ pass' = [pass EXCEPT !.pc = "wake"]
  /\ UNCHANGED <<now, job, ticked, engine, left, plan>>

Finish ==
  /\ pass.pc = "wake"
  /\ Ends(pass.job)
  /\ pass' = NextJob
  /\ UNCHANGED <<now, wakes, ticked, left>>

\* prune: all but today's file goes, or but the last two.
Pruned(ledger) ==
  /\ \E keep \in 0..1 : files' = Prune(ledger, DayOf(now) - keep)
  /\ Rejudged(Jobs)
  /\ UNCHANGED born

\* _tick_end, and the prune of `run-due --prune`.
EndPass ==
  /\ pass.pc = "end"
  /\ \/ Write(<<Row("tick_end", now)>>) /\ UNCHANGED left
                                         /\ UNCHANGED engine
     \/ Spend("prune") /\ Pruned(Add(files, Row("tick_end", now)))
  /\ pass' = Idle
  /\ UNCHANGED <<now, job, wake, wakes, ticked, plan>>

-----------------------------------------------------------------------------
(* The operator, between two passes                                        *)

\* run --name.
StartRun(j) ==
  /\ pass.pc = "idle" /\ ~InFlight(j) /\ job[j].enabled
  /\ Spend("run")
  /\ Begins(j, "hand")
  /\ plan' = NoPlan
  /\ UNCHANGED <<now, job, pass, ticked, engine>>

EndRun(j) ==
  /\ pass.pc = "idle" /\ wake[j].by = "hand"
  /\ Ends(j)
  /\ UNCHANGED <<now, wakes, pass, ticked, left>>

\* run-due --dry-run: a would_fire row for each job that would.
DryRun ==
  /\ pass.pc = "idle"
  /\ Spend("dry")
  /\ plan' = [j \in Jobs |-> WouldDo(j, MeasuredGap)]
  /\ Write(LET fires == SelectSeq([j \in Jobs |-> j], LAMBDA j : WouldDo(j, MeasuredGap) = "would_fire")
           IN [k \in DOMAIN fires |-> RowOf(fires[k], "finished", "would_fire", 0)])
  /\ UNCHANGED <<now, job, wake, wakes, pass, ticked, engine>>

\* enable, disable.
Edit(j) ==
  /\ pass.pc = "idle"
  /\ Spend("edit")
  /\ job' = [job EXCEPT ![j].enabled = ~@]
  /\ plan' = NoPlan
  /\ UNCHANGED <<now, files, wake, wakes, pass, ticked, engine, born>>

PruneVerb ==
  /\ pass.pc = "idle"
  /\ Spend("prune") /\ Pruned(files)
  /\ plan' = NoPlan
  /\ UNCHANGED <<now, job, wake, wakes, pass, ticked>>

-----------------------------------------------------------------------------
(* The environment                                                         *)

\* A process is killed: the pass, with its wake, or a manual run.
Killed ==
  \/ /\ pass.pc # "idle" /\ pass' = Idle
     /\ wake' = [j \in Jobs |-> IF wake[j].by = "clock" THEN NoWake ELSE wake[j]]
  \/ \E j \in Jobs : /\ wake[j].by = "hand" /\ wake' = [wake EXCEPT ![j] = NoWake]
                     /\ UNCHANGED pass

Die ==
  /\ Spend("die")
  /\ Killed
  /\ plan' = NoPlan
  /\ UNCHANGED <<now, files, job, wakes, ticked, engine, born>>

\* ... in the middle of a line.
Tear ==
  /\ Spend("tear")
  /\ Killed
  /\ files' = AddTorn(files, DayOf(now))
  /\ born' = IF born.first = 0 THEN [born EXCEPT !.first = born.true] ELSE born
  /\ plan' = NoPlan
  /\ UNCHANGED <<now, job, wakes, ticked, engine>>

\* Time passes while nobody works, or a wake does.
Tick ==
  /\ pass.pc \in {"idle", "wake"}
  /\ Spend("tick")
  /\ now' = now + 1 /\ ticked' = FALSE
  /\ born' = [born EXCEPT !.true = @ + 1]
  /\ plan' = NoPlan
  /\ UNCHANGED <<files, job, wake, wakes, pass, engine>>

\* The host clock steps back.
StepBack ==
  /\ pass.pc = "idle" /\ now > 2
  /\ Spend("step")
  /\ now' = now - 2
  /\ plan' = NoPlan
  /\ UNCHANGED <<files, job, wake, wakes, pass, ticked, engine, born>>

Next ==
  \/ StartPass \/ Turn \/ Gate \/ Skip \/ Fire \/ Finish \/ EndPass
  \/ \E j \in Jobs : StartRun(j) \/ EndRun(j) \/ Edit(j)
  \/ DryRun \/ PruneVerb \/ Die \/ Tear \/ Tick \/ StepBack

Spec == Init /\ [][Next]_vars

-----------------------------------------------------------------------------
(* Properties                                                              *)

NeverStepped == now = born.true
ClosedWakes(rows) == {rows[i].wake : i \in {k \in DOMAIN rows : rows[k].event = "finished"}}

\* A window that came and went is recorded as lost once: what a `missed` row
\* counts lies behind the last such row after which the job was woken or
\* skipped.
WindowsAreLostOnce ==
  LET rows == Read(files)
      settled(i) == \E m \in DOMAIN rows :
        /\ m > i /\ rows[m].job = rows[i].job /\ rows[m].event # "missed"
        /\ \A k \in (i + 1)..m : rows[k].event # "tick"
  IN NeverStepped => \A i, k \in DOMAIN rows :
       /\ i < k /\ rows[i].event = "missed" /\ rows[k].event = "missed"
       /\ rows[i].job = rows[k].job /\ settled(i)
       => rows[k].n * Period(job[rows[k].job]) <= rows[k].ts - rows[i].ts

\* A pass wakes a job once per window of a wake that was closed: an anchored
\* job only when an anchor came since, or since it was added; whatever died or
\* was skipped in between.
OneWakePerWindow ==
  LET rows == Read(files)
      starts(j) == {i \in DOMAIN rows : rows[i].event = "started" /\ rows[i].job = j}
      closed(j, k) == {i \in starts(j) :
        \E m \in i..k : rows[m].event = "finished" /\ rows[m].wake = rows[i].wake}
  IN NeverStepped => \A j \in Jobs : \A k \in starts(j) : rows[k].by = "clock" =>
       IF job[j].at # NoAnchor
         THEN \A t \in {job[j].created} \cup {rows[i].ts : i \in closed(j, k)} :
                \E a \in (t + 1)..rows[k].ts : a % Day = job[j].at
         ELSE \A i \in closed(j, k) : rows[k].ts >= rows[i].ts + job[j].every

\* What a dry run says, a pass at that instant does: a job that is said to
\* be held is not woken; one that is said to fire is, unless its own rows
\* hold it back, where the row of the dry run has become the last of them.
PlanIsKept ==
  [][\A j \in Jobs : pass.job = j =>
       /\ pass.pc = "fire" /\ pass'.pc = "wake" => plan[j] # "hold"
       /\ pass.pc \in {"turn", "gate", "fire"} /\ pass' = NextJob /\ job[j].predict = "off"
            => plan[j] # "would_fire"]_vars

\* Whatever is pruned or torn, a wake that is open stays on record until a row
\* closes it.
OpenWakesAreKept ==
  [][OpenWakes(Read(files)) \subseteq OpenWakes(Read(files')) \cup ClosedWakes(Read(files'))]_files

\* A record that began less than two windows ago supports no green verdict,
\* neither of the checks nor of the judge, whatever lines it lost.
YoungRecordIsNoPass ==
  /\ NeverStepped
  /\ \/ Checks(files, Recent, job, Live, [j \in Jobs |-> InFlight(j)], now) = "ok"
     \/ Judge(files, Recent, job, now) = "ok"
  => /\ born.first > 0
     /\ \E j \in Jobs : job[j].enabled /\ now - born.first >= 2 * Period(job[j])

\* cli.py: a job can never be skipped twice running on a prediction alone.
NeverHeldBackTwice ==
  LET rows == Read(files)
      held(i) == rows[i].event = "finished" /\ rows[i].state = "skipped_predicted"
  IN \A i, k \in DOMAIN rows :
       i < k /\ held(i) /\ held(k) /\ rows[i].job = rows[k].job =>
         \E m \in i..k : rows[m].event = "started" /\ rows[m].job = rows[i].job

=============================================================================
