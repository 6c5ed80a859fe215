----------------------------- MODULE AwrisePass -----------------------------
(***************************************************************************)
(* The invocations of awrise that read and write one $AWRISE_HOME          *)
(* (cli.py): run-due passes, manual runs, the reconcile verb and the       *)
(* operator's add / set / enable / disable / remove, running concurrently, *)
(* dying at any instant and meeting a disk that refuses a write.           *)
(*                                                                         *)
(* jobs.json and the ledger are read and written one file operation at a   *)
(* time: between the load of the store, its re-load in reload_merge and    *)
(* the save, other invocations run.  The job locks and the pass lock are   *)
(* taken in one step here; AwriseLock has their system calls.              *)
(*                                                                         *)
(* Time is a counter.  A wake may take any time; `old` holds the wakes and *)
(* the passes whose age bound has passed.                                  *)
(***************************************************************************)
EXTENDS AwriseRecords

CONSTANTS
  RunDue,       \* invocations of `run-due`
  Run,          \* ... of `run --name`
  Reconciler,   \* ... of `reconcile`
  Operator,     \* ... of `add`, `set`, `enable`, `disable` or `remove`
  NoProc,       \* nobody holds the pass lock
  Settings      \* by name: who takes part, and the bounds

ASSUME PassAssumption ==
  /\ Procs = RunDue \cup Run \cup Reconciler \cup Operator
  /\ RunDue \cap (Run \cup Reconciler \cup Operator) = {}
  /\ Run \cap (Reconciler \cup Operator) = {} /\ Reconciler \cap Operator = {}
  /\ NoProc \notin Procs
  /\ Procs \cap Wakes = {}       \* `old` tells a pass from a wake
  /\ Settings \in [DOMAIN Settings ->
       [cast : SUBSET Procs,      \* the invocations there may be
        jobs : SUBSET Jobs,       \* the jobs in the store at first
        maxNow : Nat \ {0},       \* bound: the last clock reading
        steps : Nat,              \* bound: how often the host clock may step back
        overruns : BOOLEAN,       \* may a wake or pass outlast its age bound?
        faults : BOOLEAN,         \* may the disk refuse a read or a write?
        detach : BOOLEAN,         \* the jobs' `detach` field
        skips : BOOLEAN,          \* may a policy hold back a due job?
        cards : BOOLEAN]]         \* is there a card to raise?

VARIABLES
  setting,    \* the name of this behaviour's setting
  now,        \* the host clock
  stepped,    \* how often it stepped back
  disk,       \* jobs.json: [Jobs -> record or NoJob]
  ledger,     \* the rows, in write order
  markers,    \* wakes with a <wake>.unrecorded.json
  lockOf,     \* the wake each job's lock names
  kept,       \* wakes that marked their lock as a detached child's
  passLock,   \* the pass that holds pass.lock
  child,      \* the child each wake spawned
  receipt,    \* the receipt file of each job
  old,        \* wakes and passes past their age bound
  proc        \* what each invocation has in memory

Given == Settings[setting]

files == <<disk, ledger, markers>>
locks == <<lockOf, kept, passLock>>
world == <<now, stepped, child, receipt, old, setting>>
vars == <<files, locks, world, proc>>

Pcs == {"start", "load", "rows", "close", "enter", "loop", "judge", "gate",
        "lock", "recheck", "begin", "spawn", "wait", "unlock", "end",
        "reload", "save", "notify", "check", "removed", "done", "gone"}

\* A put is what card code writes over the merged record: its own report
\* block, and whether the answer disables the job.
Locals ==
  [pc : Pcs, ret : Pcs,              \* where it is, and where a save returns to
   mem : [Jobs -> Records \cup {NoJob}],
   rows : Nat, scan : Nat,           \* how much of the ledger it read, and judged
   touched : SUBSET Jobs,            \* what reload_merge overlays
   notices : SUBSET Jobs,            \* whom _notify is to be called for
   put : [job : Jobs, report : Reports, disable : BOOLEAN] \cup {NoJob},
   todo : SUBSET Jobs, at : Nat,     \* the jobs of the pass' loop, and its clock
   job : Jobs \cup {0},              \* the operator's, or the one being woken
   started : Nat,                    \* started_at of the wake
   cur : Wakes \cup {NoWake}]        \* the wake whose lock it took

Fresh(pc) ==
  [pc |-> pc, ret |-> pc, mem |-> [j \in Jobs |-> NoJob], rows |-> 0, scan |-> 0,
   touched |-> {}, notices |-> {}, put |-> NoJob, todo |-> {}, at |-> 0,
   job |-> 0, started |-> 0, cur |-> NoWake]

TypeOK ==
  /\ setting \in DOMAIN Settings
  /\ now \in 1..Given.maxNow /\ stepped \in 0..Given.steps
  /\ disk \in [Jobs -> Records \cup {NoJob}]
  /\ ledger \in Seq(Rows)
  /\ markers \in SUBSET Wakes
  /\ lockOf \in [Jobs -> Wakes \cup {NoWake}]
  /\ kept \in SUBSET Wakes
  /\ passLock \in RunDue \cup {NoProc}
  /\ child \in [Wakes -> {"none", "alive", "dead"}]
  /\ receipt \in [Jobs -> Receipts \cup {NoReceipt}]
  /\ old \in SUBSET (Wakes \cup RunDue)
  /\ proc \in [Procs -> Locals]

Init ==
  /\ setting \in DOMAIN Settings
  /\ now = 1 /\ stepped = 0
  /\ disk = [j \in Jobs |-> IF j \in Given.jobs THEN NewRecord(1) ELSE NoJob]
  /\ ledger = <<>>
  /\ markers = {}
  /\ lockOf = [j \in Jobs |-> NoWake]
  /\ kept = {}
  /\ passLock = NoProc
  /\ child = [w \in Wakes |-> "none"]
  /\ receipt = [j \in Jobs |-> NoReceipt]
  /\ old = {}
  /\ proc = [p \in Procs |-> Fresh(IF p \in Given.cast THEN "start" ELSE "done")]

Alive(p) == proc[p].pc \notin {"start", "done", "gone"}
At(p, label) == proc[p].pc = label

\* Process p moves on: its memory becomes m, until it exits.
Becomes(p, m) == proc' = [proc EXCEPT ![p] = IF m.pc = "done" THEN Fresh("done") ELSE m]
Goto(p, label) == Becomes(p, [proc[p] EXCEPT !.pc = label])

Write(row) == ledger' = Append(ledger, row)

\* Where a finished save goes: to the sinks, then to where it was called from.
AfterSave(m) == IF m.notices # {} /\ Given.cards THEN "notify" ELSE m.ret

\* A record is stamped in memory, to be merged, saved and told about.
Stamped(m, w, ts, state, executed, ret) ==
  [m EXCEPT !.mem[w.job] = Stamp(@, w, ts, state, executed),
            !.touched = {w.job}, !.notices = {w.job}, !.pc = "reload", !.ret = ret]

-----------------------------------------------------------------------------
(* Liveness of wakes, and the locks                                        *)

\* _wake_is_live: the pid of its row lives and its age is within bound.
WakeLives(w) == Alive(w.proc) /\ w \notin old

\* lock.judge, of the lock that names w.
LockStale(w) ==
  IF w \in kept THEN child[w] # "alive"
  ELSE w \in old \/ (~Alive(w.proc) /\ child[w] # "alive")

Held(j) == lockOf[j] # NoWake /\ ~LockStale(lockOf[j])

\* A slip: the bound of a pass is that of one wake, and has passed.
PassNeverHeld == FALSE

\* lock.judge, of the pass lock.
PassHeld == passLock # NoProc /\ Alive(passLock) /\ passLock \notin old

-----------------------------------------------------------------------------
(* The store                                                               *)

\* store.load at the start of a verb.
Load(p) ==
  /\ At(p, "load")
  /\ Becomes(p, [proc[p] EXCEPT !.mem = disk, !.pc = "rows"])
  /\ UNCHANGED <<files, locks, world>>

\* What card code writes over the merged store.
WithPut(jobs, put) ==
  IF put = NoJob \/ jobs[put.job] = NoJob THEN jobs
  ELSE [jobs EXCEPT ![put.job].report = put.report,
                    ![put.job].enabled = @ /\ ~put.disable]

\* reload_merge; card code saves nothing for a job that is gone.
Reload(p) ==
  /\ At(p, "reload")
  /\ LET me == proc[p]
         merged == Merge(disk, me.mem, me.touched)
         m == [me EXCEPT !.mem = WithPut(merged, me.put), !.touched = {}, !.put = NoJob]
         gone == me.put # NoJob /\ merged[me.put.job] = NoJob
     IN Becomes(p, [m EXCEPT !.pc = IF gone THEN AfterSave(m) ELSE "save"])
  /\ UNCHANGED <<files, locks, world>>

\* store.save: the file is replaced whole.
Save(p) ==
  /\ At(p, "save")
  /\ disk' = proc[p].mem
  /\ Goto(p, AfterSave(proc[p]))
  /\ UNCHANGED <<ledger, markers, locks, world>>

-----------------------------------------------------------------------------
(* Sinks                                                                   *)

\* _notify, once per notice; the report block is read before the merge.
\* Raising a card may fail, which spends it.
Notify(p) ==
  /\ At(p, "notify")
  /\ LET me == proc[p]
         j == Min(me.notices)
         m == [me EXCEPT !.notices = @ \ {j}]
     IN IF me.mem[j] # NoJob /\ NeedsNotice(me.mem[j])
          THEN \E card \in IF me.mem[j].fails = 0 THEN {"none"} ELSE {"open", "spent"} :
                 Becomes(p, [m EXCEPT
                   !.put = [job |-> j, report |-> [me.mem[j].report EXCEPT !.card = card],
                            disable |-> FALSE],
                   !.touched = {j}, !.pc = "reload"])
          ELSE Becomes(p, [m EXCEPT !.pc = AfterSave(m)])
  /\ UNCHANGED <<files, locks, world>>

\* apply_card_answer, for an open card: not answered yet; answered `keep`
\* (or unreadable); answered `disable`.
CardAnswer(p) ==
  /\ At(p, "loop")
  /\ LET me == proc[p]
         j == Min(me.todo)
     IN /\ me.todo # {} /\ me.mem[j] # NoJob /\ me.mem[j].report.card = "open"
        /\ \/ Goto(p, "judge")
           \/ \E disable \in BOOLEAN :
                Becomes(p, [me EXCEPT
                  !.put = [job |-> j, report |-> [me.mem[j].report EXCEPT !.card = "spent"],
                           disable |-> disable],
                  !.touched = {j}, !.pc = "reload", !.ret = "judge"])
  /\ UNCHANGED <<files, locks, world>>

-----------------------------------------------------------------------------
(* reconcile                                                               *)

\* _recent_rows: the rows this reconcile judges.
ReadRows(p) ==
  /\ At(p, "rows")
  /\ Becomes(p, [proc[p] EXCEPT !.rows = Len(ledger), !.scan = 1, !.pc = "close"])
  /\ UNCHANGED <<files, locks, world>>

SnapshotOf(m) == SubSeq(ledger, 1, m.rows)
ToJudge(m) == {i \in OpenAt(SnapshotOf(m)) : i >= m.scan}

\* A slip: the orphan's job is not stamped.
CloseUnstamped(p) ==
  /\ At(p, "close") /\ ToJudge(proc[p]) # {}
  /\ LET me == proc[p]
         i == Min(ToJudge(me))
         w == ledger[i].wake
     IN /\ Becomes(p, [me EXCEPT !.scan = i + 1])
        /\ IF w \notin markers /\ WakeLives(w)
             THEN UNCHANGED <<ledger, markers>>
             ELSE Write(FinishedRow(w, "orphaned", now)) /\ markers' = markers \ {w}
  /\ UNCHANGED <<disk, locks, world>>

\* A slip: only a wake with a marker is closed.
CloseMarked(p) ==
  /\ At(p, "close") /\ ToJudge(proc[p]) # {}
  /\ LET me == proc[p]
         i == Min(ToJudge(me))
         w == ledger[i].wake
     IN /\ Becomes(p, [me EXCEPT !.scan = i + 1])
        /\ IF w \notin markers THEN UNCHANGED <<ledger, markers>>
           ELSE Write(FinishedRow(w, "orphaned", now)) /\ markers' = markers \ {w}
  /\ UNCHANGED <<disk, locks, world>>

\* The next open wake of the snapshot: left alone while it lives and has no
\* marker, else closed as orphaned, and its job stamped from its started row.
CloseOrphan(p) ==
  /\ At(p, "close") /\ ToJudge(proc[p]) # {}
  /\ LET me == proc[p]
         i == Min(ToJudge(me))
         w == ledger[i].wake
         m == [me EXCEPT !.scan = i + 1]
     IN IF w \notin markers /\ WakeLives(w)
          THEN Becomes(p, m) /\ UNCHANGED <<ledger, markers>>
          ELSE /\ Write(FinishedRow(w, "orphaned", now))
               /\ markers' = markers \ {w}
               /\ Becomes(p, IF me.mem[w.job] = NoJob THEN m
                    ELSE [m EXCEPT
                      !.mem[w.job] = Stamp(@, w, ledger[i].ts, "orphaned", FALSE),
                      !.touched = @ \cup {w.job}, !.notices = @ \cup {w.job}])
  /\ UNCHANGED <<disk, locks, world>>

\* The end of reconcile: sweep the stale locks, recover lost stamps, judge
\* detached jobs by their receipts; merge and save if a job was touched.
Repair(p) ==
  /\ At(p, "close") /\ ToJudge(proc[p]) = {}
  /\ LET me == proc[p]
         recovered == RecoverStamps(me.mem, SnapshotOf(me))
         judged == [j \in Jobs |-> JudgeReceipt(recovered[j], receipt[j])]
         failed == {j \in Jobs : ReceiptJudges(recovered[j], receipt[j]) /\ ~receipt[j].ok}
         touched == me.touched \cup {j \in Jobs : judged[j] # me.mem[j]}
         ret == IF p \in RunDue THEN "enter" ELSE "done"
     IN /\ lockOf' = [j \in Jobs |-> IF Held(j) THEN lockOf[j] ELSE NoWake]
        /\ Becomes(p, [me EXCEPT
             !.mem = judged, !.touched = touched, !.notices = @ \cup failed, !.ret = ret,
             !.rows = 0, !.scan = 0, !.pc = IF touched = {} THEN ret ELSE "reload"])
  /\ UNCHANGED <<files, kept, passLock, world>>

\* `reconcile`, the verb.
StartReconcile(p) ==
  /\ p \in Reconciler /\ At(p, "start")
  /\ Goto(p, "load")
  /\ UNCHANGED <<files, locks, world>>

-----------------------------------------------------------------------------
(* run-due                                                                 *)

\* The pass lock is taken, or the pass is refused.
StartPass(p) ==
  /\ p \in RunDue /\ At(p, "start")
  /\ IF PassHeld THEN Goto(p, "done") /\ UNCHANGED passLock
     ELSE passLock' = p /\ Goto(p, "load")
  /\ UNCHANGED <<files, lockOf, kept, world>>

\* The loop over sorted(jobs) starts; the pass reads its clock once.
EnterLoop(p) ==
  /\ At(p, "enter")
  /\ Becomes(p, [proc[p] EXCEPT !.todo = {j \in Jobs : proc[p].mem[j] # NoJob},
                                !.at = now, !.pc = "loop"])
  /\ UNCHANGED <<files, locks, world>>

\* The job whose turn it is, once its card has been looked at.
Turn(p, j) ==
  /\ proc[p].todo # {} /\ j = Min(proc[p].todo)
  /\ \/ At(p, "judge")
     \/ At(p, "loop") /\ (proc[p].mem[j] # NoJob => proc[p].mem[j].report.card # "open")

\* The turn ends with nothing to do: no such job any more, or not due.
PassOver(p) ==
  /\ \E j \in Jobs :
       LET me == proc[p] IN
       /\ \/ /\ Turn(p, j) /\ me.mem[j] # NoJob
             /\ ~(Skewed(me.mem[j], me.at) \/ IsDue(me.mem[j], me.at))
          \/ /\ Turn(p, j) \/ (At(p, "gate") /\ j = Min(me.todo))
             /\ me.mem[j] = NoJob
       /\ Becomes(p, [me EXCEPT !.todo = @ \ {j}, !.pc = "loop"])
  /\ UNCHANGED <<files, locks, world>>

\* A slip: the skew row does not count as a measured start.
SkewUnmeasured(p) ==
  /\ \E j \in Jobs :
       LET me == proc[p]
           w == [proc |-> p, job |-> j, kind |-> "skew"]
       IN /\ Turn(p, j) /\ me.mem[j] # NoJob /\ Skewed(me.mem[j], me.at)
          /\ Write(FinishedRow(w, "error", now))
          /\ Becomes(p, Stamped(me, w, now, "error", FALSE, "gate"))
  /\ UNCHANGED <<disk, markers, locks, world>>

\* A stamp ahead of the pass' clock: an error row that stamps this pass' own
\* reading, and then the job is due.
SkewRow(p) ==
  /\ \E j \in Jobs :
       LET me == proc[p]
           w == [proc |-> p, job |-> j, kind |-> "skew"]
       IN /\ Turn(p, j) /\ me.mem[j] # NoJob /\ Skewed(me.mem[j], me.at)
          /\ Write(FinishedRow(w, "error", now))
          /\ Becomes(p, Stamped(me, w, now, "error", TRUE, "gate"))
  /\ UNCHANGED <<disk, markers, locks, world>>

\* The job is due, or its skew row has been written.
Due(p, j) ==
  LET me == proc[p] IN
  \/ At(p, "gate") /\ j = Min(me.todo) /\ me.mem[j] # NoJob
  \/ /\ Turn(p, j) /\ me.mem[j] # NoJob
     /\ ~Skewed(me.mem[j], me.at) /\ IsDue(me.mem[j], me.at)

\* skipped_disabled, skipped_missed or skipped_predicted: a stamped row.
SkipRow(p) ==
  /\ \E j \in Jobs :
       LET me == proc[p]
           w == [proc |-> p, job |-> j, kind |-> "wake"]
       IN /\ Due(p, j)
          /\ ~me.mem[j].enabled \/ Given.skips
          /\ Write(FinishedRow(w, "skipped", now))
          /\ Becomes(p, [Stamped(me, w, now, "skipped", FALSE, "loop") EXCEPT !.todo = @ \ {j}])
  /\ UNCHANGED <<disk, markers, locks, world>>

\* The loop is over: the pass lock is released, the tick closed.
EndPass(p) ==
  /\ \/ At(p, "loop") /\ proc[p].todo = {}
     \/ At(p, "end")
  /\ passLock' = IF passLock = p THEN NoProc ELSE passLock
  /\ Becomes(p, Fresh("done"))
  /\ UNCHANGED <<files, lockOf, kept, world>>

-----------------------------------------------------------------------------
(* _execute                                                                *)

\* `run --name`: the store is loaded, and the job there, enabled or forced.
StartRun(p) ==
  /\ p \in Run /\ At(p, "start")
  /\ \E j \in Jobs : \E force \in BOOLEAN :
       IF disk[j] # NoJob /\ (force \/ disk[j].enabled)
         THEN Becomes(p, [proc[p] EXCEPT !.mem = disk, !.todo = {j}, !.pc = "lock"])
         ELSE Goto(p, "done")
  /\ UNCHANGED <<files, locks, world>>

\* The job _execute is called for.
Executes(p, j) ==
  \/ At(p, "lock") /\ proc[p].todo = {j}
  \/ Due(p, j) /\ proc[p].mem[j].enabled

\* Where a wake ends: the next job of the pass, or the end of the run.
AfterWake(p) == IF p \in RunDue THEN "loop" ELSE "done"

\* lock.acquire takes the job's lock.  An overdue detached child is ended.
TakeLock(p) ==
  /\ \E j \in Jobs :
       LET w == [proc |-> p, job |-> j, kind |-> "wake"]
           overdue == lockOf[j] \in kept /\ lockOf[j] \in old
       IN /\ Executes(p, j)
          /\ ~Held(j) \/ overdue
          /\ child' = IF Held(j) THEN [child EXCEPT ![lockOf[j]] = "dead"] ELSE child
          /\ lockOf' = [lockOf EXCEPT ![j] = w]
          /\ Becomes(p, [proc[p] EXCEPT
               !.cur = w, !.started = now, !.todo = @ \ {j},
               !.pc = IF p \in RunDue THEN "recheck" ELSE "begin"])
  /\ UNCHANGED <<files, kept, passLock, now, stepped, receipt, old, setting>>

\* ... or reports it as held: skipped_overlap, which stamps nothing.
Overlap(p) ==
  /\ \E j \in Jobs :
       LET w == [proc |-> p, job |-> j, kind |-> "wake"] IN
         /\ Executes(p, j) /\ Held(j)
         /\ Write(FinishedRow(w, "overlap", now))
         /\ Becomes(p, [proc[p] EXCEPT !.todo = @ \ {j}, !.pc = AfterWake(p)])
  /\ UNCHANGED <<disk, markers, locks, world>>

\* A slip: the stamp is not compared.
RecheckPresence(p) ==
  /\ At(p, "recheck")
  /\ LET me == proc[p]
         w == me.cur
         j == w.job
     IN IF disk[j] = NoJob
          THEN /\ Write(FinishedRow(w, "cancelled", now))
               /\ Becomes(p, Stamped(me, w, me.started, "cancelled", FALSE, "unlock"))
          ELSE /\ Becomes(p, [me EXCEPT !.mem[j] = disk[j], !.pc = "begin"])
               /\ UNCHANGED ledger
  /\ UNCHANGED <<disk, markers, locks, world>>

\* The record is re-read under the lock: the job is gone (cancelled), was
\* woken since this pass loaded it (skipped_overlap), or goes on as it is.
Recheck(p) ==
  /\ At(p, "recheck")
  /\ LET me == proc[p]
         w == me.cur
         j == w.job
     IN IF disk[j] = NoJob
          THEN /\ Write(FinishedRow(w, "cancelled", now))
               /\ Becomes(p, Stamped(me, w, me.started, "cancelled", FALSE, "unlock"))
        ELSE IF disk[j].wake # me.mem[j].wake
          THEN Write(FinishedRow(w, "overlap", now)) /\ Goto(p, "unlock")
        ELSE /\ Becomes(p, [me EXCEPT !.mem[j] = disk[j], !.pc = "begin"])
             /\ UNCHANGED ledger
  /\ UNCHANGED <<disk, markers, locks, world>>

\* The started row.
Begin(p) ==
  /\ At(p, "begin")
  /\ Write(StartedRow(proc[p].cur, proc[p].started))
  /\ Goto(p, "spawn")
  /\ UNCHANGED <<disk, markers, locks, world>>

\* The executor starts: it spawns a child, or needs none.
Spawn(p) ==
  /\ At(p, "spawn")
  /\ child' \in {child, [child EXCEPT ![proc[p].cur] = "alive"]}
  /\ Goto(p, "wait")
  /\ UNCHANGED <<files, locks, now, stepped, receipt, old, setting>>

\* A slip: the executor waits for more than its child, and that never ends.
OutcomesOfChildless(w) ==
  IF child[w] = "none" THEN {"success", "failure", "cancelled"}
  ELSE IF Given.detach THEN {"detached"} ELSE {}

\* What the executor may return now; with `detach` it does not wait.
\* `cancelled` stands for `queued` too: neither counts in the streak.
Outcomes(w) ==
  IF Given.detach /\ child[w] # "none" THEN {"detached"}
  ELSE IF child[w] = "alive" THEN {} ELSE {"success", "failure", "cancelled"}

\* The executor returns: mark_detached, the finished row, then the stamp.
Finish(p) ==
  /\ At(p, "wait")
  /\ LET me == proc[p] IN \E state \in Outcomes(me.cur) :
       /\ kept' = IF state = "detached" THEN kept \cup {me.cur} ELSE kept
       /\ Write(FinishedRow(me.cur, state, now))
       /\ Becomes(p, Stamped(me, me.cur, me.started, state, TRUE, "unlock"))
  /\ UNCHANGED <<disk, markers, lockOf, passLock, world>>

\* The lock is released in a `finally`, unless its child keeps it.
Unlock(p) ==
  /\ At(p, "unlock")
  /\ LET me == proc[p] IN
       /\ lockOf' = [j \in Jobs |-> IF lockOf[j] = me.cur /\ me.cur \notin kept
                                      THEN NoWake ELSE lockOf[j]]
       /\ Becomes(p, IF p \in RunDue
                       THEN [me EXCEPT !.cur = NoWake, !.started = 0, !.pc = "loop"]
                       ELSE Fresh("done"))
  /\ UNCHANGED <<files, kept, passLock, world>>

\* A file operation fails.  StoreError, OSError and FatalError all end the
\* verb through its `finally` clauses.  When it is the finished row of an
\* executed wake that cannot be written, a marker is tried.
Fail(p) ==
  /\ Given.faults
  /\ At(p, "wait") => Outcomes(proc[p].cur) # {}
  /\ \/ proc[p].pc \in {"load", "rows", "close", "reload", "save", "recheck", "begin",
                        "wait", "check", "removed"}
     \/ \E j \in Jobs : Due(p, j) \/ Executes(p, j)
  /\ markers' \in {markers, IF At(p, "wait") THEN markers \cup {proc[p].cur} ELSE markers}
  /\ kept' = IF At(p, "wait") /\ "detached" \in Outcomes(proc[p].cur)
               THEN kept \cup {proc[p].cur} ELSE kept
  /\ Becomes(p, [Fresh(IF proc[p].cur # NoWake THEN "unlock"
                       ELSE IF p \in RunDue THEN "end" ELSE "done")
                 EXCEPT !.cur = proc[p].cur])
  /\ UNCHANGED <<disk, ledger, lockOf, passLock, world>>

-----------------------------------------------------------------------------
(* The operator                                                            *)

\* add: a record with this clock's created_at, unless the name is taken.
StartAdd(p) ==
  /\ p \in Operator /\ At(p, "start")
  /\ \E j \in Jobs :
       /\ disk[j] = NoJob
       /\ Becomes(p, [proc[p] EXCEPT !.mem = [disk EXCEPT ![j] = NewRecord(now)],
                                     !.pc = "save", !.ret = "done"])
  /\ UNCHANGED <<files, locks, world>>

\* set, enable, disable: one field of the record, or of its report block.
StartSet(p) ==
  /\ p \in Operator /\ At(p, "start")
  /\ \E j \in Jobs :
       /\ disk[j] # NoJob
       /\ \E changed \in {[disk[j] EXCEPT !.enabled = ~@],
                          [disk[j] EXCEPT !.report.edited = TRUE]} :
            Becomes(p, [proc[p] EXCEPT !.mem = [disk EXCEPT ![j] = changed],
                                       !.pc = "save", !.ret = "done"])
  /\ UNCHANGED <<files, locks, world>>

\* remove: the store is loaded.
StartRemove(p) ==
  /\ p \in Operator /\ At(p, "start")
  /\ \E j \in Jobs :
       /\ disk[j] # NoJob
       /\ Becomes(p, [proc[p] EXCEPT !.mem = disk, !.job = j, !.pc = "check"])
  /\ UNCHANGED <<files, locks, world>>

\* remove is refused while the job has a live open wake or a held lock.
CheckRemove(p) ==
  /\ At(p, "check")
  /\ LET j == proc[p].job
         live == \E i \in OpenAt(ledger) : ledger[i].job = j /\ WakeLives(ledger[i].wake)
     IN IF live \/ Held(j) THEN Becomes(p, Fresh("done"))
        ELSE Becomes(p, [proc[p] EXCEPT !.mem[j] = NoJob, !.pc = "save", !.ret = "removed"])
  /\ UNCHANGED <<files, locks, world>>

\* ... and leaves a row once the store is saved.
RemovedRowWritten(p) ==
  /\ At(p, "removed")
  /\ Write(RemovedRow(proc[p].job, now))
  /\ Becomes(p, Fresh("done"))
  /\ UNCHANGED <<disk, markers, locks, world>>

-----------------------------------------------------------------------------
(* The environment                                                         *)

\* A process is killed; its child runs on.
Die(p) ==
  /\ Alive(p)
  /\ Becomes(p, Fresh("gone"))
  /\ UNCHANGED <<files, locks, world>>

\* The child exits or is killed at its timeout; a detached one may leave a
\* receipt.
ChildExit(w) ==
  /\ child[w] = "alive"
  /\ child' = [child EXCEPT ![w] = "dead"]
  /\ \/ UNCHANGED receipt
     \/ /\ Given.detach
        /\ \E ok \in BOOLEAN : receipt' = [receipt EXCEPT ![w.job] = [ts |-> now, ok |-> ok]]
  /\ UNCHANGED <<files, locks, now, stepped, old, proc, setting>>

Tick ==
  /\ now < Given.maxNow
  /\ now' = now + 1
  /\ UNCHANGED <<files, locks, stepped, child, receipt, old, proc, setting>>

\* The host clock steps back.
StepBack ==
  /\ stepped < Given.steps /\ now > 1
  /\ now' = now - 1 /\ stepped' = stepped + 1
  /\ UNCHANGED <<files, locks, child, receipt, old, proc, setting>>

\* The age bound of a wake passes.  A wake that is waited for is ended at its
\* timeout, before the bound.  Of a dead process it matters only for the
\* lock its child keeps.
Age(w) ==
  /\ w \notin old
  /\ \/ w \in kept /\ child[w] = "alive"
     \/ Alive(w.proc) /\ (lockOf[w.job] = w \/ \E i \in DOMAIN ledger : ledger[i].wake = w)
  /\ proc[w.proc].cur = w => Given.overruns
  /\ old' = old \cup {w}
  /\ UNCHANGED <<files, locks, now, stepped, child, receipt, proc, setting>>

\* The bound of the pass lock, the sum of the timeouts, passes while the pass
\* is still there.
AgePass(p) ==
  /\ passLock = p /\ p \notin old
  /\ Alive(p) /\ Given.overruns
  /\ old' = old \cup {p}
  /\ UNCHANGED <<files, locks, now, stepped, child, receipt, proc, setting>>

\* One step of the code of invocation p.
Step(p) ==
  \/ Load(p) \/ Reload(p) \/ Save(p) \/ Notify(p) \/ CardAnswer(p)
  \/ ReadRows(p) \/ CloseOrphan(p) \/ Repair(p)
  \/ EnterLoop(p) \/ PassOver(p) \/ SkewRow(p) \/ SkipRow(p) \/ EndPass(p)
  \/ TakeLock(p) \/ Overlap(p) \/ Recheck(p) \/ Begin(p) \/ Spawn(p) \/ Finish(p)
  \/ Unlock(p) \/ Fail(p) \/ CheckRemove(p) \/ RemovedRowWritten(p)

\* An invocation begins: by the host clock, or by hand.
Start(p) ==
  StartPass(p) \/ StartRun(p) \/ StartReconcile(p)
  \/ StartAdd(p) \/ StartSet(p) \/ StartRemove(p)

Next ==
  \/ \E p \in Procs : Start(p) \/ Step(p) \/ Die(p)
  \/ \E p \in RunDue : AgePass(p)
  \/ \E w \in Wakes : ChildExit(w) \/ Age(w)
  \/ Tick \/ StepBack

Spec == Init /\ [][Next]_vars

\* The host schedules every invocation that has begun, and a child ends: on
\* its own or at its timeout.
FairSpec ==
  /\ Spec
  /\ \A p \in Procs : WF_vars(Step(p))
  /\ \A w \in Wakes : WF_vars(ChildExit(w))

-----------------------------------------------------------------------------
(* Properties                                                              *)

\* README: every wake ends in exactly one terminal row; none gets a second.
OneTerminalRow ==
  \A i, k \in DOMAIN ledger :
    /\ ledger[i].event = "finished" /\ ledger[k].event = "finished"
    /\ ledger[i].wake = ledger[k].wake
    => i = k

\* Row i is the last start of job j, which no clock-skew row took back.
LastStart(rows, j, i) ==
  /\ rows[i].event = "started" /\ rows[i].job = j
  /\ \A k \in DOMAIN rows : k > i /\ rows[k].job = j =>
       /\ rows[k].event \notin {"started", "removed"}
       /\ ~(rows[k].event = "finished" /\ rows[k].wake.kind = "skew")

\* run-due never starts a job again inside the window of its last start, by the
\* reading of the clock the pass judges by, whatever crashed, was not saved or
\* not recorded in between, unless a clock-skew row says why.  Passes among
\* themselves keep to it; an operator's save may take back a stamp after
\* reconcile recovered it and before a pass re-reads the store for the sake of
\* another job.
NoRefireInWindow ==
  [][\A p \in RunDue : Begin(p) =>
       \A i \in DOMAIN ledger :
         LastStart(ledger, proc[p].cur.job, i) => proc[p].at >= ledger[i].ts + Interval]_vars

\* What the ledger says of the wakes and of the jobs.
OpenWakes(rows) == {rows[i].wake : i \in OpenAt(rows)}
ToldWakes(rows) == {rows[i].wake : i \in {k \in DOMAIN rows : rows[k].event # "removed"}}
LastStarts(rows) ==
  [j \in Jobs |-> {rows[i].ts : i \in {k \in DOMAIN rows : LastStart(rows, j, k)}}]
Removals(rows) ==
  [j \in Jobs |->
    Cardinality({i \in DOMAIN rows : rows[i].event = "removed" /\ rows[i].job = j})]

\* Passes, and an operator beside them, keep to the contract: one wake at a
\* time, each begun and ended once, a job begun again only when its last start
\* is an interval behind the reading of the pass that begins it.
Contract ==
  INSTANCE AwrisePassContract WITH
    open <- OpenWakes(ledger), told <- ToldWakes(ledger),
    last <- LastStarts(ledger), gone <- Removals(ledger),
    seen <- [p \in Procs |-> proc[p].at]

KeepsTheContract == Contract!Spec

\* What is said of run-due (cli.py:1761-1763): a pass that loaded the store
\* before another fired the job does not fire it again inside the window.  It
\* holds of wakes that ran to their end while nobody saves an older store over
\* them: a wake by hand may fall between another's reload_merge and its save.
SavedWakeIsNotRefired ==
  [][\A p \in RunDue : Begin(p) =>
       \A i \in DOMAIN ledger :
         /\ ledger[i].event = "started" /\ ledger[i].job = proc[p].cur.job
         /\ At(ledger[i].wake.proc, "done")
         => proc[p].started >= ledger[i].ts + Interval]_vars

\* A pass does not go on with a job inside the window of the wake that
\* jobs.json names as its last when it is re-read under the lock, whoever ran
\* that wake and whenever: during the pass, before it or through its death.
StampedWakeIsNotRefired ==
  [][\A p \in RunDue : Recheck(p) /\ proc'[p].pc = "begin" =>
       \A i \in DOMAIN ledger :
         ledger[i].event = "started" /\ ledger[i].wake = disk[proc[p].cur.job].wake
         => proc[p].at >= ledger[i].ts + Interval]_vars

\* consecutive_failures counts wakes: each that ended badly, or detached and
\* judged by its receipt, at most once, whoever stamped it.
StreakCountsWakes ==
  \A j \in Jobs :
    disk[j] # NoJob =>
      disk[j].fails <= Cardinality({ledger[i].wake : i \in
        {k \in DOMAIN ledger : /\ ledger[k].event = "finished" /\ ledger[k].job = j
                               /\ ledger[k].state \in BadStates \cup {"detached"}}})

\* When reconcile is done, the store is behind none of the job's rows: the
\* ledger is the memory and jobs.json its cache.  (Two things may take a stamp
\* back: an operator's verb, which saves the whole store as it loaded it, and
\* a clock-skew row.)
StoreCaughtUp ==
  \A p \in RunDue :
    At(p, "enter") /\ Given.cast \cap Operator = {} /\ stepped = 0 =>
      \A j \in Jobs : \A i \in StampingAt(ledger, j) :
        disk[j] # NoJob /\ StartOf(ledger, i) >= disk[j].created
          => disk[j].started >= StartOf(ledger, i)

\* A clock-skew row is evidence of a clock that stepped back, and heals the
\* stamp: passes that ran to their end wrote no more of them than it stepped.
SkewIsToldOnce ==
  \A j \in Jobs :
    Cardinality({i \in DOMAIN ledger :
      /\ ledger[i].event = "finished" /\ ledger[i].job = j
      /\ ledger[i].wake.kind = "skew" /\ At(ledger[i].wake.proc, "done")}) <= stepped

\* clock.skew_s: a stamp ahead of the clock means that the clock stepped back.
SkewMeansStep ==
  (\E i \in DOMAIN ledger :
     ledger[i].event = "finished" /\ ledger[i].wake.kind = "skew") => stepped > 0

\* Every invocation ends: none waits for a lock, and a child ends.
InvocationsEnd == \A p \in Procs : Alive(p) ~> ~Alive(p)

\* A wake that is open and dead when a pass loads the store is closed by it,
\* unless the pass dies too.
DeadWakesAreClosed ==
  \A p \in RunDue : \A w \in Wakes :
    /\ At(p, "load")
    /\ \E i \in OpenAt(ledger) : ledger[i].wake = w
    /\ ~Alive(w.proc)
    ~> FinishedIn(ledger, w) \/ At(p, "gone")

=============================================================================
