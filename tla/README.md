# A TLA+ model of awrise

awrise wakes jobs on a schedule without a daemon. The host scheduler calls `awrise run-due`, one
pass that exits; everything that lasts is a file under `$AWRISE_HOME`. Every hard property of the
program is therefore about **several short-lived processes that share files**, with no transaction
around them, any of which may be killed between two system calls - and about what those processes
ask of others that may never answer: a child, a daemon, a unit's agent, a memory store, the host's
scheduler.

This directory holds TLA+ modules translated from the source, TLC configurations that check them
on small instances, and TLAPS proofs about the job lock, the passes, the job store, the wakes, the
memory and the host clock for every value of the constants.

    tlc -config MCAwriseLock_pass.cfg MCAwriseLock     # one run; PROJECT.json lists all
    tlapm AwriseStoreProofs.tla                        # the proofs of one module

## Inventory

| Part | State | Operations | Talks to | What makes it correct | Modelled in |
|---|---|---|---|---|---|
| Locks (`lock.py`) | `locks/<job>/wake.json`, `pass.lock`, `.breaking-*` | acquire, judge, break, note_child, mark_detached, release, sweep | passes; pids | one wake of a job at a time; a lock does not outlive its holder; a breaker deletes nothing live; a detached child keeps its lock | `AwriseLock` |
| Wake lifecycle (`cli.py`) | memory of one invocation | run-due, run, reconcile, add, set, enable, disable, remove | store, ledger, locks, children | no second fire in a window; a crash is repaired by the next pass; a wake counts once in the failure streak | `AwrisePass`, `AwrisePassContract` |
| Wake ledger (`ledger.py`) | `ledger/<day>.jsonl`, append only | append, read, open_wakes, prune | every verb | each started wake gets one terminal row; a torn line costs no open wake | `AwriseLedger`, `AwriseRecords` |
| Days of a job (`cli.py`) | the ledger, the job records | ticks, missed windows, policies, the predict gate, the dry run, prune | clock, ledger, awpredict | a window is served once and lost once; the dry run tells what the pass does | `AwriseHistory` |
| Clock (`clock.py`) | none | next_due, missed_windows, skew_s | passes | the arithmetic at anchors and window ends | `AwriseClock` |
| Checks and judge (`checks.py`, `cli.py`) | none | WL001, 002, 003, 005, `_judge_history` | ledger, store | no green verdict without evidence | `AwriseLedger` |
| Job store (`store.py`) | `jobs.json`, `.bak`, `.v1.bak`, corrupt copies, `corrupt/` | load, migrate, save, restore, reset | every verb | no acknowledged job is lost; a crash leaves a store that loads or a way back to one | `AwriseStore`, `AwriseStoreContract` |
| Record validation (`store.py`, `cli.py`) | none | validate_record, `_validate_spec`, `_migrate_v1` | store | what a verb saves, a load accepts | `AwriseSpec` |
| Cards and relay (`cli.py`) | `report` block of a job | `_notify`, `apply_card_answer` | awask, relay | an answer is applied once | `AwrisePass` (the writes) |
| Executors (`executors.py`) | child processes, sessions, run-queue items | run, kill_tree, awrun drain, session | daemon, awrun | a wake ends at its deadline, unless it drains; a drain takes its own item; what may be left behind is told in the row | `AwriseWake` |
| Unit plane (`executors.py`) | request and result files | wake_unit, park_unit, ask_unit_agent | unit agents | a withdrawn request is not served; a required unit comes first | `AwriseWake` |
| Memory and decide channels (`cli.py`) | one worker thread, a pending count, an environment variable | recall, remember, teach, drain | awm, the decide door | a hung store costs a pass one timeout; a job recalls its own past | `AwriseMemory` |
| Host clock (`hostclock.py`, `cli.py`) | crontab, unit files or tasks, payloads, install record | install, install-clock, uninstall, check | the host's scheduler | what is claimed was read back; nothing foreign is changed where the code can tell; the check tells a clock that ticks | `AwriseHostClock` |
| Doctor, command guard, prewarm, import-routine, self-test, scripts | none | reports, text checks, plans | | | not modelled |

PROJECT.json lists each hazard at its line with the properties about it.

## Modules

| Module | Models |
|---|---|
| `AwriseLock` | one lock directory, one action per system call |
| `AwriseRecords` | job records, ledger rows and the pure rules over them: stamping, merging, pairing, recovery, receipts |
| `AwrisePassContract` | the abstract passes: wakes that are begun and ended once, one at a time, an interval apart |
| `AwrisePass` | concurrent invocations over store, ledger, locks and children; refines the contract; extends `AwriseRecords` |
| `AwriseSpec` | what a job record may hold, as the verbs and as load judge it; the names a migration gives |
| `AwriseStoreContract` | the abstract store: a register with one spare |
| `AwriseStore` | the files of the store, one action per file operation; refines the contract; extends `AwriseSpec` |
| `AwriseClock` | dueness, anchors, missed windows, skew as functions |
| `AwriseLedger` | day files, torn lines, open wakes, prune, the checks and the judge as functions; extends `AwriseClock` |
| `AwriseHistory` | passes, dry runs, manual runs and prunes over days; composes the two above |
| `AwriseWake` | the executors, the unit plane, the run queue and sessions |
| `AwriseMemory` | the memory worker, its callers and its drain |
| `AwriseHostClock` | the entry in the scheduler, its payloads, its record and its check |
| `AwriseLockProofs`, `AwrisePassProofs`, `AwriseStoreProofs`, `AwriseWakeProofs`, `AwriseMemoryProofs`, `AwriseHostClockProofs`, `AwriseRefireProofs` (on top of `AwrisePassProofs`), `AwriseStampProofs` (on top of that) | the theorems |
| `MC...` | instances and symmetry sets for TLC |

A definition under the comment "A slip" is a plausible bug in the definition after it. It takes no
part in the specification: PROJECT.json pairs each checked property with the slip that breaks it.

### AwriseLock

`dir` maps the lock path and the `.breaking-*` names to directories (`wake.json`'s content, open
temporary files, whether the directory has gone unchanged for EMPTY_LOCK_S). A process is one
invocation: `StartSweep`, `SweepLeftover`, `SweepLock` are `sweep`; `Mkdir` to `LoseRetake` are
`_take`; `ReadHolder`, `JudgeHeld`, `JudgeStale`, `EndOverdue` are the judgement and what is done
about it; `Claim`, `Rejudge`, `PutBack` are `_claim_stale`; `Unlink`, `Rmdir` are `_remove`;
`OpenTmp`, `ReplaceFile` are `_write_holder`, which the first write, `note_child` and
`mark_detached` share; `Spawn`, `EndWake`, `Release` are the wake inside.

Time is two facts: `old` holds the wakes past timeout + grace, `aged` marks unnamed directories.
`Overruns = FALSE` says that a running process does not outlast those bounds (it is not suspended);
`TRUE` allows it. `displaced` is a history variable: a lock that was not stale has been renamed
aside. An invocation acquires once; `end_overdue_child` re-reads and kills in one step; pids are not
reused; a `wake.json` that exists is readable (the Windows sharing violations are not modelled).

### AwriseRecords, AwrisePassContract and AwrisePass

Each process carries what the Python frame holds: the loaded store `mem`, the length of the ledger
snapshot, the jobs left in the loop, the pass' one clock reading `at`, the wake `cur`. Reading the
store, merging (`Reload`), saving (`Save`), reading the ledger (`ReadRows`) and each row are steps
of their own, so everything else may run in between. `CloseOrphan` is one turn of reconcile's first
loop and `Repair` its rest (sweep, `_recover_stamps`, receipts). `EnterLoop`, `PassOver`, `SkewRow`,
`SkipRow` are the loop of `_run_due_pass`; `TakeLock`, `Overlap`, `Recheck`, `Begin`, `Spawn`,
`Finish`, `Unlock` are `_execute`, shared by `run`, which has no recheck and no pass lock. `Notify` and
`CardAnswer` write a card over the merged record. `Fail` is a refused file operation, which ends the
verb through its `finally` clauses, with or without the `.unrecorded.json` marker. `Die` kills a
process between any two steps.

A wake id is the record [proc, job, kind], which is unique as the code's random ids are. States are
grouped as the rules group them (`timeout` reads as `failure`, the policy skips as
`skipped`, `queued` as `cancelled`). The rows that no modelled rule here reads (tick, tick_end,
reconciled, missed, report_error, card_*) are left out. Locks
are taken and judged in one step, which is what `AwriseLock` justifies as long as nothing is
displaced. `Settings` is the set of scenarios of a run: who takes part and what may go wrong;
`setting` is chosen in the first state and never changes.

`AwrisePassContract` is what the ledger promises to its readers: a wake is begun (`Begin`) when no
other is open and nothing is on record of it, an interval after the last start of its job by the
reading of the invocation that begins it; it is ended once (`End`); a wake that is not begun leaves
one row (`Note`), and that of a clock skew takes the last start back, as the removal of the job does
(`Remove`). It knows of no store, merge, lock or death. `KeepsTheContract` is the refinement: what is
open, told, last started and removed is read off the rows of the ledger, and an invocation's reading is
the `at` of its frame, so every stamp, save and repair is a stutter.

### AwriseSpec, AwriseStoreContract and AwriseStore

`file` holds `jobs.json`, `jobs.json.bak` and `jobs.json.v1.bak`; a content is a store of this
version, a 0.1.0 store, JSON that no load accepts, or no JSON. One verb runs at a time: `Look`,
`Read`, `SetAside` are `load` with its migration; `Edit` is what `add` and `set` do in memory;
`Save`, `Copy`, `Replace`, `FirstBackup` are `save` and `_copy`; `Restore`, `Reset`, `Park`,
`ParkStray`, `StraysParked`, `ParkBak` the two ways out of a store that does not load. `Copy` and `Replace` are
single steps because the code writes a temporary file that nobody reads and renames it. `Stop` is a
kill or a refused operation between any two steps; `Damage` writes over a file from outside.

What is put away - by `SetAside` beside the store, by `Park`, `ParkStray` and `ParkBak` under `corrupt/` -
goes to a name with a second of local time in it, over whatever had that name (`PutAway`). `copies` holds
them with their names; `Seconds` are the seconds there are, any of which may come again: two restores in one
second, or a clock that was set back. `over` is a history variable: the jobs of a copy that another took the
name of. `NothingIsLost` excepts them, and `ParkedIsKept`, which does not, is violated.

`AwriseStoreContract` is what the files promise: a register with a spare, where a value is replaced
only when the spare holds it or it could not be read, and taken away only when it cannot be read or
a spare stands in for it. `IsARegister` is the refinement, with `jobs.json` as the value and the
backup as the spare.

The jobs of a store are a set of names; of a record only the fields judged together are kept apart
(`wake`, `park_after`, `detach`), the rest is the set of fields that hold a wrong value.
`MigratedNames` is a recursive function over the old file's records, in their order.

### AwriseClock, AwriseLedger and AwriseHistory

The clock counts units and a day has `Day` of them; a job with `at = NoAnchor` has none. The ledger
is a function from days to sequences of lines. `AddTorn` is an append cut short by a crash; the next
append lands behind it, and the two read as one unreadable line, as in `_append_bytes`. `Read` gives
the rows in write order; `Prune` spares the files that `_files_holding_open_wakes` names. `Checks`,
`Judge` and their parts are `checks.run` and `_judge_history` as functions of the files.

In `AwriseHistory` a pass is `StartPass` (the tick row, then reconcile over the recent days), for
each job `Turn`, `Gate`, and `Skip` or `Fire` and `Finish`, then `EndPass`; a dry run, an edit, a
prune or a manual run come between passes; `Die`, `Tear` and `StepBack` are the faults. A row and
its stamp are one step here: what happens between the two is `AwrisePass`' subject. `engine` is what
awpredict says of a job's rows, chosen anew whenever its rows change. The decide door is not
configured. `left` holds the budgets of a scenario.

### AwriseWake

Each wake is in a process of its own; all name the same unit. `Run` to `Close` are `run`,
`run_woken` and the end of `_execute`; `Refused`, `Ask`, `Answer`, `GiveUp`, `Withdraw` are
`ask_unit_agent`; `Spawn`, `Wait`, `Kill` are `_run_process` with its timeout; `Request` is
`run_http`; `Open`, `Send`, `Follow`, `Delete` are `run_session`; `Submit`, `Claim`, `Dispatch` are
`run_awrun` and the narrowed queue `_ClaimOnlyMine`. Every wait of the code but one has a
deadline, so its end is an alternative of the step that waits; the exception is the drain (`Drains`), which
hands the item to a dispatcher in the wake's own process. `Interrupt` is Ctrl-C in any wait. The agent
(`Take`, `Act`, `Dies`), the queue's other workers and the daemon are external.

What a wake starts and what it knows of it are kept apart. `Kill` may leave the child, or something that
holds its pipes, running: the reason of the row then says so (`doubted`). A DELETE may fail and is passed
over, which leaves the session `undeleted`; a session may have been made though its id never came back
(`unnamed`); and an answer that breaks off raises past the executor, past the park too (`Raises`).
`WorkIsOut` counts all of these, and `OutUnawares` names the ones of which the code takes the work for done.
A process that a command leaves in the background, with its outputs elsewhere, is not awrise's child: neither
the code nor the model knows of it.

### AwriseMemory

`Turn` to `Drain` are the process: `_execute` around the recall, the executor, `_record`'s two
submissions, `_memory_drain`; `Take` and `Done` the worker loop. A result goes to the queue of its
own call, so an answer that nobody waits for any more is dropped (`WaitedFor`). `Done` may never
come: the worker has no fairness. Two clocks are in the model because they are in the code: the
deadline of the pass is a point in time, the wait for a recall is a duration.

A recall asks the store for `Limit` facts of all that the job's scope may see, and keeps those of the exact
scope (`Recalls`): facts of the scopes above (`above`, which `Elsewhere` adds to) take places of the limit
and are then dropped. Which facts the store prefers is its own affair, so the choice is open. `crowded` are
the wakes whose recall had more to choose from than the limit.

### AwriseHostClock

Three kinds stand for the five adapters, as the module says. An install is `WritePayload`,
`ReadCrontab` and `WriteCrontab` or `Command`, `Probe`, `WriteRecord`; an uninstall is the same
command, `Clean`, `Forget`, `ProbeGone`. `Touch` counts what happens beside a verb: a death, a
user's edit of the crontab or of our entry, a scheduler that begins or ceases to fail, a damaged payload,
a job lock taken, a clock set back. `Fires` is the scheduler and `HandPass` a pass run by hand.
`CheckVerdict` is `check` with its three answers.

A kind in `failing` answers every query with an error and nothing on stdout, which all probes read as
absence (`Present`) and `foreign_entries` as no task (`Look`; `blind` remembers it); only the read of the
crontab before a write tells the two apart. `Command` may end well or badly whatever it did, and an
uninstall does not look. At first a timer or a task may be somebody else's, under our name. `Effective`
is `effective_every_s`: cron and schtasks round to a whole minute, cron cuts to hours and to a day.
`LastTick` reads the day files that `last_tick` opens, today's and `Window` before it, and takes the last
row of the latest file, which after a step back need not be the latest pass (`LateRow`).


## Runs

Passing runs, with the reachable states TLC finds. `PROJECT.json` lists the properties of each.

| Run | Instance | Shows |
|---|---|---|
| `lock_pass` | 3 processes, detached children, 479k | a second wake needs a displaced lock; breakers delete only stale locks; a marked child is alone; the inductive invariant |
| `lock_live` | 2 processes, children waited for, suspensions allowed, 40k | an acquire ends; a lone acquire takes a stale lock |
| `pass_passes` | 3 passes with refused file operations, with two jobs or with a clock that steps back; 2 passes and an operator, 837k | one terminal row per wake; no second start in a window; the contract of the passes is implemented; the store caught up after reconcile; an impossible stamp told once |
| `pass_by_hand` | a pass, a manual run and an operator who adds the job, with cards and skips; a detached wake and 2 reconciles, 826k | the streak counts wakes; a wake that jobs.json names is not followed by another inside its window |
| `pass_live` | a pass and a manual run, 29k | invocations end; dead wakes are closed |
| `store_pass` | 2 adds, 1 damage, 1 stop, 2 seconds, a 0.1.0 store, 941k | the files implement the register; no acknowledged job is lost from every copy, unless its copy was put away over; what is saved loads; a way back |
| `history_pass` | 1 job, days of 3 units, 7 units of time, 195k | windows are served and lost once; the dry run tells what the pass does; prune keeps open wakes; no green verdict on a young record |
| `wake_pass` | 2 wakes, every executor and unit policy, kills and deletes that fail, 229k | a withdrawn request is not served; a required unit comes first and stays up for all work not taken for done; a drain keeps to its item; what is left behind is told or was asked to go; every wake closes that is not in a drain |
| `memory_pass` | 2 jobs, 2 invocations, the second with the decide door, a recall of 1 fact, 515k | recalls cost one timeout and the drain another; a wake recalls its own past; what was drained is recalled when the limit allows; no invocation hangs |
| `host_pass` | a Unix host and a Windows host, 2 verbs and 1 touch, 3.15M | the check tells a clock that fires within the days it reads; what is reported installed is current; what is reported gone is gone, if the query worked; nothing foreign is changed but what the verbs do not ask about |

`lock_one_wake` and `pass_refire` expect a violation, see below.

The type invariants are proved for every instance, but for that of `AwriseHistory`. The runs of the
lock, the passes, the store, the wakes and the memory spend no invariant on theirs; that of the lock is part of
`LockInv`. `AwriseHistory!TypeOK` states the types for the reader and can be named in the cfg of its run.

**Bounds.**

- Lock: `lock_pass` has three processes, which reach a displaced lock and a breaker that puts it back or
  takes the path itself. The displacement of `lock_one_wake` takes four, as each process has one wake: one
  whose lock is read and then released, the breaker that read it, the next wake on the path, whose lock the
  breaker renames aside, and one that finds the path free. That run stops at its first violation
  (21k states). Two rename attempts and a sweep claim are the code's own bound.
- Passes: `Interval = 2` and clock readings 1 to 3 (to 2 or 1 where a second window plays no part)
  hold a first wake, a reading inside its window and one at its end; a backward step and a second
  window in one behaviour are left to the proofs, which have no bound. Three passes allow a crash, a
  repair that itself crashes, and a second repair. A job's rules read only its own record and rows,
  but every merge re-reads all records: two jobs are what it takes to see the one that a save for
  the other takes in, with three passes on a failing disk in `pass_passes`, with an operator in
  `pass_refire`. With two passes, an operator and two jobs (readings to 2, 4.7 million states) the
  other invariants of `pass_passes` hold too.
- Store: `MaxAdds = 2` is a job that the backup has and one that it may lack; `MaxDamage = 1` ruins the
  store or its backup, and with `MaxStops = 1`, which stops one verb anywhere, the other may be gone too;
  what they left is what later verbs meet. Two seconds let a copy keep its name or lose it to the next one;
  the proofs have no bound on any of these. The old store holds two names that read alike once cleaned, in the order
  that keeps both (`OneOrder`); the other order is a disagreement, below. Edits are the ones that
  ask for a park, where verb and load judge several fields together.
- History: a day of 3 units and 7 units of time cross two day boundaries; a scenario gives each kind
  of event a budget, and the budgets together hold a host that sleeps over windows, a death and the
  pass after it, a prune of the day that holds the open wake, a torn line and a backward step.
- Wakes: `Alone` is each executor with each policy towards its unit, each beside a wake that has no
  unit; two more casts share the unit, or drain the queue together. Every deadline is a choice.
- Memory: `Timeout = 2` and jobs that work 0 or 3 units, less and more than the budget; the second
  invocation is there for what the first one left in the store. `Limit = 1` (20 in the code) and
  `MaxAbove = 1`: a job has one fact of its own by then, so it is the scope above that crowds the recall;
  that own facts alone exceed the limit is left to the theorem, which has no bound.
- Host clock: `Minute`, `Hour` and `Day` are 2 units and `Window` is one day file before today's (two in
  the code), so that intervals of 1 and 3 are rounded up, halfway to the even minute, or cut; 4 units of
  time reach into a third day, where a row of the first is no longer read; two verbs (an install over an
  install, or its removal) and one event from outside.

**Deadlock** is not checked: an instance has finitely many invocations, events or units of time, and
the system stops when they are used up.

**Fairness.**

- `AwriseLock`, `AwrisePass`: weak fairness of every step of an invocation that has begun: the
  operating system schedules a runnable process, and no step waits for another process except for a
  child, which ends at its timeout (`ChildExit` is fair for that reason; kill_tree is assumed to
  succeed). Starting, dying, ageing and the clock are not fair. A step that the disk may refuse is
  checked without refusals in the liveness run.
- `AwriseStore`: weak fairness of the steps of a verb, and strong fairness of the operator's
  `restore` and `reset`: the refusals name them, and the property is about someone who follows.
- `AwriseWake`: weak fairness of the steps of each wake, no other. Its waits have deadlines, so
  the agent, the daemon, the child and the queue's workers owe it nothing. A drain has none:
  `dispatch_once` runs the item in the wake's own process, so `Claim` and `Dispatch` (`Drains`) have no
  fairness, and `EveryWakeCloses` says that a wake closes or stays in its drain.
- `AwriseMemory`: weak fairness of the process and of the passing of time; the worker has none.

### Disagreements with the code's own claims

| Run | Sentence refuted | How |
|---|---|---|
| `lock_one_wake` | README.md:113-114: a job whose previous run holds its lock "is never started a second time" | a breaker's reading of a wake now over makes it rename aside the lock of the next wake; a fourth invocation takes the free path |
| `pass_refire` | cli.py:491-494: the ledger "is the memory and the store is its cache", so a stamp is recovered "rather than the job fired a second time" | `reload_merge` re-reads what the pass did not touch; an operator's `set` or `enable` loaded earlier and saved since reconcile looked has put the old stamp back, the pass judges by it, and the re-read under the lock compares it with itself |

The following are stated in the modules and violated by the same instances, changed only
where the table says so; name one as an INVARIANT of the run's cfg to see its behaviour.

| Definition | Sentence | How it fails |
|---|---|---|
| `AwriseLock!SpawnedDetachedChildIsAlone` | a detached child keeps the lock until it exits | the pass dies before the mark (cli.py:1879) |
| `AwrisePass!OneTerminalRow`, in `pass_by_hand` | exactly one terminal row | a manual wake finishes after reconcile read the ledger and exits before its pid is judged (cli.py:501) |
| `AwrisePass!SavedWakeIsNotRefired`, with a second pass and `maxNow = 3` beside the manual run | cli.py:1761-1763: a pass that loaded the store before another fired the job does not fire it again in the window | the wake falls between another pass' `reload_merge` and its save (store.py:1161), the save takes its stamp back, and the re-read under the lock compares two equal old copies; `StampedWakeIsNotRefired` is what does hold |
| `AwrisePass!SkewMeansStep`, with two jobs, a pass and a manual run | a skew means the clock went backwards | the pass' reading (cli.py:2146) is older than stamps it merges in |
| `AwriseStore!NeverEmptied` | a store that cannot be read is never taken for an empty one | restore stops after it parked jobs.json and before it copied the backup (store.py:1190-1194) |
| `AwriseStore!MigrationKeepsJobs`, with `BothOrders` | store.py:87-88: "Renaming keeps the operator's jobs" | the cleaned name is taken before the legal one of the same spelling is met (store.py:856-867) |
| `AwriseStore!ParkedIsKept` | store.py:1271-1272: "nothing here ever deletes evidence" | the second of two restores in the same second parks over what the first one parked, which may be the only copy of a reported job (store.py:1186-1194) |
| `AwriseHistory!NeverHeldBackTwice` | README.md:229-233: never skipped twice running on a prediction alone | a row of another kind stands between the two |
| `AwriseWake!ParkWaitsForTheWork` | README.md:107: a park is "skipped whenever the wake closed with the work still outstanding" | the drain of the item raised, a kill failed (executors.py:136-161), or the DELETE of the session did (813-822) |
| `AwriseWake!EverySessionIsDeleted` | executors.py:703-704: "a wake that got an id deletes it whatever happened next" | the DELETE failed, which is suppressed, and nobody asks again |
| `AwriseWake!EveryWakeIsTimedOut`, as a PROPERTY | cli.py:2033-2035: the largest timeout "is what one wake may take" | a drain has no deadline (executors.py:546) |
| `AwriseWake!NoChildIsLeft` | executors.py:217-221: never return without killing the child | Ctrl-C while an attached child runs |
| `AwriseWake!NoServiceForTheGone` | executors.py:930-932: a late agent cannot serve who gave up | it had taken the request before the withdrawal, or the asker was interrupted |
| `AwriseMemory!HealthyMemoryIsRecalled` | README.md:190: "awrise recalls its own last 20 finished wakes" | the pass' budget is a point in time (cli.py:2152), which the work of the jobs in front uses up though the store answers at once |
| `AwriseMemory!LastTwentyAreRecalled` | README.md:190, the same sentence | facts of the scopes above take places of the 20 and are filtered out after (cli.py:804, 958-960) |
| `AwriseHostClock!CurrentIsTrue`, with `MaxVerbs = 3` | README.md:51-54: install-clock finds "the same entry, the same interval" | only the record's interval is read back, and an install died between entry and record |
| `AwriseHostClock!GoneIsSeen` | hostclock.py:1009-1010: an unaskable scheduler is "UNJUDGED, never a pass" | a query that fails reads as absence, whatever the scheduler: return codes are ignored, or any nonzero one means "not registered" |
| `AwriseHostClock!NoForeignEntryIsLost`, as a PROPERTY | hostclock.py:1079-1081: a task of somebody else's is not to be "overwritten by an install and destroyed by an uninstall" | `awrise.timer` and the launchd agent are enabled, disabled and unloaded by name, unasked (1090, 1227-1239); a task whose query failed is created over with `/f` (1070-1072) |
| `AwriseHostClock!SlowClockIsTold` | hostclock.py:1516: "1 a measured NO" | an interval longer than the two days that `last_tick` reads (1469): the timer fires on time and is answered 1 |
| `AwriseHostClock!ZeroMeansTicking` | hostclock.py:1494, 1512: locks held "by a PASS that is running right now" | a manual run's lock excuses a stopped clock as well |

Smaller ones, met while modelling:

- `sweep` deletes every leftover claim as "nobody's lock" (`lock.py:598`), also one whose breaker is
  alive and about to put a live lock back. `release` unlinks by path what it read before
  (`lock.py:193`), and on an overdue verdict `_take` reads the holder again before it ends the child
  (`lock.py:503`): a process suspended between the two, past its bound, meets another's lock.
- A manual wake that died after a pass' reconcile is unknown to the re-read under the lock
  (`cli.py:1796`), and the pass fires the job again in the same window.
- An edit saved between a pass' re-load and its save (`store.py:1161`) is lost; a card's report block
  read earlier is written back (`cli.py:1593`); an operator's save takes back a stamp saved meanwhile (which `pass_refire` makes a second start of);
  a job removed and added again gets the old wake's stamp (`store.py:1163` overlays by name).
- The dry run does not know of the wakes that reconcile will close, nor of the skew row that resets
  the prediction rule: it may name another decision than the pass. The model forgets a plan when
  reconcile closes a wake, and the job that predicts meets no backward step in `history_pass`.
- A torn line swallows the next appended row; reconcile reads only the last 30 days; `history
  --judge` is not OK for a job just added beside an old ledger.
- A unit is parked by one wake under another of a job that shares it, and an executor that raises - an
  answer of http or of the daemon that breaks off - skips its park.
- The decide door and the predict gate each may cost a job up to 3 s, outside the recall budget.
- An uninstall of another kind, or one that failed, removes the record while the entry stays; two
  kinds may be registered at once; the check advises `install-clock --force` for a payload whose
  marker is gone, which `refuse_foreign_file` refuses; a `crontab -e` between read and write is lost.

## Proofs

Eight modules hold the theorems. Each rests on the ASSUMEs of the module it is about, which say that
sizes are numbers, the roles of processes disjoint, null values distinct from data (`NoJobAssumption`:
a name without a record is told from a record), processes from wakes, and that the host clock has an interval to be installed with.
TLC evaluates every one of them.

**`AwriseLockProofs`**, for any set of processes: `TypeCorrect`; `NoDoubleFireUnlessDisplaced` (when
no wake outlasts its bound, two wakes of a job meet only after a lock that was not stale was renamed
aside); `DetachedChildKeepsLock` (under the same conditions a marked detached child is alone);
`BreakersDeleteStaleLocks` (unconditionally, what a breaker deletes under its claim is stale).
They follow from one inductive invariant, `LockInv` (`LockInvariant`). Mutual exclusion is not
inductive: it must say what is at the path. `Undisplaced` does: every wake **owns** the directory at
the path (its own name, or a fresh unnamed one, never judged stale), every claim holds a stale or
fresh directory, and a kept lock of a live child is in place. `ChildInv` says that a document names a
child only after one was spawned, so a re-judgement under the claim stays true until the deletion,
which is `BreakInv`.

**`AwrisePassProofs`**, for any number of jobs and invocations and any scenario: `PassTypeCorrect`.
The types are inductive only with what a process holds where it stands (`SoundInv`): the wake it
works on has a name and a record, an operator's job a name, whoever is at the sinks somebody to tell.
`OneTerminalRowOfPasses`: no wake gets two terminal rows, whatever dies, is refused by the disk or
finds the clock set back, as long as the scenario is `Quiet`, which means passes and operators only,
none of which outlasts the bound of the pass lock. Without that the property is false (a manual wake
may finish after reconcile read the ledger, see above). The invariant is `WriterInv`: a pass that is
there holds the pass lock, so it alone writes rows (`PassInv`); until its loop it has no row, then
none of a job it has yet to turn to, and of the wake at hand the started row at most (`RowInv`);
what its reconcile has yet to judge open is open still (`CloseInv`), because nobody else writes; and
no wake has two started or two finished rows (`OnceInv`). `Min` and `Max`, the merge, the stamp and
the recovery have lemmas of their own.

**`AwriseRefireProofs`**, first for any number of jobs and passes: `NoRefireAmongPasses`, no pass starts a job
inside the window of its last start, in every scenario that is `Alone`: passes only, none of which
outlasts the bound of the pass lock. Deaths, refused file operations, skips, cards, detached children
and a clock that steps back are all allowed. With an operator the sentence is false (`pass_refire`), and
a manual wake may be unknown to the re-read under the lock (see above). The property is an action
property on `Begin`, judged by the reading of the clock the pass itself judges by: a reading taken
later may lie behind it. Its invariant `RefireInv` (`PassRefireInvariant`) says where the last start of a
job is known: a record `Covers` it, or its stamp is still `Owed`, which only the last row of the ledger
can leave (`Cached` of jobs.json, `InReconcile` of a pass before its loop). Behind reconcile the pass knows
every last start but that of the wake it runs, jobs.json too but for what is about to be saved, and
nothing is open (`InLoop`); the recheck compares two records that both know the last start, so a job
that is taken has a reading an interval behind it. `Good` is what a comparison by wake id needs: the wake
a record names is over, and the record is not behind its start. A skew row takes the last start
back, which is why `LastStart` ends there. `RecoverCovers` is the lemma that recovery pays what is owed.
`PassesKeepTheContract` is the refinement of `AwrisePassContract` under the same `Alone` (the run checks it
beside an operator too, whose `remove` is the contract's `Remove`). A step writes at most one row
(`StepWrites`), and only one that is `Allowed`: a start when nothing is open and the interval is over, an
end of the wake that is open, or a row of a wake not told of before - which is where `RowInv`, `CloseInv`
and `RefireInv` are needed. `BeginRow`, `EndRow` and `NoteRow` say what such a row does to what the ledger
says, so that an allowed row is a step of the contract (`AllowedStep`).
`StampedWakesAreNotRefired` is what remains when anybody takes part - operators, wakes by hand, passes that
outlast their lock - in any scenario: a pass that re-reads a record under the job's lock does not go on with
it inside the window of the wake that record names. Of the writers' order nothing is left to rely on, so the
invariant `SeenInv` says of each invocation only what no other can take from it (`OthersSee`). A wake is begun
once, by the first of its rows (`BegunOnce`): the wakes an invocation has yet to begin have no row (`YetToRun`,
`AtItsWake`). Whatever record jobs.json or a memory holds `Knows` the wake it names: that one has ended, and
the record is not behind its start; this survives every merge and every save of old copies, because no record
is made but by a stamp (`StampKnows`), a recovery (`RecoverKnows`) or a clock-skew row. And whom a pass turns
to was due by its own clock or `Healed`, that is named by a clock-skew row, which no wake is (`Chosen`,
`AtGate`): so a record that still names the same wake says that the interval is over.

**`AwriseStampProofs`**, first for any number of jobs and passes that are `Alone`, while the clock has not stepped
back: `StoreIsCaughtUp`, behind a pass' reconcile jobs.json is behind no wake that a row ends. `RefireInv` does
not give it: that one follows the last start of a job, while this one follows every row that stamps, the skips
of wakes that never began among them. Its invariant `CaughtInv` says what a crash may leave. A record has `Met`
a row when it is not behind the start of the row's wake; it is `Caught` when it has met all that stamp, and
`Nearly` so when only the last row of the ledger is missing, which is the one whose stamp or save was cut off:
the next pass reads the rows before it writes any. `Ahead` follows the pass: what it has loaded is nearly
caught and so is jobs.json, from `Repair` on what it has in memory is caught, and jobs.json with it but for the
jobs about to be merged. Recovery looks only at the last row of a job that stamps, and skips it when the record
names its wake; that this is enough is `RecoverCaught`: all but the last row are met already, and a record that
lacks the last does not name it. A wake is stamped with a start later than every row before it (`Until`), which
is what a clock that steps back takes away: the property says nothing of such a behaviour, nor of an
operator's, who may save what he loaded.
`StreakIsOfWakes`, for passes and operators (`Quiet`) and any clock: `consecutive_failures` is never more than
the wakes that the ledger has as ended badly or detached. The bound alone is not inductive. A record may have
its wake counted already while a crash, a merge or an operator's save takes the stamp apart from the row, and
recovery or a receipt then stamps again. So a record is `Tallied`: what it has `Told` (its count, and one more
for a detached wake that a receipt may still turn into a failure) is no more than the wakes, and it is `Apart`
from the newest row that recovery would stamp - it has not counted that row's wake, or its start is not behind
the wake's, so that recovery passes it by. `Closing` carries this through a reconcile, which recovers from rows
it read before it closed the orphans, and `StampTallied`, `RecoverTallied` and `JudgeTold` are what the three
kinds of stamp do to it. With two reconciles at once, or a wake by hand beside one, a wake may get two terminal
rows; the sentence is checked there (`pass_by_hand`), not proved.

**`AwriseStoreProofs`**, for any number of adds, damages and stops and any set of old stores:
`StoreIsARegister` (the refinement: every step of a verb is a step of `AwriseStoreContract` or none),
`WhatIsSavedLoads`, `StoreTypeCorrect`. The invariant is `StoreInv = TypeOK /\ CopyInv /\ SafeInv /\
LoadInv`: between which files a copy runs, what a verb has made sure of before it replaces, parks or
sets aside a file (that the backup holds it, or that it cannot be read), and that the store in memory
loads. `VerbIsNoLaxer` is the lemma
behind the last: no record that add or set accepts is one that load refuses, field by field.
`NoJobIsLost` and `AddedJobsHaveBackup` need `KeptInv` beside it: a verb drops no job on the way from
load to save (`MemInv`), an add that saves has its job in what it saves (`AddInv`), and a reported job
is in the store, in a copy put away, or in `over` (`AckedInv`) - it is never left to the backup alone, which
would be too weak: the next save writes over the backup. `PutJobs` are the jobs of every copy
put away so far, replaced ones included, and `PutAwayKeeps` the lemma that putting a copy away loses none
of them. `over` is an exception, not a loss: the job may be in the store still.
`MigrationAssumption`, that migrated names are names, is an assumption on the constant `OldStores`:
it follows from a recursive function by induction over data, which is out of the prover's reach, and
TLC evaluates it for the old stores of the run.

**`AwriseWakeProofs`**, for any number of wakes and any cast of sound jobs: `WithdrawnRequestsAreGone`
(a withdrawn request is never taken or answered), `RequiredUnitComesFirst` (a job that requires its
unit starts nothing unless the agent said that it is up), `WakeTypeCorrect`. `WakeInv` adds `PlaneInv`
(a request is in one place: its file, the agent's hands, its result), `AskInv` (a wake asks for each
act once, and before that nothing of the request is out) and `FailInv` (nothing has started).
`UnitIsUpForItsWork`, `DrainsAreTheirOwn` and `NothingStaysBehind` rest on `WorkInv` as well: what a
wake has started belongs to its kind and to the step it is at (`KindInv`, `LeftInv`), an item that a
drain claimed is its own until its end (`ByInv`, `DrainInv`), and a park is asked for only by a wake
whose work has settled (`ParkInv`), so that a unit that came up is up until then (`UpInv`). "Settled" is
as the wake sees it: `Settled` excepts what is `OutUnawares`, so the theorem says precisely where the
code's own view of the work and the truth part.

**`AwriseMemoryProofs`**, for any number of jobs and invocations, any timeout and working times:
`RecallsCostOneTimeout` (all recalls of an invocation wait at most one timeout, and the drain two),
`WakesSeeTheirOwnPast`, `MemoryTypeCorrect`. `CostInv` ties the time waited to what is left until the
deadline; `PastInv` follows the facts from the queue to the store, to an answer and into the environment: a
fact is of a turn already over, an answer and an environment hold facts of the job at hand.
`DrainedFactsReachLaterWakes` follows a fact the other way, with `FactsInv`: the pending count is the
queue and the call under way (`CountInv`), so a drain that reached zero left every wake's fact in the
store or its row in the ledger (`ToldInv`, `DrainedInv`), and what is owed to a wake is in its answer,
then in its environment (`RecallInv`) - owed unless the recall was `crowded`, for which the code promises
nothing: that is the exception the theorem names, for any limit.

**`AwriseHostClockProofs`**, for any set of hosts, intervals, grid and number of verbs and touches:
`ClockTypeCorrect`, `CheckIsRight`, `ReportedInstallIsCurrent`, `ReportedRemovalIsGone`,
`ForeignIsKept` (an action property). Each names its exceptions: the tick row that a clock set back
leaves (`LateRow`), the days that `last_tick` reads, the query that failed (`failing`, `blind`), and the
owner nobody asks for. `ClockInv` adds to the types which step belongs to which verb and
kind (`VerbInv`), that the lines read are the user's but for his edits since (`LinesInv`), that the
last scheduled tick row is of the last pass started, or of a later day (`FiredInv`: the check reads the
row), and what an
undisturbed install has done by each of its steps (`InstallInv`).

Only model-checked: liveness (the prover has neither fairness nor ENABLED), `StoreComesBack` among
it; everything about `AwriseHistory`: its rows are read through `SelectSeq` and written through a fold over
the day files, and what these compute for every ledger is induction over data.

## Not modelled, and the plan

Not modelled: the doctor, the command guard, `prewarm` and `import-routine` (plans computed from
text, applied as adds), the self-test, the entry points and the repository's scripts, none of which
keeps state that another invocation acts upon; command lines, printing, parsing, formatting and
redaction; the text of the host clock's payloads; file permissions and Windows ACLs; the at-startup
entry of Windows; WL004 and the wording of WL006; the decide door's question; the sum of timeouts
that bounds a pass lock's age.

Next:

1. `StoreCaughtUp` beside a manual wake.
2. The lemmas on `AwriseLedger` that need no induction, and with them the types of `AwriseHistory`.
3. A card property (one card per streak, edits of the report block in between).
