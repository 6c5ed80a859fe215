-------------------------- MODULE AwriseHostClock --------------------------
(***************************************************************************)
(* The host clock (hostclock.py, and `install`, `install-clock` of         *)
(* cli.py): the entry in the host's scheduler that starts `run-due`, the   *)
(* payload files it launches, the install record, and the check that says  *)
(* whether the clock ticks.                                                *)
(*                                                                         *)
(* Three kinds stand for the five adapters: "cron" is a marked line among  *)
(* the user's own in one crontab, read and written back as a whole;        *)
(* "timer" (systemd, launchd) is an entry with payload files that hold the *)
(* interval; "task" (schtasks) is an entry that holds the interval itself, *)
(* over payload files that do not.  One verb runs at a time, and may die   *)
(* between any two steps; the user, the scheduler, passes and manual runs  *)
(* act in between.  A query of a scheduler may fail and read as absence; a *)
(* command may end well or badly whatever it did, or not answer at all.    *)
(***************************************************************************)
EXTENDS Integers

CONSTANTS
  Hosts,      \* the sets of adapters a host may have
  Everies,    \* the intervals asked for
  Minute,     \* what cron and schtasks round an interval to
  Hour,       \* what cron cuts an interval of an hour and more to
  Day,        \* the most that cron can do; and the span of a day file of the ledger
  Window,     \* how many day files before today's last_tick reads
  Grace,      \* TICK_GRACE_FACTOR
  Lines,      \* the user's own crontab lines
  MaxNow,     \* bound: the time
  MaxVerbs,   \* bound: how many verbs
  MaxTouches  \* bound: how often something else changes, or a verb dies

ASSUME HostClockAssumption ==
  /\ Hosts \subseteq SUBSET {"cron", "timer", "task"}
  /\ Everies \subseteq Nat \ {0} /\ Everies # {}
  /\ Minute \in Nat \ {0} /\ Hour \in Nat \ {0} /\ Day \in Nat \ {0}
  /\ Window \in Nat /\ Grace \in Nat \ {0}
  /\ MaxNow \in Nat /\ MaxVerbs \in Nat /\ MaxTouches \in Nat

Never == MaxNow + 1

\* The entry of a kind: whose, with which interval, and whether it is enabled.
NoEntry == [by |-> "nobody", every |-> 0, on |-> FALSE]
Entries == {NoEntry} \cup [by : {"us", "them"}, every : Everies, on : BOOLEAN]

\* The payload of a kind: what was rendered for an interval (0 if it holds
\* none), with or without our marker, and whether its bytes are those.
NoFile == [marked |-> FALSE, every |-> 0, intact |-> FALSE]
Rendered(k, e) == [marked |-> TRUE, every |-> IF k = "timer" THEN e ELSE 0, intact |-> TRUE]
Files == [marked : BOOLEAN, every : Everies \cup {0}, intact : BOOLEAN]
Foreign == [marked |-> FALSE, every |-> 0, intact |-> TRUE]

HasFile(k) == k # "cron"

NoRecord == [kind |-> "none", every |-> 0, at |-> 0]

VARIABLES
  entry,    \* what the scheduler holds under our name, for each kind
  lines,    \* the user's own crontab lines
  failing,  \* the kinds whose scheduler fails every query with nothing on stdout
  file,     \* the payload of each kind
  record,   \* hostclock.json
  now,
  ticks,    \* the last tick row of a scheduler, and of a pass run by hand
  fired,    \* when the scheduler last started a pass
  lock,     \* which job lock is held: a pass', a manual run's, a detached child's
  me,       \* the verb at work
  verbs, touches,
  touched   \* something else has changed since the verb began

\* The adapters of this host.
Kinds == DOMAIN entry

vars == <<entry, lines, failing, file, record, now, ticks, fired, lock, me, verbs, touches, touched>>
host == <<entry, lines, failing, file, record>>
time == <<now, ticks, fired, lock>>
counts == <<verbs, touches, touched>>

Idle == [verb |-> "none", kind |-> "none", every |-> 0, at |-> "idle", said |-> "nothing",
         kept |-> {}, unread |-> {}, blind |-> FALSE]

TypeOK ==
  /\ Kinds \in Hosts /\ entry \in [Kinds -> Entries]
  /\ lines \subseteq Lines
  /\ failing \subseteq Kinds
  /\ file \in [Kinds -> Files]
  /\ record \in {NoRecord} \cup [kind : Kinds, every : Everies, at : 0..MaxNow]
  /\ now \in 0..MaxNow
  /\ ticks \in [clock : 0..Never, hand : 0..Never]
  /\ fired \in 0..Never
  /\ lock \in {"free", "pass", "manual", "detached"}
  /\ me \in [verb : {"none", "install", "uninstall"}, kind : Kinds \cup {"none"},
             every : Everies \cup {0},
             at : {"idle", "payload", "read", "write", "look", "command", "clean", "forget",
                   "probe", "record", "probe_gone"},
             said : {"nothing", "installed", "current", "gone", "no", "unjudged", "died"},
             kept : SUBSET Lines, unread : SUBSET Lines, blind : BOOLEAN]
  /\ verbs \in 0..MaxVerbs /\ touches \in 0..MaxTouches
  /\ touched \in BOOLEAN

\* The task, timer or agent of somebody else, under our name.
Theirs == [by |-> "them", every |-> CHOOSE e \in Everies : TRUE, on |-> TRUE]

Init ==
  /\ \E K \in Hosts :
       entry \in [K -> {NoEntry, Theirs}]
  /\ \A k \in Kinds : entry[k] = Theirs => k # "cron"
  /\ lines \in SUBSET Lines
  /\ failing \in SUBSET Kinds
  /\ file \in {f \in [Kinds -> {NoFile, Foreign}] : \A k \in Kinds : HasFile(k) \/ f[k] = NoFile}
  /\ record = NoRecord
  /\ now = 0
  /\ ticks = [clock |-> Never, hand |-> Never]
  /\ fired = Never
  /\ lock = "free"
  /\ me = Idle
  /\ verbs = 0 /\ touches = 0 /\ touched = FALSE

-----------------------------------------------------------------------------
(* What the code reads                                                     *)

\* The whole minutes next to an interval, at least one; of two, the even one.
Minutes(e) ==
  LET q == e \div Minute
      r == 2 * (e % Minute)
      up == r > Minute \/ (r = Minute /\ q % 2 = 1)
      n == IF up THEN q + 1 ELSE q
  IN IF n = 0 THEN 1 ELSE n

\* effective_every_s: what the scheduler makes of an interval.
Effective(k, e) ==
  LET m == Minutes(e) * Minute
      h == (m \div Hour) * Hour
  IN CASE k = "timer" -> e
       [] k = "task" -> m
       [] OTHER -> IF m < Hour THEN m ELSE IF h < Day THEN h ELSE Day

\* probe: by name; a query that fails finds nothing.
Present(k) == entry[k].by # "nobody" /\ k \notin failing
Enabled(k) == Present(k) /\ entry[k].on

\* payloads_present, payloads_changed
Missing(k) == HasFile(k) /\ file[k] = NoFile
Changed(k) == HasFile(k) /\ file[k] # Rendered(k, record.every)

\* _clock_is_current
Current(k, e) ==
  /\ record.kind = k /\ record.every = e
  /\ ~Missing(k) /\ ~Changed(k)
  /\ Enabled(k)

DayOf(t) == t \div Day

\* ledger.files: the day files that a reader of the last days opens.
InWindow(t) == t # Never /\ DayOf(now) <= DayOf(t) + Window

\* A slip: any pass will do.
AnyTick == IF InWindow(ticks.hand) THEN ticks.hand
           ELSE IF InWindow(ticks.clock) THEN ticks.clock ELSE Never

\* last_tick, of SCHEDULED_INVOKERS
LastTick == IF InWindow(ticks.clock) THEN ticks.clock ELSE Never

\* check: how old a tick may be
Bound(r) == Effective(r.kind, r.every) * Grace

\* live_locks: a lock that no detached child holds.
LiveLock == lock \in {"pass", "manual"}

\* check: 0 installed and ticking, 1 a measured no, 2 unjudged.
Structure(k) == IF Enabled(k) /\ ~Missing(k) /\ ~Changed(k) THEN 0 ELSE 1

CheckVerdict ==
  IF record = NoRecord THEN 2
  ELSE IF ~Present(record.kind) THEN 1
  ELSE IF LastTick # Never /\ LastTick > now THEN 1
  ELSE IF LastTick # Never /\ now - LastTick <= Bound(record) THEN Structure(record.kind)
  ELSE IF LiveLock THEN Structure(record.kind)
  ELSE IF LastTick = Never /\ now - record.at < Bound(record) THEN 2
  ELSE 1

-----------------------------------------------------------------------------
(* install and install-clock                                               *)

Says(word) == me' = [me EXCEPT !.at = "idle", !.said = word]
Goes(place) == me' = [me EXCEPT !.at = place]

Begin(verb, k, e, place) ==
  /\ me.at = "idle" /\ verbs < MaxVerbs
  /\ verbs' = verbs + 1
  /\ touched' = FALSE
  /\ me' = [Idle EXCEPT !.verb = verb, !.kind = k, !.every = e, !.at = place]
  /\ UNCHANGED <<host, time, touches>>

Install(k, e) == Begin("install", k, e, "payload")

\* cmd_install_clock: nothing to do when the entry is current.
InstallClock(k, e) ==
  IF Current(k, e)
  THEN /\ me.at = "idle" /\ verbs < MaxVerbs
       /\ verbs' = verbs + 1
       /\ touched' = FALSE
       /\ me' = [Idle EXCEPT !.verb = "install", !.kind = k, !.every = e, !.said = "current"]
       /\ UNCHANGED <<host, time, touches>>
  ELSE Install(k, e)

\* Where a verb first asks the scheduler of a kind.
FirstAsk(k) == CASE k = "cron" -> "read" [] k = "task" -> "look" [] OTHER -> "command"

\* _write_payloads: a file without our marker is somebody else's.
WritePayload ==
  /\ me.at = "payload"
  /\ IF HasFile(me.kind) /\ file[me.kind] # NoFile /\ ~file[me.kind].marked
     THEN Says("no") /\ UNCHANGED file
     ELSE /\ file' = IF HasFile(me.kind)
                     THEN [file EXCEPT ![me.kind] = Rendered(me.kind, me.every)] ELSE file
          /\ Goes(FirstAsk(me.kind))
  /\ UNCHANGED <<entry, lines, failing, record, time, counts>>

\* A slip: a crontab that cannot be read is an empty one.
ReadSomething ==
  /\ me.at = "read"
  /\ me' = [me EXCEPT !.at = "write", !.kept = IF "cron" \in failing THEN {} ELSE lines]
  /\ UNCHANGED <<host, time, counts>>

\* _existing_crontab
ReadCrontab ==
  /\ me.at = "read"
  /\ IF "cron" \in failing
     THEN Says("unjudged") ELSE me' = [me EXCEPT !.at = "write", !.kept = lines]
  /\ UNCHANGED <<host, time, counts>>

Ours(e) == [by |-> "us", every |-> e, on |-> TRUE]

\* What the verb wants the scheduler to hold.
Wanted == IF me.verb = "install" THEN Ours(me.every) ELSE NoEntry

\* How a command ended: only an install looks.
Ended(well) ==
  IF me.verb = "uninstall" THEN Goes("clean") ELSE IF well THEN Goes("probe") ELSE Says("no")

\* _register, _unregister: the whole crontab is written, or it is refused.
WriteCrontab ==
  /\ me.at = "write"
  /\ \/ /\ "cron" \notin failing
        /\ lines' = me.kept
        /\ entry' = [entry EXCEPT !["cron"] = Wanted]
        /\ Ended(TRUE)
     \/ UNCHANGED <<lines, entry>> /\ Ended(FALSE)
  /\ UNCHANGED <<failing, file, record, time, counts>>

\* foreign_entries: a task of our name that does not launch our payload is
\* left alone - but a query that fails shows no task.
Look ==
  /\ me.at = "look"
  /\ IF "task" \in failing THEN me' = [me EXCEPT !.at = "command", !.blind = TRUE]
     ELSE IF entry["task"].by = "them" THEN Says("no")
     ELSE Goes("command")
  /\ UNCHANGED <<host, time, counts>>

\* _register, _unregister of a task, timer or agent, by its name and whoever's
\* it is.  How a command ends says nothing of what it did; an agent is
\* unloaded before it is loaded.
Command ==
  /\ me.at = "command"
  /\ \E e \in {entry[me.kind], Wanted} \cup (IF me.kind = "timer" THEN {NoEntry} ELSE {}) :
       entry' = [entry EXCEPT ![me.kind] = e]
  /\ \E well \in BOOLEAN : Ended(well)
  /\ UNCHANGED <<lines, failing, file, record, time, counts>>

\* The scheduler's tool is not there, or does not answer in time: whether the
\* command was carried out stays unknown.
Unasked ==
  /\ me.at \in {"read", "write", "look", "command", "probe", "probe_gone"}
  /\ Says("unjudged")
  /\ \/ UNCHANGED <<entry, lines>>
     \/ /\ me.at \in {"write", "command"}
        /\ entry' = [entry EXCEPT ![me.kind] = Wanted]
        /\ lines' = IF me.at = "write" THEN me.kept ELSE lines
  /\ UNCHANGED <<failing, file, record, time, counts>>

\* install: read back before anything is claimed.
Probe ==
  /\ me.at = "probe"
  /\ IF Enabled(me.kind) THEN Goes("record") ELSE Says("no")
  /\ UNCHANGED <<host, time, counts>>

\* A slip: the time of the install is left out.
UndatedRecord == [kind |-> me.kind, every |-> me.every, at |-> Never]

\* A slip: the record keeps what the scheduler makes of it.
EffectiveRecord == [kind |-> me.kind, every |-> Effective(me.kind, me.every), at |-> now]

\* write_record
NewRecord == [kind |-> me.kind, every |-> me.every, at |-> now]

WriteRecord ==
  /\ me.at = "record"
  /\ record' = NewRecord
  /\ Says("installed")
  /\ UNCHANGED <<entry, lines, failing, file, time, counts>>

-----------------------------------------------------------------------------
(* uninstall                                                               *)

Uninstall(k) ==
  Begin("uninstall", k, 0, FirstAsk(k))

\* The payload goes too, if it carries the marker.
Clean ==
  /\ me.at = "clean"
  /\ file' = IF file[me.kind].marked THEN [file EXCEPT ![me.kind] = NoFile] ELSE file
  /\ Goes("forget")
  /\ UNCHANGED <<entry, lines, failing, record, time, counts>>

Forget ==
  /\ me.at = "forget"
  /\ record' = NoRecord
  /\ Goes("probe_gone")
  /\ UNCHANGED <<entry, lines, failing, file, time, counts>>

\* A slip: nothing is read back.
ProbeNothing ==
  /\ me.at = "probe_gone"
  /\ Says("gone")
  /\ UNCHANGED <<host, time, counts>>

ProbeGone ==
  /\ me.at = "probe_gone"
  /\ me' = [me EXCEPT !.at = "idle", !.said = IF Present(me.kind) THEN "no" ELSE "gone",
                      !.blind = me.kind \in failing]
  /\ UNCHANGED <<host, time, counts>>

-----------------------------------------------------------------------------
(* Everything else                                                         *)

\* Something that happens to a verb, or between two.
Touch == touches < MaxTouches /\ touches' = touches + 1 /\ touched' = TRUE /\ UNCHANGED verbs

Dies ==
  /\ me.at # "idle"
  /\ Touch
  /\ Says("died")
  /\ UNCHANGED <<host, time>>

\* `crontab -e` by the user: a line of theirs, or ours.
EditLines ==
  /\ "cron" \in Kinds \ failing
  /\ Touch
  /\ \E l \in Lines :
       /\ lines' = IF l \in lines THEN lines \ {l} ELSE lines \cup {l}
       /\ me' = [me EXCEPT !.unread = IF me.at = "write" THEN @ \cup {l} ELSE @]
  /\ UNCHANGED <<entry, failing, file, record, time>>

EditOurs ==
  /\ Touch
  /\ \E k \in Kinds :
       /\ entry[k].by = "us"
       /\ \/ entry' = [entry EXCEPT ![k] = NoEntry]
          \/ k # "cron" /\ entry' = [entry EXCEPT ![k].on = FALSE]
  /\ UNCHANGED <<lines, failing, file, record, time, me>>

\* A spool is closed, a session bus is gone, a service is stopped - or back.
Fails ==
  /\ Touch
  /\ \E k \in Kinds : failing' = IF k \in failing THEN failing \ {k} ELSE failing \cup {k}
  /\ UNCHANGED <<entry, lines, file, record, time, me>>

\* A payload is cut short, with or without its marker, or removed.
Damage ==
  /\ Touch
  /\ \E k \in Kinds :
       /\ file[k].marked
       /\ file' \in {[file EXCEPT ![k] = NoFile], [file EXCEPT ![k].intact = FALSE],
                     [file EXCEPT ![k] = Foreign]}
  /\ UNCHANGED <<entry, lines, failing, record, time, me>>

\* The scheduler starts a pass; it gets to its tick row if the payload is
\* whole.  The last row is that of the latest day file, not of the latest pass.
Fires ==
  /\ \E k \in Kinds : entry[k].by = "us" /\ entry[k].on /\ (HasFile(k) => file[k].intact /\ file[k].marked)
  /\ fired' = now
  /\ ticks' = [ticks EXCEPT !.clock = IF @ # Never /\ DayOf(@) > DayOf(now) THEN @ ELSE now]
  /\ UNCHANGED <<host, now, lock, me, counts>>

\* Something beside a verb that changes nothing it works on.
Beside == touches < MaxTouches /\ touches' = touches + 1 /\ UNCHANGED <<host, me, verbs, touched>>

HandPass ==
  /\ Beside
  /\ ticks' = [ticks EXCEPT !.hand = now]
  /\ UNCHANGED <<now, fired, lock>>

\* A job's lock is taken by a wake, and given back.
Lock ==
  /\ Beside
  /\ lock' \in {"free", "pass", "manual", "detached"} \ {lock}
  /\ UNCHANGED <<now, ticks, fired>>

Tick ==
  /\ now < MaxNow
  /\ now' = now + 1
  /\ UNCHANGED <<host, ticks, fired, lock, me, counts>>

StepBack ==
  /\ now > 0
  /\ Beside
  /\ now' = now - 1
  /\ UNCHANGED <<ticks, fired, lock>>

-----------------------------------------------------------------------------
Verb ==
  \/ \E k \in Kinds, e \in Everies : Install(k, e) \/ InstallClock(k, e)
  \/ \E k \in Kinds : Uninstall(k)
  \/ WritePayload \/ ReadCrontab \/ WriteCrontab \/ Look \/ Command \/ Unasked \/ Probe
  \/ WriteRecord
  \/ Clean \/ Forget \/ ProbeGone

Else ==
  \/ Dies \/ EditLines \/ EditOurs \/ Fails \/ Damage \/ Fires \/ HandPass \/ Lock
  \/ Tick \/ StepBack

Next == Verb \/ Else

Spec == Init /\ [][Next]_vars

-----------------------------------------------------------------------------
(* Properties                                                              *)

FiresWhole(k) == entry[k].by # "nobody" /\ entry[k].on /\ (HasFile(k) => file[k].marked /\ file[k].intact)

\* A tick row of a later day than the last pass, left by a clock that was set
\* back: the last row that last_tick finds until that day is over.
LateRow == fired # Never /\ DayOf(ticks.clock) > DayOf(fired)

\* `install --check` answers 0 only for an entry that is there, enabled and
\* whole, and that started a pass within its bound - or while a wake that no
\* detached child holds excuses it, or a tick row of a later day does; and it
\* never answers 1 to a clock that fires as often as its scheduler can, if the
\* scheduler answers, no tick row is of a time to come, and the last pass is
\* no older than the days of the ledger that last_tick reads (check, 1515-1629,
\* last_tick 1461-1477).
CheckTellsTheClock ==
  LET k == record.kind IN
  record # NoRecord =>
    /\ CheckVerdict = 0 =>
         /\ FiresWhole(k)
         /\ \/ fired <= now /\ now <= fired + Bound(record)
            \/ lock \in {"pass", "manual"}
            \/ LateRow
    /\ FiresWhole(k) /\ ~Changed(k) /\ k \notin failing
       /\ fired <= now /\ now <= fired + Effective(k, record.every)
       /\ ticks.clock <= now /\ now <= fired + Window * Day
       => CheckVerdict = 0

\* What an install reports done is current for install-clock, which would do
\* nothing, and no check finds it broken, until something else changes
\* (install 1329-1386 against _clock_is_current 3085-3130).
InstalledIsCurrent ==
  me.said = "installed" /\ ~touched =>
    Current(me.kind, me.every) /\ Structure(me.kind) = 0

\* A verb changes nothing that is not awrise's: an entry of another adapter, a
\* task or a payload without our marks, or a line of the crontab - but for what
\* the user edits between the read and the write of the crontab, which is lost,
\* for a task when the query for its owner failed, and for a timer or an agent
\* under our name, whose owner no verb asks for (_existing_crontab,
\* refuse_foreign_file, foreign_entries).
ForeignThingsSurvive ==
  [][me.at # "idle" /\ touches' = touches =>
       /\ (lines \ lines') \cup (lines' \ lines) \subseteq me.unread
       /\ \A k \in Kinds :
            /\ entry[k].by = "them" /\ (k = me.kind => k = "task" /\ ~me.blind) => entry'[k] = entry[k]
            /\ file[k] = Foreign => file'[k] = file[k]]_vars

\* An uninstall that reports the entry gone has seen that it is, whatever
\* became of its commands - unless the query it saw it by failed, which reads
\* as gone for every scheduler (uninstall 1424-1459, probe 1008-1038).
GoneIsGone ==
  me.said = "gone" /\ ~me.blind /\ ~touched => entry[me.kind].by = "nobody"

\* hostclock.py:1079-1081: "a host that already has a task called awrise would
\* have it overwritten by an install and destroyed by an uninstall, with no way
\* back".  No owner is asked for of a timer or an agent, and a task's query
\* that fails shows none.
NoForeignEntryIsLost ==
  [][me.at # "idle" =>
       \A k \in Kinds : entry[k].by = "them" => entry'[k].by = "them"]_vars

\* hostclock.py:1516: "0 the clock is installed and ticking, 1 a measured NO".  A
\* clock with an interval of more days than last_tick reads is answered 1 while
\* it fires on time.
SlowClockIsTold ==
  LET k == record.kind IN
  record # NoRecord /\ FiresWhole(k) /\ ~Changed(k) /\ k \notin failing /\ ticks.clock <= now
    /\ fired <= now /\ now <= fired + Effective(k, record.every) => CheckVerdict = 0

\* README.md:51-54: install-clock does nothing when it "finds the same entry,
\* the same interval".  The interval of the entry is never read back, only
\* that of the record, and an install that dies in between changes one alone.
CurrentIsTrue == me.said = "current" /\ ~touched => entry[me.kind].every = me.every

\* hostclock.py:1009-1010: "an unaskable scheduler is UNJUDGED, never a pass".
\* A query that fails reads as no entry, whatever the scheduler.
GoneIsSeen == me.said = "gone" => ~me.blind

\* hostclock.py:1494, 1512: live_locks names locks "held by a PASS that is
\* running right now".  A manual run excuses a clock that has stopped too.
ZeroMeansTicking ==
  record # NoRecord /\ CheckVerdict = 0 =>
    (fired <= now /\ now <= fired + Bound(record)) \/ lock = "pass" \/ LateRow

=============================================================================
