--------------------------- MODULE AwriseStampProofs --------------------------
(***************************************************************************)
(* What the stamps in jobs.json are worth, for any number of jobs and      *)
(* invocations.  Once a pass has reconciled, jobs.json is behind no row of *)
(* the ledger; the failure streak counts wakes, each once; a clock-skew    *)
(* row is the sign of a step of the clock backwards, one row for each.     *)
(***************************************************************************)
EXTENDS AwriseRefireProofs

\* No row is later than t.
Until(rows, t) == \A i \in DOMAIN rows : rows[i].ts <= t

\* Row i ends a wake of the job in a state that stamps.
Stamping(rows, j, i) ==
  rows[i].event = "finished" /\ rows[i].job = j /\ rows[i].state \notin UnstampedStates

\* The record is not behind the start of the wake that row i ends: what its
\* started row says, or the row itself when it was not begun.
Met(rows, r, i) ==
  /\ \A k \in DOMAIN rows :
       rows[k].event = "started" /\ rows[k].wake = rows[i].wake => r.started >= rows[k].ts
  /\ \/ \E k \in DOMAIN rows : rows[k].event = "started" /\ rows[k].wake = rows[i].wake
     \/ r.started >= rows[i].ts

Caught(rows, r, j) == \A i \in DOMAIN rows : Stamping(rows, j, i) => Met(rows, r, i)

\* ... or the stamp of the last row is missing, and the record shows that it is.
Nearly(rows, r, j) ==
  \A i \in DOMAIN rows :
    Stamping(rows, j, i) => Met(rows, r, i) \/ (i = Len(rows) /\ r.wake # rows[i].wake)

\* The pass has the jobs of jobs.json; or a failure has taken its memory, and it
\* is on its way out.
Whole(store, m) == \A j \in Jobs : m.mem[j] = NoJob <=> store[j] = NoJob
Leaving == {"start", "load", "unlock", "loop", "end"} \cup Ended

\* Until the end of reconcile at most the stamp of the last row is missing, and
\* that row is among those it reads; behind it none is, but in jobs.json that of
\* the job about to be saved.  A wake starts later than every row before it.
Ahead(store, rows, m) ==
  /\ Whole(store, m) \/ (Lost(m) /\ m.pc \in Leaving)
  /\ m.pc \in {"rows", "close"} =>
       \A j \in Jobs : m.mem[j] # NoJob =>
         /\ Nearly(rows, m.mem[j], j)
         /\ m.pc = "close" => Caught(rows, m.mem[j], j) \/ m.rows = Len(rows)
  /\ m.pc \notin {"rows", "close"} =>
       \A j \in Jobs : m.mem[j] # NoJob => Caught(rows, m.mem[j], j)
  /\ m.pc \notin {"rows", "close", "save"} /\ ~Lost(m) =>
       \A j \in Jobs \ m.touched : store[j] # NoJob => Caught(rows, store[j], j)
  /\ m.pc \in AtWake => Until(rows, m.started)

\* The inductive invariant of a clock that has not stepped.
CaughtInv ==
  /\ Until(ledger, now)
  /\ \A j \in Jobs : disk[j] # NoJob => Nearly(ledger, disk[j], j)
  /\ \A p \in RunDue : proc[p].pc \in AtWake => proc[p].started <= now
  /\ \A p \in RunDue : Ahead(disk, ledger, proc[p])

-----------------------------------------------------------------------------
(* Rows and records                                                        *)

\* A start later than every row is behind none.
LEMMA LateIsCaught ==
  ASSUME NEW rows \in Seq(Rows), NEW t \in Nat, Until(rows, t), NEW r, r.started \in Nat,
         r.started >= t, NEW j
  PROVE  Caught(rows, r, j)
<1>1. \A i \in DOMAIN rows : rows[i].ts \in Nat
  BY DEF Rows
<1>2. \A i \in DOMAIN rows : r.started >= rows[i].ts
  BY <1>1 DEF Until
<1> QED BY <1>2 DEF Caught, Met

\* A later start is behind no row that an earlier one is not behind.
LEMMA LaterIsCaught ==
  ASSUME NEW rows \in Seq(Rows), NEW r, NEW n, r.started \in Nat, n.started \in Nat,
         n.started >= r.started, NEW j, Caught(rows, r, j)
  PROVE  Caught(rows, n, j)
<1>1. \A i \in DOMAIN rows : rows[i].ts \in Nat
  BY DEF Rows
<1>2. \A i \in DOMAIN rows : r.started >= rows[i].ts => n.started >= rows[i].ts
  BY <1>1
<1> QED BY <1>2 DEF Caught, Met

LEMMA SameIsCaught ==
  ASSUME NEW rows, NEW r, NEW n, n.started = r.started, NEW j, Caught(rows, r, j)
  PROVE  Caught(rows, n, j)
BY DEF Caught, Met

LEMMA CaughtIsNearly ==
  ASSUME NEW rows, NEW r, NEW j, Caught(rows, r, j)
  PROVE  Nearly(rows, r, j)
BY DEF Caught, Nearly

\* Nothing is missing while the last row starts a wake.
LEMMA NearlyIsCaught ==
  ASSUME NEW rows, NEW r, NEW j, Nearly(rows, r, j), ~Stamping(rows, j, Len(rows))
  PROVE  Caught(rows, r, j)
BY DEF Caught, Nearly

\* One row more: what was met is met, unless the row starts the same wake again.
LEMMA MetMore ==
  ASSUME NEW rows \in Seq(Rows), NEW row \in Rows, NEW r, NEW i \in DOMAIN rows, Met(rows, r, i),
         row.event = "started" => row.wake # rows[i].wake
  PROVE  Met(Append(rows, row), r, i)
<1> DEFINE more == Append(rows, row)
<1>1. /\ \A k \in DOMAIN rows : k \in DOMAIN more /\ more[k] = rows[k]
      /\ more[Len(more)] = row
      /\ \A k \in DOMAIN more : k \in DOMAIN rows \/ k = Len(more)
  BY RowMore
<1> HIDE DEF more
<1>2. Met(more, r, i)
  BY <1>1 DEF Met
<1> QED BY <1>2 DEF more

\* A row that stamps no record of the job.
LEMMA CaughtMore ==
  ASSUME NEW rows \in Seq(Rows), NEW row \in Rows, NEW r, NEW j, Caught(rows, r, j),
         row.event = "started" => ~FinishedIn(rows, row.wake),
         ~(row.event = "finished" /\ row.job = j /\ row.state \notin UnstampedStates)
  PROVE  Caught(Append(rows, row), r, j)
<1> DEFINE more == Append(rows, row)
<1> SUFFICES ASSUME NEW i \in DOMAIN more, Stamping(more, j, i) PROVE Met(more, r, i)
  BY DEF Caught
<1>1. /\ \A k \in DOMAIN rows : more[k] = rows[k]
      /\ more[Len(more)] = row
      /\ i \in DOMAIN rows \/ i = Len(more)
  BY RowMore
<1> HIDE DEF more
<1>2. i \in DOMAIN rows /\ Stamping(rows, j, i)
  BY <1>1 DEF Stamping
<1>3. row.event = "started" => row.wake # rows[i].wake
  BY <1>2 DEF Stamping, FinishedIn
<1> QED BY <1>2, <1>3, MetMore DEF Caught, more

\* A row that ends a wake the record does not name.
LEMMA NearlyMore ==
  ASSUME NEW rows \in Seq(Rows), NEW row \in Rows, NEW r, NEW j, Caught(rows, r, j),
         row.event = "finished", row.wake # r.wake
  PROVE  Nearly(Append(rows, row), r, j)
<1> DEFINE more == Append(rows, row)
<1> SUFFICES ASSUME NEW i \in DOMAIN more, Stamping(more, j, i)
             PROVE  Met(more, r, i) \/ (i = Len(more) /\ r.wake # more[i].wake)
  BY DEF Nearly
<1>1. /\ \A k \in DOMAIN rows : more[k] = rows[k]
      /\ more[Len(more)] = row
      /\ i \in DOMAIN rows \/ i = Len(more)
  BY RowMore
<1> HIDE DEF more
<1>2. CASE i \in DOMAIN rows
  <2>1. Stamping(rows, j, i)
    BY <1>1, <1>2 DEF Stamping
  <2> QED BY <1>2, <2>1, MetMore DEF Caught, more
<1>3. CASE i = Len(more)
  BY <1>1, <1>3
<1> QED BY <1>1, <1>2, <1>3

\* The row that ends a wake, and a record that is not behind its start.
LEMMA CaughtUpMore ==
  ASSUME NEW rows \in Seq(Rows), NEW row \in Rows, row.event = "finished", OnceInv(rows),
         NEW r, NEW j, r.started \in Nat, Caught(rows, r, j),
         \/ \E k \in DOMAIN rows : /\ rows[k].event = "started" /\ rows[k].wake = row.wake
                                   /\ r.started >= rows[k].ts
         \/ r.started >= row.ts /\ Until(rows, row.ts)
  PROVE  Caught(Append(rows, row), r, j)
<1> DEFINE more == Append(rows, row)
<1> SUFFICES ASSUME NEW i \in DOMAIN more, Stamping(more, j, i) PROVE Met(more, r, i)
  BY DEF Caught
<1>1. /\ \A k \in DOMAIN rows : k \in DOMAIN more /\ more[k] = rows[k]
      /\ more[Len(more)] = row
      /\ \A k \in DOMAIN more : k \in DOMAIN rows \/ k = Len(more)
  BY RowMore
<1>2. row.ts \in Nat /\ \A k \in DOMAIN rows : rows[k].ts \in Nat
  BY DEF Rows
<1>3. Caught(rows, r, j) <=> \A k \in DOMAIN rows : Stamping(rows, j, k) => Met(rows, r, k)
  BY DEF Caught
<1> HIDE DEF more
<1>4. CASE i \in DOMAIN rows
  <2>1. Stamping(rows, j, i)
    BY <1>1, <1>4 DEF Stamping
  <2> QED BY <1>3, <1>4, <2>1, MetMore DEF more
<1>5. CASE i = Len(more)
  <2>1. CASE \E k \in DOMAIN rows : /\ rows[k].event = "started" /\ rows[k].wake = row.wake
                                    /\ r.started >= rows[k].ts
    <3>1. PICK k \in DOMAIN rows : /\ rows[k].event = "started" /\ rows[k].wake = row.wake
                                   /\ r.started >= rows[k].ts
      BY <2>1
    <3>2. \A x \in DOMAIN rows : rows[x].event = "started" /\ rows[x].wake = row.wake => x = k
      BY <3>1 DEF OnceInv
    <3> QED BY <1>1, <1>5, <3>1, <3>2 DEF Met
  <2>2. CASE r.started >= row.ts /\ Until(rows, row.ts)
    <3>1. \A k \in DOMAIN rows : r.started >= rows[k].ts
      BY <1>2, <2>2 DEF Until
    <3> QED BY <1>1, <1>5, <2>2, <3>1 DEF Met
  <2> QED BY <2>1, <2>2
<1> QED BY <1>1, <1>4, <1>5

\* A record names no wake that is not over.
LEMMA NamesAnother ==
  ASSUME NEW rows, NEW r, Good(rows, r), NEW w \in Wakes, ~FinishedIn(rows, w)
  PROVE  r.wake # w
BY RecordsAssumption DEF Good, Knows

-----------------------------------------------------------------------------
(* What a step must do                                                     *)

\* A pass that has lost its memory claims nothing.
LEMMA LostAhead ==
  ASSUME NEW store, NEW rows, NEW m, Lost(m), m.pc \in Leaving
  PROVE  Ahead(store, rows, m)
BY DEF Ahead, Lost, Leaving, Ended, AtWake

LEMMA FreshAhead ==
  ASSUME NEW store, NEW rows, NEW pc \in Leaving, NEW cur
  PROVE  Ahead(store, rows, Fresh(pc)) /\ Ahead(store, rows, [Fresh(pc) EXCEPT !.cur = cur])
<1> DEFINE m == Fresh(pc)
           n == [Fresh(pc) EXCEPT !.cur = cur]
<1>1. m.pc = pc /\ \A j \in Jobs : m.mem[j] = NoJob
  BY DEF Fresh
<1>2. n.pc = pc /\ \A j \in Jobs : n.mem[j] = NoJob
  BY DEF Fresh
<1> HIDE DEF m, n
<1>3. Ahead(store, rows, m) /\ Ahead(store, rows, n)
  BY <1>1, <1>2, LostAhead DEF Lost
<1> QED BY <1>3 DEF m, n

\* What a step of a pass must do to keep the invariant.
LEMMA CaughtGoesOn ==
  ASSUME TypeInv, RefireInv, CaughtInv, now' = now, NEW p \in RunDue, NEW m, Becomes(p, m),
         (disk' = disk /\ ledger' = ledger) \/ (\A q \in RunDue \ {p} : ~Alive(q)),
         Until(ledger', now), \A j \in Jobs : disk'[j] # NoJob => Nearly(ledger', disk'[j], j),
         m.pc \in AtWake => m.started <= now, m.pc # "done" => Ahead(disk', ledger', m)
  PROVE  CaughtInv'
<1>0. p \in Procs /\ RunDue \subseteq Procs
  BY PassAssumption
<1>1. Ahead(disk', ledger', proc'[p]) /\ (proc'[p].pc \in AtWake => proc'[p].started <= now)
  <2>1. Ahead(disk', ledger', Fresh("done"))
    BY FreshAhead DEF Leaving, Ended
  <2>2. CASE m.pc = "done"
    <3>1. proc'[p] = Fresh("done") /\ proc'[p].pc = "done"
      BY <1>0, <2>2, OthersStay
    <3> QED BY <2>1, <3>1 DEF AtWake
  <2>3. CASE m.pc # "done"
    <3>1. proc'[p] = m
      BY <1>0, <2>3, OthersStay
    <3> QED BY <2>3, <3>1
  <2> QED BY <2>2, <2>3
<1>2. ASSUME NEW q \in RunDue \ {p}
      PROVE  Ahead(disk', ledger', proc'[q]) /\ (proc'[q].pc \in AtWake => proc'[q].started <= now)
  <2>1. proc'[q] = proc[q] /\ Ahead(disk, ledger, proc[q]) /\ Rule(disk, ledger, proc[q])
        /\ (proc[q].pc \in AtWake => proc[q].started <= now)
    BY <1>0, OthersStay DEF RefireInv, CaughtInv
  <2>2. CASE disk' = disk /\ ledger' = ledger
    BY <2>1, <2>2
  <2>3. CASE ~Alive(q)
    <3>1. proc[q].pc \in {"start", "done", "gone"}
      BY <2>3 DEF Alive
    <3>2. Lost(proc[q]) /\ proc[q].pc \in Leaving
      BY <2>1, <3>1 DEF Rule, Ended, Leaving
    <3> QED BY <2>1, <3>2, LostAhead
  <2> QED BY <2>2, <2>3
<1> QED BY <1>1, <1>2 DEF CaughtInv

\* A step that leaves jobs.json and the ledger alone.
LEMMA CaughtMoves ==
  ASSUME TypeInv, RefireInv, CaughtInv, now' = now, NEW p \in RunDue, NEW m, Becomes(p, m),
         disk' = disk, ledger' = ledger, m.pc \in AtWake => m.started <= now,
         m.pc # "done" => Ahead(disk, ledger, m)
  PROVE  CaughtInv'
BY CaughtGoesOn DEF CaughtInv

\* Behind reconcile a pass moves on with what it has in memory.
LEMMA AheadMoves ==
  ASSUME NEW store, NEW rows, NEW me, NEW m, Ahead(store, rows, me), me.touched = {},
         me.pc \notin {"rows", "close", "save"}, m.mem = me.mem,
         m.pc \notin {"rows", "close", "save"},
         Lost(me) /\ me.pc \in Leaving => m.pc \in Leaving,
         m.pc \in AtWake => Until(rows, m.started)
  PROVE  Ahead(store, rows, m)
BY DEF Ahead, Whole, Lost

\* A pass begins, fails, dies or is over: it has nothing in memory.
LEMMA EndCaught ==
  ASSUME TypeInv, WriterInv, RefireInv, CaughtInv, NEW p \in RunDue,
         StartPass(p) \/ Fail(p) \/ Die(p) \/ EndPass(p)
  PROVE  CaughtInv'
<1> DEFINE me == proc[p]
<1>0. /\ p \in Procs /\ me \in Locals /\ Rule(disk, ledger, me)
      /\ disk' = disk /\ ledger' = ledger /\ now' = now
  <2>1. disk' = disk /\ ledger' = ledger /\ now' = now
    BY DEF StartPass, Fail, Die, EndPass, files, world
  <2> QED BY <2>1, PassAssumption DEF TypeInv, TypeOK, RefireInv
<1>1. CASE StartPass(p)
  <2>1. PICK pc \in {"done", "load"} : Becomes(p, [me EXCEPT !.pc = pc])
    BY <1>1 DEF StartPass, Goto
  <2> DEFINE n == [me EXCEPT !.pc = pc]
  <2>2. Becomes(p, n) /\ Lost(me)
    BY <1>0, <1>1, <2>1 DEF StartPass, At, Rule
  <2> HIDE DEF me
  <2>3. n.pc = pc /\ n.mem = me.mem
    BY <1>0, LocalsFields
  <2> HIDE DEF n
  <2>4. Ahead(disk, ledger, n) /\ n.pc \notin AtWake
    BY <2>2, <2>3, LostAhead DEF Lost, Leaving, Ended, AtWake
  <2> QED BY <1>0, <2>2, <2>4, CaughtMoves
<1>2. ASSUME NEW pc \in {"unlock", "end", "done", "gone"}, NEW cur,
             Becomes(p, Fresh(pc)) \/ Becomes(p, [Fresh(pc) EXCEPT !.cur = cur])
      PROVE  CaughtInv'
  <2> DEFINE m == Fresh(pc)
             n == [Fresh(pc) EXCEPT !.cur = cur]
  <2>1. m.pc = pc /\ n.pc = pc
    BY DEF Fresh
  <2>2. Ahead(disk, ledger, m) /\ Ahead(disk, ledger, n)
    BY FreshAhead DEF Leaving, Ended
  <2>3. Becomes(p, m) \/ Becomes(p, n)
    BY <1>2
  <2> HIDE DEF m, n
  <2>4. m.pc \notin AtWake /\ n.pc \notin AtWake
    BY <2>1 DEF AtWake
  <2> QED BY <1>0, <2>2, <2>3, <2>4, CaughtMoves
<1>3. CASE Fail(p)
  <2>1. PICK pc \in {"unlock", "end"} : Becomes(p, [Fresh(pc) EXCEPT !.cur = me.cur])
    BY <1>3 DEF Fail
  <2> QED BY <1>2, <2>1
<1>4. CASE Die(p) \/ EndPass(p)
  <2>1. Becomes(p, Fresh("gone")) \/ Becomes(p, Fresh("done"))
    BY <1>4 DEF Die, EndPass
  <2> QED BY <1>2, <2>1
<1> QED BY <1>1, <1>3, <1>4

\* A pass loads the store, and reads the ledger.
LEMMA ReadCaught ==
  ASSUME TypeInv, WriterInv, RefireInv, CaughtInv, NEW p \in RunDue, Load(p) \/ ReadRows(p)
  PROVE  CaughtInv'
<1> DEFINE me == proc[p]
<1>0. /\ p \in Procs /\ me \in Locals /\ ledger \in Seq(Rows) /\ Ahead(disk, ledger, me)
      /\ disk' = disk /\ ledger' = ledger /\ now' = now
  <2>1. disk' = disk /\ ledger' = ledger /\ now' = now
    BY DEF Load, ReadRows, files, world
  <2> QED BY <2>1, PassAssumption DEF TypeInv, TypeOK, CaughtInv
<1>1. CASE Load(p)
  <2> DEFINE n == [me EXCEPT !.mem = disk, !.pc = "rows"]
  <2>1. Becomes(p, n)
    BY <1>1 DEF Load
  <2> HIDE DEF me
  <2>2. n.pc = "rows" /\ n.mem = disk
    BY <1>0, LocalsFields
  <2> HIDE DEF n
  <2>3. Ahead(disk, ledger, n) /\ n.pc \notin AtWake
    BY <2>2 DEF Ahead, Whole, CaughtInv, AtWake
  <2> QED BY <1>0, <2>1, <2>3, CaughtMoves
<1>2. CASE ReadRows(p)
  <2> DEFINE n == [me EXCEPT !.rows = Len(ledger), !.scan = 1, !.pc = "close"]
  <2>1. Becomes(p, n) /\ me.pc = "rows"
    BY <1>2 DEF ReadRows, At
  <2> HIDE DEF me
  <2>2. n.pc = "close" /\ n.mem = me.mem /\ n.rows = Len(ledger)
    BY <1>0, LocalsFields
  <2> HIDE DEF n
  <2>3. Whole(disk, n)
    BY <1>0, <2>1, <2>2 DEF Ahead, Whole, Leaving, Ended
  <2>4. Ahead(disk, ledger, n) /\ n.pc \notin AtWake
    BY <1>0, <2>1, <2>2, <2>3 DEF Ahead, AtWake
  <2> QED BY <1>0, <2>1, <2>4, CaughtMoves
<1> QED BY <1>1, <1>2

\* The steps of the loop that write nothing: its begin, a job passed over, a
\* card looked at or raised, the executor started, the lock let go.  They leave
\* the memory of the pass as it is.
LEMMA TurnMoves ==
  ASSUME TypeInv, WriterInv, NEW p \in RunDue, Alive(p),
         \/ EnterLoop(p) \/ PassOver(p) \/ CardAnswer(p) \/ Notify(p) \/ TakeLock(p)
         \/ Spawn(p) \/ Unlock(p)
  PROVE  \E n : /\ Becomes(p, n) /\ n.mem = proc[p].mem
                /\ n.pc \notin {"rows", "close", "save", "done"}
                /\ Lost(proc[p]) /\ proc[p].pc \in Leaving => n.pc = "loop"
                /\ n.pc \in {"spawn", "wait"} =>
                     n.cur = proc[p].cur /\ n.started = proc[p].started /\ proc[p].pc = "spawn"
                /\ n.pc \in AtWake =>
                     n.started = now \/ (n.started = proc[p].started /\ proc[p].pc \in AtWake)
<1> DEFINE me == proc[p]
<1> SUFFICES \E n : /\ Becomes(p, n) /\ n.mem = me.mem
                    /\ n.pc \notin {"rows", "close", "save", "done"}
                    /\ Lost(me) /\ me.pc \in Leaving => n.pc = "loop"
                    /\ n.pc \in {"spawn", "wait"} =>
                         n.cur = me.cur /\ n.started = me.started /\ me.pc = "spawn"
                    /\ n.pc \in AtWake =>
                         n.started = now \/ (n.started = me.started /\ me.pc \in AtWake)
  OBVIOUS
<1>0. p \in Procs /\ me \in Locals
  BY PassKnows
<1>1. CASE EnterLoop(p)
  <2> DEFINE todo == {j \in Jobs : me.mem[j] # NoJob}
             n == [me EXCEPT !.todo = todo, !.at = now, !.pc = "loop"]
  <2>1. Becomes(p, n)
    BY <1>1 DEF EnterLoop
  <2> HIDE DEF me, todo
  <2>2. n.pc = "loop" /\ n.mem = me.mem
    BY <1>0, LocalsFields
  <2> HIDE DEF n
  <2> QED BY <2>1, <2>2 DEF AtWake
<1>2. CASE PassOver(p)
  <2>1. PICK j \in Jobs : Becomes(p, [me EXCEPT !.todo = @ \ {j}, !.pc = "loop"])
    BY <1>2 DEF PassOver
  <2> DEFINE n == [me EXCEPT !.todo = @ \ {j}, !.pc = "loop"]
  <2>2. Becomes(p, n)
    BY <2>1
  <2> HIDE DEF me
  <2>3. n.pc = "loop" /\ n.mem = me.mem
    BY <1>0, LocalsFields
  <2> HIDE DEF n
  <2> QED BY <2>2, <2>3 DEF AtWake
<1>3. CASE CardAnswer(p)
  <2> DEFINE j == Min(me.todo)
  <2>1. /\ me.todo # {} /\ me.mem[j] # NoJob
        /\ \/ Becomes(p, [me EXCEPT !.pc = "judge"])
           \/ \E disable \in BOOLEAN :
                Becomes(p, [me EXCEPT
                  !.put = [job |-> j, report |-> [me.mem[j].report EXCEPT !.card = "spent"],
                           disable |-> disable],
                  !.touched = {j}, !.pc = "reload", !.ret = "judge"])
    BY <1>3 DEF CardAnswer, Goto
  <2>2. ~Lost(me)
    <3>1. me.todo \in SUBSET Jobs /\ me.todo \in SUBSET Nat
      BY <1>0, LocalsFields DEF Jobs
    <3> HIDE DEF me
    <3>2. j \in Jobs
      BY <2>1, <3>1, MinIn
    <3> HIDE DEF j
    <3> QED BY <2>1, <3>2 DEF Lost
  <2>3. CASE Becomes(p, [me EXCEPT !.pc = "judge"])
    <3> DEFINE n == [me EXCEPT !.pc = "judge"]
    <3>1. Becomes(p, n)
      BY <2>3
    <3> HIDE DEF me
    <3>2. n.pc = "judge" /\ n.mem = me.mem
      BY <1>0, LocalsFields
    <3> HIDE DEF n
    <3> QED BY <2>2, <3>1, <3>2 DEF AtWake
  <2>4. ASSUME NEW put,
               Becomes(p, [me EXCEPT !.put = put, !.touched = {j}, !.pc = "reload", !.ret = "judge"])
        PROVE  \E n : Becomes(p, n) /\ n.mem = me.mem /\ n.pc = "reload"
    <3> DEFINE n == [me EXCEPT !.put = put, !.touched = {j}, !.pc = "reload", !.ret = "judge"]
    <3>1. Becomes(p, n)
      BY <2>4
    <3> HIDE DEF me
    <3>2. n.pc = "reload" /\ n.mem = me.mem
      BY <1>0, LocalsFields
    <3> HIDE DEF n
    <3> QED BY <3>1, <3>2
  <2> HIDE DEF me, j
  <2>5. CASE ~Becomes(p, [me EXCEPT !.pc = "judge"])
    <3>1. \E n : Becomes(p, n) /\ n.mem = me.mem /\ n.pc = "reload"
      BY <2>1, <2>4, <2>5
    <3> QED BY <2>2, <3>1 DEF AtWake
  <2> QED BY <2>3, <2>5
<1>4. CASE Notify(p)
  <2> DEFINE j == Min(me.notices)
             m == [me EXCEPT !.notices = @ \ {j}]
             pc == AfterSave(m)
  <2>1. \/ \E card \in {"none", "open", "spent"} :
             Becomes(p, [m EXCEPT
               !.put = [job |-> j, report |-> [me.mem[j].report EXCEPT !.card = card],
                        disable |-> FALSE],
               !.touched = {j}, !.pc = "reload"])
        \/ Becomes(p, [m EXCEPT !.pc = pc])
    BY <1>4 DEF Notify
  <2>2. me.pc = "notify" /\ me.ret \in {"enter", "judge", "gate", "loop", "unlock"}
    BY <1>4, PassKnows DEF Notify, At, Placed, Saving
  <2>3. m.mem = me.mem /\ m.ret = me.ret /\ m \in Locals
    <3> HIDE DEF me, j
    <3> QED BY <1>0, LocalsFields
  <2>4. pc \in {"notify", me.ret}
    BY <2>3 DEF AfterSave
  <2>5. CASE Becomes(p, [m EXCEPT !.pc = pc])
    <3> DEFINE n == [m EXCEPT !.pc = pc]
    <3>1. Becomes(p, n)
      BY <2>5
    <3> HIDE DEF me, m, pc
    <3>2. n.pc = pc /\ n.mem = m.mem
      BY <2>3, LocalsFields
    <3> HIDE DEF n
    <3> QED BY <2>2, <2>3, <2>4, <3>1, <3>2 DEF AtWake, Leaving, Ended
  <2>6. ASSUME NEW put, Becomes(p, [m EXCEPT !.put = put, !.touched = {j}, !.pc = "reload"])
        PROVE  \E n : Becomes(p, n) /\ n.mem = me.mem /\ n.pc = "reload"
    <3> DEFINE n == [m EXCEPT !.put = put, !.touched = {j}, !.pc = "reload"]
    <3>1. Becomes(p, n)
      BY <2>6
    <3> HIDE DEF me, m, j
    <3>2. n.pc = "reload" /\ n.mem = m.mem
      BY <2>3, LocalsFields
    <3> HIDE DEF n
    <3> QED BY <2>3, <3>1, <3>2
  <2> HIDE DEF me, j, m, pc
  <2>7. CASE ~Becomes(p, [m EXCEPT !.pc = pc])
    <3>1. \E n : Becomes(p, n) /\ n.mem = me.mem /\ n.pc = "reload"
      BY <2>1, <2>6, <2>7
    <3> QED BY <2>2, <3>1 DEF AtWake, Leaving, Ended
  <2> QED BY <2>5, <2>7
<1>5. CASE TakeLock(p)
  <2> DEFINE w(j) == [proc |-> p, job |-> j, kind |-> "wake"]
  <2>1. PICK j \in Jobs :
          /\ Executes(p, j)
          /\ Becomes(p, [me EXCEPT !.cur = w(j), !.started = now, !.todo = @ \ {j}, !.pc = "recheck"])
    BY <1>5 DEF TakeLock
  <2> DEFINE n == [me EXCEPT !.cur = w(j), !.started = now, !.todo = @ \ {j}, !.pc = "recheck"]
  <2>2. Becomes(p, n) /\ ~Lost(me)
    BY <1>0, <2>1, ExecutesRecord DEF Lost
  <2> HIDE DEF me, w
  <2>3. n.pc = "recheck" /\ n.mem = me.mem /\ n.started = now
    BY <1>0, LocalsFields
  <2> HIDE DEF n
  <2> QED BY <2>2, <2>3
<1>6. CASE Spawn(p)
  <2> DEFINE n == [me EXCEPT !.pc = "wait"]
  <2>1. Becomes(p, n) /\ me.pc = "spawn"
    BY <1>6 DEF Spawn, Goto, At
  <2> HIDE DEF me
  <2>2. n.pc = "wait" /\ n.mem = me.mem /\ n.started = me.started /\ n.cur = me.cur
    BY <1>0, LocalsFields
  <2> HIDE DEF n
  <2> QED BY <2>1, <2>2 DEF AtWake, Leaving, Ended
<1>7. CASE Unlock(p)
  <2> DEFINE n == [me EXCEPT !.cur = NoWake, !.started = 0, !.pc = "loop"]
  <2>1. Becomes(p, n)
    BY <1>7 DEF Unlock
  <2> HIDE DEF me
  <2>2. n.pc = "loop" /\ n.mem = me.mem
    BY <1>0, LocalsFields
  <2> HIDE DEF n
  <2> QED BY <2>1, <2>2 DEF AtWake
<1> QED BY <1>1, <1>2, <1>3, <1>4, <1>5, <1>6, <1>7

\* So what was ahead is.
LEMMA TurnCaught ==
  ASSUME TypeInv, WriterInv, RefireInv, CaughtInv, NEW p \in RunDue, Alive(p),
         \/ EnterLoop(p) \/ PassOver(p) \/ CardAnswer(p) \/ Notify(p) \/ TakeLock(p)
         \/ Spawn(p) \/ Unlock(p)
  PROVE  CaughtInv'
<1> DEFINE me == proc[p]
<1>0. /\ p \in Procs /\ me \in Locals /\ me.started \in Nat /\ now \in Nat
      /\ Ahead(disk, ledger, me) /\ Rule(disk, ledger, me) /\ Until(ledger, now)
      /\ (me.pc \in AtWake => me.started <= now)
      /\ disk' = disk /\ ledger' = ledger /\ now' = now
  <2>1. disk' = disk /\ ledger' = ledger /\ now' = now
    BY DEF EnterLoop, PassOver, CardAnswer, Notify, TakeLock, Spawn, Unlock, files, world
  <2>2. me \in Locals /\ me.started \in Nat /\ now \in Nat /\ p \in Procs
    BY PassKnows, LocalsFields DEF TypeInv, TypeOK
  <2> QED BY <2>1, <2>2 DEF RefireInv, CaughtInv
<1>1. me.pc \in {"enter", "loop", "judge", "gate", "notify", "spawn", "unlock"} /\ me.touched = {}
  <2>1. me.pc \in {"enter", "loop", "judge", "gate", "notify", "spawn", "unlock"}
    <3>1. CASE TakeLock(p)
      <4>1. PICK j \in Jobs : Executes(p, j)
        BY <3>1 DEF TakeLock
      <4> QED BY <4>1, NextJob
    <3>2. CASE ~TakeLock(p)
      BY <3>2 DEF EnterLoop, PassOver, CardAnswer, Notify, Spawn, Unlock, Turn, At
    <3> QED BY <3>1, <3>2
  <2> QED BY <1>0, <2>1 DEF Rule, Touching
<1>2. PICK n : /\ Becomes(p, n) /\ n.mem = me.mem /\ n.pc \notin {"rows", "close", "save", "done"}
               /\ Lost(me) /\ me.pc \in Leaving => n.pc = "loop"
               /\ n.pc \in AtWake => n.started = now \/ (n.started = me.started /\ me.pc \in AtWake)
  BY TurnMoves
<1> HIDE DEF me
<1>3. n.pc \in AtWake => n.started <= now /\ Until(ledger, n.started)
  BY <1>0, <1>2 DEF Ahead
<1>4. Ahead(disk, ledger, n)
  BY <1>0, <1>1, <1>2, <1>3, AheadMoves DEF Leaving
<1> QED BY <1>0, <1>2, <1>3, <1>4, CaughtMoves

\* The merge: nothing that is to be written is gone from jobs.json.
LEMMA ReloadCaught ==
  ASSUME TypeInv, WriterInv, RefireInv, CaughtInv, NEW p \in RunDue, Alive(p), Reload(p)
  PROVE  CaughtInv'
<1> DEFINE me == proc[p]
           merged == Merge(disk, me.mem, me.touched)
           mem == WithPut(merged, me.put)
           m == [me EXCEPT !.mem = mem, !.touched = {}, !.put = NoJob]
           gone == me.put # NoJob /\ merged[me.put.job] = NoJob
           n == [m EXCEPT !.pc = "save"]
<1>0. /\ p \in Procs /\ me \in Locals /\ me.mem \in Stores /\ me.put \in Puts /\ disk \in Stores
      /\ me.touched \in SUBSET Jobs /\ me.pc = "reload" /\ Touching(me) /\ Ahead(disk, ledger, me)
      /\ disk' = disk /\ ledger' = ledger /\ now' = now
  <2>1. disk' = disk /\ ledger' = ledger /\ now' = now /\ me.pc = "reload"
    BY DEF Reload, files, world, At
  <2> QED BY <2>1, PassKnows, LocalsFields DEF RefireInv, Rule, CaughtInv, TypeInv, TypeOK, Stores
<1>1. Whole(disk, me)
  BY <1>0 DEF Ahead, Leaving, Ended
<1>2. ~Lost(me) /\ me.touched # {} /\ \A j \in me.touched : me.mem[j] # NoJob /\ disk[j] # NoJob
  <2>1. me.touched # {} /\ \A j \in me.touched : me.mem[j] # NoJob
    BY <1>0 DEF Touching
  <2> QED BY <1>0, <1>1, <2>1 DEF Whole, Lost
\* The start of each record is that of memory or that of jobs.json.
<1>3. ASSUME NEW j \in Jobs
      PROVE  /\ merged[j] = NoJob <=> disk[j] = NoJob
             /\ merged[j] # NoJob => Caught(ledger, merged[j], j)
  <2>1. merged[j] = IF j \in me.touched /\ disk[j] # NoJob /\ me.mem[j] # NoJob
                      THEN Overlay(disk[j], me.mem[j]) ELSE disk[j]
    BY DEF Merge
  <2> HIDE DEF merged
  <2>2. CASE j \in me.touched
    <3> DEFINE was == me.mem[j]
               is == disk[j]
               x == Overlay(is, was)
    <3>1. was \in Records /\ is \in Records /\ merged[j] = x /\ disk[j] # NoJob
      BY <1>0, <1>2, <2>1, <2>2 DEF Stores
    <3>2. Caught(ledger, was, j)
      BY <1>0, <1>2, <2>2 DEF Ahead
    <3> HIDE DEF was, is
    <3>3. x.started = was.started /\ x \in Records
      BY <3>1 DEF Overlay, Records
    <3> HIDE DEF x
    <3> QED BY <3>1, <3>2, <3>3, SameIsCaught, NoJobAssumption
  <2>3. CASE j \notin me.touched
    BY <1>0, <1>2, <2>1, <2>3 DEF Ahead
  <2> QED BY <2>2, <2>3
<1>4. ~gone
  BY <1>0, <1>2, <1>3 DEF Touching
<1>5. Becomes(p, n)
  BY <1>4 DEF Reload
<1>6. \A j \in Jobs : /\ mem[j] = NoJob <=> disk[j] = NoJob
                      /\ mem[j] # NoJob => Caught(ledger, mem[j], j)
  <2>1. merged \in Stores
    BY <1>0, MergeType
  <2> HIDE DEF merged, me
  <2> QED BY <1>0, <1>3, <2>1, PutSame, SameIsCaught DEF Same
<1> HIDE DEF me, mem
<1>7. n.pc = "save" /\ n.mem = mem
  BY <1>0, LocalsFields
<1> HIDE DEF n
<1>8. Ahead(disk, ledger, n) /\ n.pc \notin AtWake
  BY <1>6, <1>7 DEF Ahead, Whole, AtWake
<1> QED BY <1>0, <1>5, <1>8, CaughtMoves

\* The save.
LEMMA SaveCaught ==
  ASSUME TypeInv, WriterInv, RefireInv, CaughtInv, NEW p \in RunDue, Alive(p), Save(p)
  PROVE  CaughtInv'
<1> DEFINE me == proc[p]
           pc == AfterSave(me)
           n == [me EXCEPT !.pc = pc]
<1>0. /\ p \in Procs /\ me \in Locals /\ me.pc = "save" /\ Ahead(disk, ledger, me)
      /\ disk' = me.mem /\ ledger' = ledger /\ now' = now /\ Becomes(p, n)
      /\ me.ret \in {"enter", "judge", "gate", "loop", "unlock"} /\ pc \in {"notify", me.ret}
      /\ \A q \in RunDue \ {p} : ~Alive(q)
  <2>1. disk' = me.mem /\ ledger' = ledger /\ now' = now /\ Becomes(p, n) /\ me.pc = "save"
    BY DEF Save, Goto, world, At
  <2>2. me.ret \in {"enter", "judge", "gate", "loop", "unlock"}
    BY <2>1, PassKnows DEF Placed, Saving
  <2> QED BY <2>1, <2>2, PassKnows DEF CaughtInv, AfterSave
<1> HIDE DEF me, pc
<1>1. n.pc = pc /\ n.mem = me.mem
  BY <1>0, LocalsFields
<1> HIDE DEF n
<1>2. \A j \in Jobs : me.mem[j] # NoJob => Caught(ledger, me.mem[j], j)
  BY <1>0 DEF Ahead
<1>3. Ahead(disk', ledger', n) /\ n.pc \notin AtWake
  BY <1>0, <1>1, <1>2 DEF Ahead, Whole, AtWake
<1> QED BY <1>0, <1>2, <1>3, CaughtIsNearly, CaughtGoesOn DEF CaughtInv

-----------------------------------------------------------------------------
(* The rows of the loop                                                    *)

\* A wake that is ended now was not ended before.
LEMMA NotOverYet ==
  ASSUME TypeInv, WriterInv', NEW row \in Rows, Write(row), row.event = "finished"
  PROVE  ~FinishedIn(ledger, row.wake)
<1>1. ledger \in Seq(Rows) /\ ledger' = Append(ledger, row) /\ OnceInv(ledger')
  BY DEF TypeInv, TypeOK, Write, WriterInv
<1>2. /\ \A i \in DOMAIN ledger : i \in DOMAIN ledger' /\ ledger'[i] = ledger[i] /\ i # Len(ledger')
      /\ Len(ledger') \in DOMAIN ledger' /\ ledger'[Len(ledger')] = row
  BY <1>1, RowMore
<1> QED BY <1>1, <1>2 DEF FinishedIn, OnceInv

\* What jobs.json is of a row more: at most the stamp of that row is missing.
LEMMA DiskCaught ==
  ASSUME TypeInv, WriterInv', RefireInv, NEW row \in Rows, Write(row), row.event = "finished",
         row.ts <= now, Until(ledger, now),
         NEW j \in Jobs, NEW r, Good(ledger, r), Caught(ledger, r, j)
  PROVE  /\ Until(ledger', now)
         /\ Nearly(ledger', r, j)
         /\ j # row.job \/ row.state \in UnstampedStates => Caught(ledger', r, j)
<1>1. ledger \in Seq(Rows) /\ ledger' = Append(ledger, row) /\ row.wake \in Wakes
  BY DEF TypeInv, TypeOK, Write, Rows
<1>2. Until(ledger', now)
  <2>1. \A i \in DOMAIN ledger' : ledger'[i] = row \/ (i \in DOMAIN ledger /\ ledger'[i] = ledger[i])
    BY <1>1, RowMore
  <2> QED BY <2>1 DEF Until
<1>3. row.wake # r.wake
  BY <1>1, NotOverYet, NamesAnother
<1> QED BY <1>1, <1>2, <1>3, NearlyMore, CaughtMore

\* A pass in its loop writes a row that ends a wake, and has either nothing to
\* stamp or has stamped the job in memory.
LEMMA RowCaught ==
  ASSUME TypeInv, WriterInv, WriterInv', RefireInv, CaughtInv, now' = now, NEW p \in RunDue, Alive(p),
         proc[p].pc \in {"loop", "judge", "gate", "recheck", "wait"}, ~Lost(proc[p]),
         NEW row \in Rows, Write(row), row.event = "finished", row.ts <= now, disk' = disk,
         NEW n, Becomes(p, n), n.pc \in {"loop", "unlock", "reload"},
         \/ n.mem = proc[p].mem /\ row.state \in UnstampedStates
         \/ \E r : /\ n.mem = [proc[p].mem EXCEPT ![row.job] = r] /\ n.touched = {row.job}
                   /\ proc[p].mem[row.job] # NoJob /\ r # NoJob /\ Caught(ledger', r, row.job)
  PROVE  CaughtInv'
<1> DEFINE me == proc[p]
<1>0. /\ p \in Procs /\ me \in Locals /\ me.mem \in Stores /\ Ahead(disk, ledger, me)
      /\ me.touched = {} /\ row.job \in Jobs /\ now \in Nat /\ Until(ledger, now)
      /\ \A q \in RunDue \ {p} : ~Alive(q)
  <2>1. me.touched = {} /\ Ahead(disk, ledger, me) /\ Until(ledger, now)
    BY DEF RefireInv, Rule, Touching, CaughtInv
  <2>2. row.job \in Jobs /\ now \in Nat
    BY DEF Rows, TypeInv, TypeOK
  <2> QED BY <2>1, <2>2, PassKnows, LocalsFields
<1>1. /\ \A j \in Jobs : me.mem[j] # NoJob => Caught(ledger, me.mem[j], j)
      /\ \A j \in Jobs : disk[j] # NoJob => Caught(ledger, disk[j], j) /\ Good(ledger, disk[j])
      /\ \A j \in Jobs : me.mem[j] = NoJob <=> disk[j] = NoJob
  BY <1>0 DEF Ahead, Whole, RefireInv, Cached
<1>2. \A j \in Jobs : disk[j] # NoJob =>
        /\ Nearly(ledger', disk[j], j)
        /\ j # row.job \/ row.state \in UnstampedStates => Caught(ledger', disk[j], j)
  BY <1>0, <1>1, DiskCaught
<1>3. Until(ledger', now)
  <2>1. ledger \in Seq(Rows) /\ ledger' = Append(ledger, row)
    BY DEF TypeInv, TypeOK, Write
  <2>2. \A i \in DOMAIN ledger' : ledger'[i] = row \/ (i \in DOMAIN ledger /\ ledger'[i] = ledger[i])
    BY <2>1, RowMore
  <2> QED BY <1>0, <2>2 DEF Until
<1>4. \A j \in Jobs \ {row.job} : me.mem[j] # NoJob => Caught(ledger', me.mem[j], j)
  <2>1. ledger \in Seq(Rows) /\ ledger' = Append(ledger, row)
    BY DEF TypeInv, TypeOK, Write
  <2> HIDE DEF me
  <2> QED BY <1>1, <2>1, CaughtMore
<1>5. row.state \in UnstampedStates => \A j \in Jobs : me.mem[j] # NoJob => Caught(ledger', me.mem[j], j)
  <2>1. ledger \in Seq(Rows) /\ ledger' = Append(ledger, row)
    BY DEF TypeInv, TypeOK, Write
  <2> HIDE DEF me
  <2> QED BY <1>1, <2>1, CaughtMore
<1>6. /\ \A j \in Jobs : n.mem[j] # NoJob => Caught(ledger', n.mem[j], j)
      /\ \A j \in Jobs : n.mem[j] = NoJob <=> disk[j] = NoJob
      /\ row.state \in UnstampedStates \/ n.touched = {row.job}
  <2>1. CASE n.mem = me.mem /\ row.state \in UnstampedStates
    BY <1>1, <1>5, <2>1
  <2>2. ASSUME NEW r, n.mem = [me.mem EXCEPT ![row.job] = r], n.touched = {row.job},
               me.mem[row.job] # NoJob, r # NoJob, Caught(ledger', r, row.job)
        PROVE  /\ \A j \in Jobs : n.mem[j] # NoJob => Caught(ledger', n.mem[j], j)
               /\ \A j \in Jobs : n.mem[j] = NoJob <=> disk[j] = NoJob
               /\ n.touched = {row.job}
    <3> HIDE DEF me
    <3>1. \A j \in Jobs : n.mem[j] = IF j = row.job THEN r ELSE me.mem[j]
      BY <1>0, <2>2 DEF Stores
    <3> QED BY <1>1, <1>4, <2>2, <3>1
  <2> QED BY <2>1, <2>2
<1>7. Ahead(disk', ledger', n) /\ n.pc \notin AtWake
  BY <1>2, <1>6 DEF Ahead, Whole, AtWake
<1> QED BY <1>0, <1>2, <1>3, <1>7, CaughtGoesOn

\* A stamp that is not earlier than any row, the one it is of included.
LEMMA StampedNow ==
  ASSUME TypeInv, WriterInv, NEW row \in Rows, Write(row), row.event = "finished", row.ts = now,
         Until(ledger, now), NEW r \in Records, r.started >= now, NEW j
  PROVE  Caught(ledger', r, j)
<1>1. /\ ledger \in Seq(Rows) /\ ledger' = Append(ledger, row) /\ OnceInv(ledger) /\ now \in Nat
      /\ r.started \in Nat
  BY DEF TypeInv, TypeOK, Write, WriterInv, Records
<1>2. Caught(ledger, r, j)
  BY <1>1, LateIsCaught
<1> QED BY <1>1, <1>2, CaughtUpMore

\* The rows of a turn: a clock-skew row, a skip, a lock that is held.
LEMMA TurnRowCaught ==
  ASSUME TypeInv, WriterInv, WriterInv', RefireInv, CaughtInv, NEW p \in RunDue, Alive(p),
         SkewRow(p) \/ SkipRow(p) \/ Overlap(p)
  PROVE  CaughtInv'
<1> DEFINE me == proc[p]
<1>0. /\ p \in Procs /\ me \in Locals /\ me.mem \in Stores /\ now \in Nat /\ Until(ledger, now)
      /\ disk' = disk /\ now' = now
  <2>1. disk' = disk /\ now' = now
    BY DEF SkewRow, SkipRow, Overlap, world
  <2> QED BY <2>1, PassKnows, LocalsFields DEF TypeInv, TypeOK, CaughtInv
\* A row of the job whose turn it is.
<1>1. ASSUME NEW j \in Jobs, Turn(p, j) \/ Due(p, j), me.mem[j] # NoJob,
             NEW kind \in {"skew", "wake"}, NEW state \in States,
             NEW w, w = [proc |-> p, job |-> j, kind |-> kind],
             NEW row, row = FinishedRow(w, state, now)
      PROVE  /\ me.pc \in {"loop", "judge", "gate"} /\ ~Lost(me) /\ w \in Wakes /\ w.job = j
             /\ row \in Rows /\ row.event = "finished" /\ row.job = j /\ row.state = state
             /\ row.ts = now /\ row.ts <= now
  <2>1. me.pc \in {"loop", "judge", "gate"}
    BY <1>1, NextJob
  <2>2. w \in Wakes /\ w.job = j
    BY <1>0, <1>1, WakeType
  <2> QED BY <1>0, <1>1, <2>1, <2>2, RowTypes DEF Lost, FinishedRow
\* The stamp of such a row.
<1>2. ASSUME NEW j \in Jobs, Turn(p, j) \/ Due(p, j), me.mem[j] # NoJob,
             NEW kind \in {"skew", "wake"}, NEW state \in States, NEW executed \in BOOLEAN,
             NEW w, w = [proc |-> p, job |-> j, kind |-> kind],
             NEW row, row = FinishedRow(w, state, now), Write(row),
             NEW n, n.touched = {j}, n.pc = "reload", Becomes(p, n),
             n.mem = [me.mem EXCEPT ![j] = Stamp(me.mem[j], w, now, state, executed)]
      PROVE  CaughtInv'
  <2> DEFINE r == Stamp(me.mem[j], w, now, state, executed)
  <2>1. /\ me.pc \in {"loop", "judge", "gate"} /\ ~Lost(me) /\ w \in Wakes
        /\ row \in Rows /\ row.event = "finished" /\ row.job = j
        /\ row.ts = now /\ row.ts <= now
    BY <1>1, <1>2
  <2>2. r \in Records /\ r.started >= now
    <3>1. me.mem[j] \in Records /\ state \in States \cup {"none"}
      BY <1>0, <1>2 DEF Stores
    <3> QED BY <1>0, <2>1, <3>1, StampMoves
  <2>3. n.mem = [me.mem EXCEPT ![j] = r]
    BY <1>2
  <2> HIDE DEF r
  <2>4. Caught(ledger', r, j) /\ r # NoJob
    BY <1>0, <1>2, <2>1, <2>2, StampedNow, NoJobAssumption
  <2>5. /\ n.mem = [proc[p].mem EXCEPT ![row.job] = r] /\ n.touched = {row.job}
        /\ proc[p].mem[row.job] # NoJob /\ r # NoJob /\ Caught(ledger', r, row.job)
    BY <1>2, <2>1, <2>3, <2>4
  <2>6. proc[p].pc \in {"loop", "judge", "gate"} /\ ~Lost(proc[p])
    BY <2>1
  <2> HIDE DEF me
  <2> QED BY <1>0, <1>2, <2>1, <2>5, <2>6, RowCaught
<1>3. CASE Overlap(p)
  <2>1. PICK j \in Jobs :
          /\ Executes(p, j)
          /\ Write(FinishedRow([proc |-> p, job |-> j, kind |-> "wake"], "overlap", now))
          /\ Becomes(p, [me EXCEPT !.todo = @ \ {j}, !.pc = "loop"])
    BY <1>3 DEF Overlap, AfterWake
  <2>2. Due(p, j) /\ me.mem[j] # NoJob
    <3>1. me.pc # "lock"
      BY <2>1, PassKnows, NextJob
    <3> QED BY <2>1, <3>1 DEF Executes, Due, At
  <2> DEFINE w == [proc |-> p, job |-> j, kind |-> "wake"]
             row == FinishedRow(w, "overlap", now)
             n == [me EXCEPT !.todo = @ \ {j}, !.pc = "loop"]
  <2>3. Becomes(p, n) /\ Write(row) /\ "overlap" \in States /\ "overlap" \in UnstampedStates
    BY <2>1 DEF States, UnstampedStates
  <2>4. n.pc = "loop" /\ n.mem = me.mem
    <3> HIDE DEF me
    <3> QED BY <1>0, LocalsFields
  <2>5. /\ me.pc \in {"loop", "judge", "gate"} /\ ~Lost(me)
        /\ row \in Rows /\ row.event = "finished" /\ row.state = "overlap" /\ row.ts <= now
    BY <1>1, <2>2, <2>3
  <2> HIDE DEF n, row
  <2> QED BY <1>0, <2>3, <2>4, <2>5, RowCaught
<1>4. CASE SkipRow(p)
  <2> DEFINE executed == FALSE
             w(j) == [proc |-> p, job |-> j, kind |-> "wake"]
  <2>1. PICK j \in Jobs :
          /\ Due(p, j)
          /\ Write(FinishedRow(w(j), "skipped", now))
          /\ Becomes(p, [Stamped(me, w(j), now, "skipped", executed, "loop") EXCEPT !.todo = @ \ {j}])
    BY <1>4 DEF SkipRow
  <2> DEFINE v == w(j)
             row == FinishedRow(v, "skipped", now)
             m == Stamped(me, v, now, "skipped", executed, "loop")
             n == [m EXCEPT !.todo = m.todo \ {j}]
  <2>2. /\ Write(row) /\ "skipped" \in States /\ executed \in BOOLEAN /\ v.job = j
        /\ v = [proc |-> p, job |-> j, kind |-> "wake"]
    BY <2>1 DEF States
  <2>3. Becomes(p, n)
    <3>1. Becomes(p, [m EXCEPT !.todo = @ \ {j}])
      BY <2>1
    <3> HIDE DEF m
    <3> QED BY <3>1
  <2>4. Due(p, j) /\ me.mem[j] # NoJob
    BY <2>1 DEF Due
  <2> HIDE DEF executed, v
  <2>5. n.pc = "reload" /\ n.touched = {j} /\ n.mem = m.mem
    <3>1. m.todo = m.todo
      OBVIOUS
    <3> DEFINE todo == m.todo \ {j}
               k == [m EXCEPT !.todo = todo]
    <3>2. n = k
      OBVIOUS
    <3> HIDE DEF todo, me
    <3>3. k.pc = "reload" /\ k.touched = {v.job} /\ k.mem = m.mem
      BY <1>0, StampedFields, StampedRest
    <3> HIDE DEF m, k, n
    <3> QED BY <2>2, <3>2, <3>3
  <2>6. m.mem = [me.mem EXCEPT ![j] = Stamp(me.mem[j], v, now, "skipped", executed)]
    <3> HIDE DEF me
    <3>1. m.mem = [me.mem EXCEPT ![v.job] = Stamp(me.mem[v.job], v, now, "skipped", executed)]
      BY <1>0, StampedMemory
    <3> HIDE DEF m
    <3> QED BY <2>2, <3>1
  <2> HIDE DEF m, n, row
  <2>7. row = FinishedRow(v, "skipped", now)
    BY DEF row
  <2> QED BY <1>2, <2>2, <2>3, <2>4, <2>5, <2>6, <2>7
<1>5. CASE SkewRow(p)
  <2> DEFINE executed == TRUE
             w(j) == [proc |-> p, job |-> j, kind |-> "skew"]
  <2>1. PICK j \in Jobs :
          /\ Turn(p, j) /\ me.mem[j] # NoJob
          /\ Write(FinishedRow(w(j), "error", now))
          /\ Becomes(p, Stamped(me, w(j), now, "error", executed, "gate"))
    BY <1>5 DEF SkewRow
  <2> DEFINE v == w(j)
             row == FinishedRow(v, "error", now)
             n == Stamped(me, v, now, "error", executed, "gate")
  <2>2. /\ Write(row) /\ "error" \in States /\ executed \in BOOLEAN /\ v.job = j
        /\ v = [proc |-> p, job |-> j, kind |-> "skew"] /\ Becomes(p, n)
    BY <2>1 DEF States, BadStates
  <2> HIDE DEF executed, v
  <2>3. n.pc = "reload" /\ n.touched = {j}
    <3> HIDE DEF me
    <3>1. n.pc = "reload" /\ n.touched = {v.job}
      BY <1>0, StampedFields, StampedRest
    <3> HIDE DEF n
    <3> QED BY <2>2, <3>1
  <2>4. n.mem = [me.mem EXCEPT ![j] = Stamp(me.mem[j], v, now, "error", executed)]
    <3> HIDE DEF me
    <3>1. n.mem = [me.mem EXCEPT ![v.job] = Stamp(me.mem[v.job], v, now, "error", executed)]
      BY <1>0, StampedMemory
    <3> HIDE DEF n
    <3> QED BY <2>2, <3>1
  <2> HIDE DEF n, row
  <2>5. row = FinishedRow(v, "error", now)
    BY DEF row
  <2> QED BY <1>2, <2>1, <2>2, <2>3, <2>4, <2>5
<1> QED BY <1>3, <1>4, <1>5

-----------------------------------------------------------------------------
(* The rows of a wake                                                      *)

\* The record is re-read under the lock; it is there, among passes.
LEMMA RecheckCaught ==
  ASSUME TypeInv, WriterInv, WriterInv', RefireInv, CaughtInv, NEW p \in RunDue, Recheck(p)
  PROVE  CaughtInv'
<1> DEFINE me == proc[p]
           w == me.cur
           j == w.job
           k == [me EXCEPT !.pc = "unlock"]
           mem == [me.mem EXCEPT ![j] = disk[j]]
           n == [me EXCEPT !.mem = mem, !.pc = "begin"]
           woken == FinishedRow(w, "overlap", now)
<1>0. me.pc = "recheck" /\ me.pc \in AtWake /\ disk' = disk /\ now' = now
  BY DEF Recheck, At, AtWake, world
<1>1. /\ Alive(p) /\ me \in Locals /\ me.mem \in Stores /\ me.started \in Nat
      /\ w \in Wakes /\ j \in Jobs /\ me.mem[j] # NoJob /\ ~Lost(me) /\ me.touched = {}
      /\ ledger \in Seq(Rows) /\ disk \in Stores /\ now \in Nat
  BY <1>0, WakeKnows, NoJobAssumption
<1>2. Ahead(disk, ledger, me) /\ me.started <= now
  BY <1>0 DEF CaughtInv
<1>3. Whole(disk, me) /\ disk[j] # NoJob
  <2>1. Whole(disk, me)
    BY <1>1, <1>2 DEF Ahead
  <2> QED BY <1>1, <2>1 DEF Whole
<1>4. \/ Write(woken) /\ Becomes(p, k)
      \/ ledger' = ledger /\ Becomes(p, n)
  BY <1>3 DEF Recheck, Goto
<1>5. CASE Write(woken) /\ Becomes(p, k)
  <2>1. k.pc = "unlock" /\ k.mem = me.mem
    <3> HIDE DEF me
    <3> QED BY <1>1, LocalsFields
  <2>2. /\ woken \in Rows /\ woken.event = "finished" /\ woken.state = "overlap" /\ woken.ts <= now
        /\ "overlap" \in UnstampedStates
    <3>1. "overlap" \in States /\ "overlap" \in UnstampedStates
      BY DEF States, UnstampedStates
    <3> QED BY <1>1, <3>1, RowTypes DEF FinishedRow
  <2> HIDE DEF k, woken
  <2> QED BY <1>0, <1>1, <1>5, <2>1, <2>2, RowCaught
<1>6. CASE ledger' = ledger /\ Becomes(p, n)
  <2>1. \A i \in Jobs : mem[i] = IF i = j THEN disk[j] ELSE me.mem[i]
    <3> HIDE DEF me, j
    <3> QED BY <1>1 DEF Stores
  <2> HIDE DEF me, mem, j, w
  <2>2. n.pc = "begin" /\ n.mem = mem /\ n.touched = me.touched /\ n.started = me.started
    BY <1>1, LocalsFields
  <2> HIDE DEF n
  <2>3. Whole(disk, n) /\ ~Lost(n)
    BY <1>1, <1>3, <2>1, <2>2 DEF Whole, Lost
  <2>4. \A i \in Jobs : disk[i] # NoJob => Caught(ledger, disk[i], i)
    BY <1>0, <1>1, <1>2 DEF Ahead
  <2>5. \A i \in Jobs : n.mem[i] # NoJob => Caught(ledger, n.mem[i], i)
    BY <1>0, <1>2, <2>1, <2>2, <2>4 DEF Ahead
  <2>6. Until(ledger, me.started)
    BY <1>0, <1>2 DEF Ahead
  <2>7. Ahead(disk, ledger, n)
    BY <2>2, <2>3, <2>4, <2>5, <2>6 DEF Ahead
  <2> QED BY <1>0, <1>2, <1>6, <2>2, <2>7, CaughtMoves
<1> QED BY <1>4, <1>5, <1>6

\* The started row ends nothing; the wake is not over, so what was caught is.
LEMMA BeginCaught ==
  ASSUME TypeInv, WriterInv, RefireInv, CaughtInv, NEW p \in RunDue, Begin(p)
  PROVE  CaughtInv'
<1> DEFINE me == proc[p]
           w == me.cur
           row == StartedRow(w, me.started)
           n == [me EXCEPT !.pc = "spawn"]
<1>0. /\ me.pc = "begin" /\ me.pc \in AtWake /\ disk' = disk /\ now' = now
      /\ ledger' = Append(ledger, row) /\ Becomes(p, n)
  BY DEF Begin, At, AtWake, world, Write, Goto
<1>1. /\ Alive(p) /\ me \in Locals /\ me.started \in Nat /\ w \in Wakes /\ ~Lost(me)
      /\ me.touched = {} /\ ledger \in Seq(Rows) /\ now \in Nat
      /\ \A q \in RunDue \ {p} : ~Alive(q)
  BY <1>0, WakeKnows, PassKnows
<1>2. Ahead(disk, ledger, me) /\ me.started <= now /\ Until(ledger, now) /\ Until(ledger, me.started)
  BY <1>0 DEF CaughtInv, Ahead
<1>3. ~FinishedIn(ledger, w)
  BY <1>0, WakeTaken DEF FinishedIn
<1>4. row \in Rows /\ row.event = "started" /\ row.wake = w /\ row.ts = me.started
  BY <1>1, RowTypes DEF StartedRow
<1> HIDE DEF me, w, row
<1>5. n.pc = "spawn" /\ n.mem = me.mem /\ n.touched = me.touched /\ n.started = me.started
  BY <1>1, LocalsFields
<1> HIDE DEF n
<1>6. Until(ledger', now) /\ Until(ledger', me.started)
  <2>1. \A i \in DOMAIN ledger' : ledger'[i] = row \/ (i \in DOMAIN ledger /\ ledger'[i] = ledger[i])
    BY <1>0, <1>1, <1>4, RowMore
  <2> QED BY <1>1, <1>2, <1>4, <2>1 DEF Until
<1>7. \A j \in Jobs : \A r : Caught(ledger, r, j) => Caught(ledger', r, j)
  BY <1>0, <1>1, <1>3, <1>4, CaughtMore
<1>8. \A j \in Jobs : disk[j] # NoJob => Caught(ledger', disk[j], j)
  BY <1>0, <1>1, <1>2, <1>7 DEF Ahead
<1>9. \A j \in Jobs : n.mem[j] # NoJob => Caught(ledger', n.mem[j], j)
  BY <1>0, <1>2, <1>5, <1>7 DEF Ahead
<1>10. Whole(disk, n)
  BY <1>1, <1>2, <1>5 DEF Ahead, Whole
<1>11. Ahead(disk', ledger', n)
  BY <1>0, <1>5, <1>6, <1>8, <1>9, <1>10 DEF Ahead
<1>12. \A j \in Jobs : disk'[j] # NoJob => Nearly(ledger', disk'[j], j)
  BY <1>0, <1>8, CaughtIsNearly
<1> QED BY <1>0, <1>1, <1>2, <1>5, <1>6, <1>11, <1>12, CaughtGoesOn

\* The finished row, and the stamp of its wake: its start, later than any other.
LEMMA FinishCaught ==
  ASSUME TypeInv, WriterInv, WriterInv', RefireInv, CaughtInv, NEW p \in RunDue, Finish(p)
  PROVE  CaughtInv'
<1> DEFINE me == proc[p]
           w == me.cur
           j == w.job
           executed == TRUE
<1>0. me.pc = "wait" /\ me.pc \in AtWake /\ disk' = disk /\ now' = now
  BY DEF Finish, At, AtWake, world
<1>1. /\ Alive(p) /\ me \in Locals /\ me.mem \in Stores /\ me.started \in Nat
      /\ w \in Wakes /\ j \in Jobs /\ me.mem[j] \in Records /\ ~Lost(me)
      /\ InLoop(disk, ledger, me) /\ ledger \in Seq(Rows) /\ OnceInv(ledger) /\ now \in Nat
  BY <1>0, WakeKnows DEF WriterInv
<1>2. PICK state \in Outcomes(w) :
        /\ Write(FinishedRow(w, state, now))
        /\ Becomes(p, Stamped(me, w, me.started, state, executed, "unlock"))
  BY DEF Finish
<1> DEFINE row == FinishedRow(w, state, now)
           r == Stamp(me.mem[j], w, me.started, state, executed)
           n == Stamped(me, w, me.started, state, executed, "unlock")
<1>3. state \in States /\ state \in States \cup {"none"} /\ executed \in BOOLEAN /\ Becomes(p, n)
  BY <1>2 DEF Outcomes, States, BadStates
<1>4. /\ row \in Rows /\ row.event = "finished" /\ row.wake = w /\ row.job = j /\ row.ts <= now
      /\ Write(row) /\ ledger' = Append(ledger, row)
  BY <1>1, <1>2, <1>3, RowTypes DEF FinishedRow, Write
<1>5. Until(ledger, me.started) /\ Len(ledger) # 0 /\ ledger[Len(ledger)] = StartedRow(w, me.started)
  <2>1. Until(ledger, me.started)
    BY <1>0 DEF CaughtInv, Ahead
  <2> QED BY <1>0, <1>1, <2>1 DEF InLoop
<1>6. w = me.cur /\ j = w.job
  OBVIOUS
<1> HIDE DEF executed, row
<1>7. r \in Records /\ r.started \in Nat /\ r.started >= me.started
  <2> HIDE DEF me, w, j
  <2>1. r \in Records /\ r.started >= me.started
    BY <1>1, <1>3, StampMoves
  <2> HIDE DEF r
  <2> QED BY <2>1 DEF Records
<1>8. n.pc = "reload" /\ n.touched = {j} /\ n.mem = [me.mem EXCEPT ![j] = r]
  <2> HIDE DEF me, w
  <2>1. n.pc = "reload" /\ n.touched = {w.job}
    BY <1>1, StampedFields, StampedRest
  <2>2. n.mem = [me.mem EXCEPT ![w.job] = Stamp(me.mem[w.job], w, me.started, state, executed)]
    BY <1>1, StampedMemory
  <2> HIDE DEF n
  <2> QED BY <2>1, <2>2
<1> HIDE DEF me, w, j, r, n
<1>9. Caught(ledger', r, j)
  <2>1. Caught(ledger, r, j)
    BY <1>1, <1>5, <1>7, LateIsCaught
  <2> DEFINE k == Len(ledger)
  <2>2. k \in DOMAIN ledger
    BY <1>1, <1>5
  <2>3. ledger[k].event = "started" /\ ledger[k].wake = row.wake /\ r.started >= ledger[k].ts
    BY <1>4, <1>5, <1>7 DEF StartedRow
  <2> HIDE DEF k
  <2> QED BY <1>1, <1>4, <1>7, <2>1, <2>2, <2>3, CaughtUpMore
<1>10. /\ n.mem = [proc[p].mem EXCEPT ![row.job] = r] /\ n.touched = {row.job}
       /\ proc[p].mem[row.job] # NoJob /\ r # NoJob /\ Caught(ledger', r, row.job)
  BY <1>1, <1>4, <1>7, <1>8, <1>9, NoJobAssumption DEF me
<1>11. proc[p].pc = "wait" /\ ~Lost(proc[p])
  BY <1>0, <1>1 DEF me
<1> QED BY <1>0, <1>1, <1>3, <1>4, <1>8, <1>10, <1>11, RowCaught

-----------------------------------------------------------------------------
(* reconcile                                                               *)

\* reconcile closes the one wake that is open; its started row is the last, so
\* nothing was missing, and it stamps what that row says.
LEMMA CloseCaught ==
  ASSUME TypeInv, WriterInv, WriterInv', Alone, RefireInv, CaughtInv, NEW p \in RunDue,
         CloseOrphan(p)
  PROVE  CaughtInv'
<1> DEFINE me == proc[p]
           i == Min(ToJudge(me))
           w == ledger[i].wake
           j == w.job
           ts == ledger[i].ts
           executed == FALSE
           row == FinishedRow(w, "orphaned", now)
           r == Stamp(me.mem[j], w, ts, "orphaned", executed)
           mem == [me.mem EXCEPT ![j] = r]
           m == [me EXCEPT !.scan = i + 1]
           n == [m EXCEPT !.mem = mem, !.touched = @ \cup {j}, !.notices = @ \cup {j}]
<1>0. me.pc = "close" /\ disk' = disk /\ now' = now /\ ToJudge(me) # {}
  BY DEF CloseOrphan, At, world
<1>1. /\ me \in Locals /\ me.mem \in Stores /\ me.rows \in Nat /\ me.rows <= Len(ledger)
      /\ ledger \in Seq(Rows) /\ OnceInv(ledger) /\ Kept(ledger) /\ Cached(disk, ledger)
      /\ (\A q \in RunDue \ {p} : ~Alive(q)) /\ p \in Procs /\ now \in Nat
      /\ Ahead(disk, ledger, me) /\ Until(ledger, now)
  BY <1>0, CloseKnows DEF TypeInv, TypeOK, CaughtInv
<1>2. /\ i \in DOMAIN ledger /\ ledger[i].event = "started" /\ w \in Wakes /\ j \in Jobs
      /\ ts \in Nat /\ ~FinishedIn(ledger, w)
  <2>1. i \in ToJudge(me)
    BY <1>0, <1>1, ToJudgeType
  <2>2. ~FinishedIn(ledger, w)
    BY <1>0, <2>1 DEF WriterInv, CloseInv
  <2>3. i \in DOMAIN ledger /\ ledger[i].event = "started" /\ w \in Wakes /\ ts \in Nat
    BY <1>1, <2>1, ToJudgeType
  <2> QED BY <2>2, <2>3 DEF Wakes
<1>3. ~WakeLives(w)
  BY <1>0, <1>2, OpenIsDead
<1>4. /\ Write(row)
      /\ me.mem[j] = NoJob => Becomes(p, m)
      /\ me.mem[j] # NoJob => Becomes(p, n)
  <2>1. n = [m EXCEPT !.mem[j] = Stamp(@, w, ts, "orphaned", FALSE),
                      !.touched = @ \cup {j}, !.notices = @ \cup {j}]
    <3>1. m.mem = me.mem /\ m \in Locals
      <4> HIDE DEF i, me
      <4>1. i + 1 \in Nat
        BY <1>1, <1>2
      <4> QED BY <1>1, <4>1, LocalsFields
    <3>2. [m.mem EXCEPT ![j] = Stamp(@, w, ts, "orphaned", FALSE)] = mem
      BY <3>1
    <3> HIDE DEF m, me, mem, j, w, ts
    <3> QED BY <3>2
  <2> HIDE DEF n
  <2> QED BY <1>3, <2>1 DEF CloseOrphan
<1>5. "orphaned" \in States /\ "orphaned" \in States \cup {"none"} /\ executed \in BOOLEAN /\ ~executed
  BY DEF States, BadStates
<1>6. m.pc = "close" /\ m.mem = me.mem /\ n.pc = "close" /\ n.mem = mem
  <2> HIDE DEF me, i, mem, j
  <2>1. m.pc = "close" /\ m.mem = me.mem
    BY <1>0, <1>1, LocalsFields
  <2>2. n.pc = "close" /\ n.mem = mem
    BY <1>0, <1>1, LocalsFields
  <2> QED BY <2>1, <2>2
<1>7. /\ row \in Rows /\ row.event = "finished" /\ row.wake = w /\ row.job = j
      /\ row.ts = now /\ row.ts <= now /\ ledger' = Append(ledger, row)
  <2> HIDE DEF w
  <2> QED BY <1>1, <1>2, <1>4, <1>5, RowTypes DEF Write, FinishedRow
<1>8. w = ledger[i].wake /\ ts = ledger[i].ts
  OBVIOUS
<1> HIDE DEF me, i, w, j, ts, row, executed, m, n
\* The open wake is that of the last row.
<1>9. \A k \in Jobs : ~Stamping(ledger, k, Len(ledger))
  <2>1. i \in OpenAt(ledger)
    BY <1>2, <1>8 DEF OpenAt
  <2>2. i = Len(ledger)
    BY <1>1, <2>1 DEF Kept
  <2> QED BY <1>2, <2>2 DEF Stamping
<1>10. /\ \A k \in Jobs : me.mem[k] # NoJob => Caught(ledger, me.mem[k], k)
       /\ \A k \in Jobs : disk[k] # NoJob => Caught(ledger, disk[k], k) /\ Good(ledger, disk[k])
       /\ \A k \in Jobs : me.mem[k] = NoJob <=> disk[k] = NoJob
  <2>1. \A k \in Jobs : me.mem[k] # NoJob => Nearly(ledger, me.mem[k], k)
    BY <1>0, <1>1 DEF Ahead
  <2>2. \A k \in Jobs : disk[k] # NoJob => Nearly(ledger, disk[k], k)
    BY DEF CaughtInv
  <2>3. \A k \in Jobs : me.mem[k] = NoJob <=> disk[k] = NoJob
    BY <1>0, <1>1 DEF Ahead, Whole, Leaving, Ended
  <2> QED BY <1>1, <1>9, <2>1, <2>2, <2>3, NearlyIsCaught DEF Cached
<1>11. Until(ledger', now) /\ \A k \in Jobs : disk[k] # NoJob => Nearly(ledger', disk[k], k)
  <2>1. \A k \in Jobs : disk[k] # NoJob => Nearly(ledger', disk[k], k)
    BY <1>1, <1>4, <1>7, <1>10, DiskCaught
  <2>2. \A x \in DOMAIN ledger' : ledger'[x] = row \/ (x \in DOMAIN ledger /\ ledger'[x] = ledger[x])
    BY <1>1, <1>7, RowMore
  <2> QED BY <1>1, <1>7, <2>1, <2>2 DEF Until
<1>12. \A k \in Jobs \ {j} : me.mem[k] # NoJob => Caught(ledger', me.mem[k], k)
  BY <1>1, <1>7, <1>10, CaughtMore
<1>13. ASSUME me.mem[j] # NoJob PROVE r # NoJob /\ Caught(ledger', r, j)
  <2>1. me.mem[j] \in Records
    BY <1>1, <1>2, <1>13 DEF Stores
  <2>2. r \in Records /\ r.started >= ts /\ r.started >= me.mem[j].started
    BY <1>2, <1>5, <2>1, StampMoves DEF r
  <2>3. r.started \in Nat /\ me.mem[j].started \in Nat
    BY <2>1, <2>2 DEF Records
  <2> HIDE DEF r
  <2>4. Caught(ledger, r, j)
    BY <1>1, <1>2, <1>10, <1>13, <2>2, <2>3, LaterIsCaught
  <2> QED BY <1>1, <1>2, <1>7, <1>8, <2>2, <2>3, <2>4, CaughtUpMore, NoJobAssumption
<1> DEFINE Closed(x) == /\ x.pc = "close"
                        /\ \A k \in Jobs : x.mem[k] # NoJob => Caught(ledger', x.mem[k], k)
                        /\ \A k \in Jobs : x.mem[k] = NoJob <=> disk[k] = NoJob
<1>14. ASSUME NEW x, Closed(x), Becomes(p, x) PROVE CaughtInv'
  <2>1. Ahead(disk', ledger', x) /\ x.pc \notin AtWake
    BY <1>0, <1>14, CaughtIsNearly DEF Ahead, Whole, AtWake
  <2> QED BY <1>0, <1>1, <1>11, <1>14, <2>1, CaughtGoesOn
<1>15. CASE me.mem[j] = NoJob
  BY <1>2, <1>4, <1>6, <1>10, <1>12, <1>14, <1>15
<1>16. CASE me.mem[j] # NoJob
  <2> HIDE DEF r
  <2>1. \A k \in Jobs : mem[k] = IF k = j THEN r ELSE me.mem[k]
    BY <1>1 DEF Stores
  <2> HIDE DEF mem
  <2>2. Closed(n)
    BY <1>2, <1>6, <1>10, <1>12, <1>13, <1>16, <2>1
  <2> QED BY <1>4, <1>14, <1>16, <2>2
<1> QED BY <1>15, <1>16

\* A start that is not earlier than what recovery reads off row i is behind it
\* no more; and the other way round.
LEMMA MetIsStartOf ==
  ASSUME NEW rows, OnceInv(rows), NEW i \in DOMAIN rows, NEW r
  PROVE  Met(rows, r, i) <=> r.started >= StartOf(rows, i)
<1>1. CASE \E k \in DOMAIN rows : rows[k].event = "started" /\ rows[k].wake = rows[i].wake
  <2>1. PICK k \in DOMAIN rows : rows[k].event = "started" /\ rows[k].wake = rows[i].wake
    BY <1>1
  <2>2. StartOf(rows, i) = rows[k].ts
    BY <2>1, StartOfIs
  <2>3. \A x \in DOMAIN rows : rows[x].event = "started" /\ rows[x].wake = rows[i].wake => x = k
    BY <2>1 DEF OnceInv
  <2> QED BY <2>1, <2>2, <2>3 DEF Met
<1>2. CASE ~\E k \in DOMAIN rows : rows[k].event = "started" /\ rows[k].wake = rows[i].wake
  BY <1>2 DEF Met, StartOf
<1> QED BY <1>1, <1>2

\* Recovery moves the start of a record forward only.
LEMMA RecoverMoves ==
  ASSUME NEW mem \in Stores, NEW rows \in Seq(Rows), OnceInv(rows), NEW j \in Jobs, mem[j] # NoJob
  PROVE  LET was == mem[j]
             r == RecoverStamps(mem, rows)[j]
             i == Max(StampingAt(rows, j))
         IN /\ was \in Records /\ r \in Records /\ r.started >= was.started
            /\ StampingAt(rows, j) # {} =>
                 /\ i \in StampingAt(rows, j) /\ \A x \in StampingAt(rows, j) : x <= i
                 /\ r.started >= StartOf(rows, i) \/ (r = was /\ ~Behind(was, rows, i))
<1> DEFINE was == mem[j]
           r == RecoverStamps(mem, rows)[j]
           i == Max(StampingAt(rows, j))
           executed == FALSE
           stamped == Stamp(was, rows[i].wake, StartOf(rows, i), rows[i].state, executed)
<1>1. was \in Records /\ was.started \in Nat
  BY DEF Stores, Records
<1>2. r = IF StampingAt(rows, j) # {} /\ Behind(was, rows, i) THEN stamped ELSE was
  BY DEF RecoverStamps
<1>3. executed \in BOOLEAN /\ ~executed
  OBVIOUS
<1> HIDE DEF was, r, executed
<1>4. StampingAt(rows, j) # {} =>
        i \in StampingAt(rows, j) /\ \A x \in StampingAt(rows, j) : x <= i
  <2>1. StampingAt(rows, j) \in SUBSET (1..Len(rows)) /\ Len(rows) \in Nat
    BY DEF StampingAt
  <2> QED BY <2>1, MaxIn
<1> HIDE DEF i
<1>5. ASSUME StampingAt(rows, j) # {}
      PROVE  stamped \in Records /\ stamped.started >= StartOf(rows, i) /\ stamped.started >= was.started
  <2>1. i \in DOMAIN rows /\ rows[i].event = "finished" /\ rows[i] \in Rows
        /\ \A k \in DOMAIN rows : rows[k].ts \in Nat
    BY <1>4, <1>5 DEF StampingAt, Rows
  <2>2. rows[i].wake \in Wakes /\ rows[i].state \in States \cup {"none"}
    BY <2>1 DEF Rows
  <2>3. StartOf(rows, i) \in Nat
    <3>1. CASE \E k \in DOMAIN rows : rows[k].event = "started" /\ rows[k].wake = rows[i].wake
      BY <2>1, <3>1, StartOfIs
    <3>2. CASE ~\E k \in DOMAIN rows : rows[k].event = "started" /\ rows[k].wake = rows[i].wake
      BY <2>1, <3>2 DEF StartOf
    <3> QED BY <3>1, <3>2
  <2> QED BY <1>1, <1>3, <2>2, <2>3, StampMoves
<1> HIDE DEF stamped
<1>6. r \in Records /\ r.started >= was.started
  BY <1>1, <1>2, <1>5
<1>7. StampingAt(rows, j) # {} => r.started >= StartOf(rows, i) \/ (r = was /\ ~Behind(was, rows, i))
  BY <1>2, <1>5
<1> QED BY <1>1, <1>4, <1>6, <1>7 DEF was, r, i

\* What is missing at the end of reconcile is the stamp of the last row, which
\* recovery read (_recover_stamps).
LEMMA RecoverCaught ==
  ASSUME TypeInv, WriterInv, RefireInv, CaughtInv, NEW p \in RunDue, proc[p].pc = "close",
         NEW j \in Jobs, proc[p].mem[j] # NoJob
  PROVE  LET r == RecoverStamps(proc[p].mem, SnapshotOf(proc[p]))[j]
         IN r \in Records /\ Caught(ledger, r, j)
<1> DEFINE me == proc[p]
           rows == SubSeq(ledger, 1, me.rows)
           was == me.mem[j]
           r == RecoverStamps(me.mem, rows)[j]
           last == Len(ledger)
<1>1. /\ me.mem \in Stores /\ me.rows \in Nat /\ me.rows <= last /\ TypeOK
      /\ InReconcile(disk, ledger, me) /\ ledger \in Seq(Rows) /\ OnceInv(ledger) /\ last \in Nat
  BY CloseKnows DEF TypeInv
<1>2. rows \in Seq(Rows) /\ OnceInv(rows)
  <2>1. /\ rows \in Seq(Rows) /\ DOMAIN rows = 1..me.rows
        /\ \A k \in DOMAIN rows : k \in DOMAIN ledger /\ rows[k] = ledger[k]
    BY <1>1, SnapshotType
  <2> QED BY <1>1, <2>1 DEF OnceInv
<1>3. Nearly(ledger, was, j) /\ (Caught(ledger, was, j) \/ me.rows = last) /\ was.created = 1
  BY <1>1 DEF CaughtInv, Ahead, InReconcile, Good
<1>4. was \in Records /\ r \in Records /\ r.started >= was.started
  <2> HIDE DEF me, rows
  <2> QED BY <1>1, <1>2, RecoverMoves DEF me
<1>5. was.started \in Nat /\ r.started \in Nat
  BY <1>4 DEF Records
<1>6. CASE Caught(ledger, was, j)
  <2>1. Caught(ledger, r, j)
    <3> HIDE DEF was, r
    <3> QED BY <1>1, <1>4, <1>5, <1>6, LaterIsCaught
  <2> QED BY <1>4, <2>1 DEF SnapshotOf
<1>7. CASE ~Caught(ledger, was, j)
  <2>1. Stamping(ledger, j, last) /\ rows = ledger
    <3>1. me.rows = last
      BY <1>3, <1>7
    <3>2. rows = ledger
      BY <1>1, <3>1
    <3> HIDE DEF was
    <3> QED BY <1>3, <1>7, <3>2, NearlyIsCaught
  <2>2. last \in DOMAIN ledger
    <3>1. PICK i \in DOMAIN ledger : Stamping(ledger, j, i) /\ ~Met(ledger, was, i)
      BY <1>7 DEF Caught
    <3> QED BY <1>1, <3>1
  <2>3. last \in StampingAt(ledger, j)
    <3>1. \A k \in DOMAIN ledger : ~(k > last)
      BY <1>1
    <3> HIDE DEF last
    <3> QED BY <2>1, <2>2, <3>1 DEF StampingAt, StillTheJob, Stamping
  <2> DEFINE i == Max(StampingAt(ledger, j))
  <2>4. /\ i \in StampingAt(ledger, j) /\ \A x \in StampingAt(ledger, j) : x <= i
        /\ r.started >= StartOf(ledger, i) \/ (r = was /\ ~Behind(was, ledger, i))
    <3>1. r = RecoverStamps(me.mem, ledger)[j]
      BY <2>1
    <3> HIDE DEF r, rows, me
    <3> QED BY <1>1, <2>3, <3>1, RecoverMoves DEF me
  <2>5. i = last
    <3>1. i \in DOMAIN ledger /\ last <= i
      BY <2>3, <2>4 DEF StampingAt
    <3> HIDE DEF i
    <3> QED BY <1>1, <3>1
  <2> HIDE DEF r, was, i, last, rows
  <2>6. Met(ledger, r, last)
    <3>1. CASE r.started >= StartOf(ledger, last)
      BY <1>1, <2>2, <3>1, MetIsStartOf
    <3>2. CASE r = was /\ ~Behind(was, ledger, last)
      <4>1. CASE was.wake = ledger[last].wake
        BY <1>3, <2>1, <2>2, <3>2, <4>1 DEF Nearly
      <4>2. CASE was.wake # ledger[last].wake
        <5>1. StartOf(ledger, last) \in Nat
          <6>1. \A k \in DOMAIN ledger : ledger[k].ts \in Nat
            BY <1>1 DEF Rows
          <6>2. CASE \E k \in DOMAIN ledger :
                       ledger[k].event = "started" /\ ledger[k].wake = ledger[last].wake
            BY <1>1, <2>2, <6>1, <6>2, StartOfIs
          <6>3. CASE ~\E k \in DOMAIN ledger :
                        ledger[k].event = "started" /\ ledger[k].wake = ledger[last].wake
            BY <2>2, <6>1, <6>3 DEF StartOf
          <6> QED BY <6>2, <6>3
        <5>2. ~(StartOf(ledger, last) >= 1 /\ StartOf(ledger, last) > was.started)
          BY <1>3, <3>2, <4>2 DEF Behind
        <5>3. r.started >= StartOf(ledger, last)
          BY <1>5, <3>2, <5>1, <5>2
        <5> QED BY <1>1, <2>2, <5>3, MetIsStartOf
      <4> QED BY <4>1, <4>2
    <3> QED BY <2>4, <2>5, <3>1, <3>2
  <2>7. ASSUME NEW k \in DOMAIN ledger, Stamping(ledger, j, k), k # last PROVE Met(ledger, r, k)
    <3>1. Met(ledger, was, k)
      BY <1>3, <2>7 DEF Nearly, last
    <3>2. was.started >= StartOf(ledger, k) /\ ledger[k].ts \in Nat
      BY <1>1, <3>1, MetIsStartOf DEF Rows
    <3>3. \A x \in DOMAIN ledger : ledger[x].ts \in Nat
      BY <1>1 DEF Rows
    <3> QED BY <1>4, <1>5, <3>1, <3>3 DEF Met
  <2>8. Caught(ledger, r, j)
    BY <2>6, <2>7 DEF Caught
  <2> QED BY <1>4, <2>8 DEF SnapshotOf, r, rows
<1> QED BY <1>6, <1>7

\* The end of reconcile: recovery has met what was missing, and what differs from
\* jobs.json is on its way there.
LEMMA RepairCaught ==
  ASSUME TypeInv, WriterInv, RefireInv, CaughtInv, NEW p \in RunDue, Repair(p)
  PROVE  CaughtInv'
<1> DEFINE me == proc[p]
           recovered == RecoverStamps(me.mem, SnapshotOf(me))
           judged == [j \in Jobs |-> JudgeReceipt(recovered[j], receipt[j])]
           failed == {j \in Jobs : ReceiptJudges(recovered[j], receipt[j]) /\ ~receipt[j].ok}
           touched == me.touched \cup {j \in Jobs : judged[j] # me.mem[j]}
           notices == me.notices \cup failed
           pc == IF touched = {} THEN "enter" ELSE "reload"
           n == [me EXCEPT !.mem = judged, !.touched = touched, !.notices = notices,
                           !.ret = "enter", !.rows = 0, !.scan = 0, !.pc = pc]
<1>0. /\ me.pc = "close" /\ disk' = disk /\ ledger' = ledger /\ now' = now
      /\ Ahead(disk, ledger, me)
  BY DEF Repair, At, files, world, CaughtInv
<1>1. /\ me \in Locals /\ me.mem \in Stores /\ me.touched \in SUBSET Jobs
      /\ InReconcile(disk, ledger, me)
      /\ \A j \in Jobs : receipt[j] \in Receipts \cup {NoReceipt}
  BY <1>0, CloseKnows DEF TypeInv, TypeOK
<1>2. Becomes(p, n)
  <2>1. [me EXCEPT !.mem = judged, !.touched = touched, !.notices = @ \cup failed,
                   !.ret = "enter", !.rows = 0, !.scan = 0, !.pc = pc] = n
    <3> HIDE DEF judged, touched, failed, pc
    <3> QED BY <1>1
  <2> HIDE DEF n
  <2> QED BY <2>1 DEF Repair
<1>3. Whole(disk, me)
  BY <1>0 DEF Ahead, Leaving, Ended
<1>4. ASSUME NEW j \in Jobs, me.mem[j] # NoJob
      PROVE  recovered[j] \in Records /\ Caught(ledger, recovered[j], j)
  BY <1>0, <1>4, RecoverCaught
<1>5. \A j \in Jobs : me.mem[j] = NoJob => recovered[j] = NoJob
  BY DEF RecoverStamps
<1>6. \A j \in Jobs : judged[j] = JudgeReceipt(recovered[j], receipt[j])
  OBVIOUS
<1>7. touched = me.touched \cup {j \in Jobs : judged[j] # me.mem[j]}
  OBVIOUS
<1> HIDE DEF me, recovered, judged, failed, touched
<1>8. \A j \in Jobs : /\ judged[j] = NoJob <=> me.mem[j] = NoJob
                      /\ judged[j] # NoJob => Caught(ledger, judged[j], j)
  <2>1. ASSUME NEW j \in Jobs, me.mem[j] = NoJob PROVE judged[j] = NoJob
    BY <1>1, <1>5, <1>6, <2>1, JudgeSame
  <2>2. ASSUME NEW j \in Jobs, me.mem[j] # NoJob
        PROVE  judged[j] # NoJob /\ Caught(ledger, judged[j], j)
    <3> DEFINE r == recovered[j]
               c == receipt[j]
               x == judged[j]
    <3>1. r \in Records /\ r # NoJob /\ Caught(ledger, r, j)
          /\ c \in Receipts \cup {NoReceipt} /\ x = JudgeReceipt(r, c)
      BY <1>1, <1>4, <1>6, <2>2, NoJobAssumption
    <3> HIDE DEF r, c, x
    <3>2. x.started = r.started /\ x # NoJob
      BY <3>1, JudgeSame DEF Same
    <3> QED BY <3>1, <3>2, SameIsCaught DEF x
  <2> QED BY <2>1, <2>2
<1>9. pc \in {"enter", "reload"}
  OBVIOUS
<1> HIDE DEF pc, notices
<1>10. n.pc = pc /\ n.mem = judged /\ n.touched = touched
  BY <1>1, LocalsFields
<1> HIDE DEF n
<1>11. \A j \in Jobs \ n.touched : disk[j] # NoJob => Caught(ledger, disk[j], j)
  <2>1. \A j \in Jobs \ n.touched : disk[j] = judged[j]
    BY <1>1, <1>7, <1>10 DEF InReconcile
  <2> QED BY <1>8, <2>1
<1>12. Ahead(disk, ledger, n) /\ n.pc \notin AtWake
  BY <1>3, <1>8, <1>9, <1>10, <1>11 DEF Ahead, Whole, AtWake
<1> QED BY <1>0, <1>2, <1>12, CaughtMoves

-----------------------------------------------------------------------------
(* The theorem                                                             *)

\* No row is written at first.
LEMMA InitCaughtInv == Init => CaughtInv
<1> SUFFICES ASSUME Init PROVE CaughtInv
  OBVIOUS
<1>1. DOMAIN ledger = {}
  BY DEF Init
<1>2. Until(ledger, now) /\ \A j \in Jobs : Nearly(ledger, disk[j], j)
  BY <1>1 DEF Until, Nearly
<1>3. ASSUME NEW p \in RunDue
      PROVE  Ahead(disk, ledger, proc[p]) /\ proc[p].pc \notin AtWake
  <2>1. p \in Procs
    BY PassAssumption
  <2>2. PICK pc \in {"start", "done"} : proc[p] = Fresh(pc)
    BY <2>1 DEF Init
  <2>3. pc \in Leaving /\ pc \notin AtWake
    BY DEF Leaving, Ended, AtWake
  <2>4. Ahead(disk, ledger, Fresh(pc)) /\ Fresh(pc).pc = pc
    BY <2>3, FreshAhead DEF Fresh
  <2> QED BY <2>2, <2>3, <2>4
<1> QED BY <1>2, <1>3 DEF CaughtInv

\* Every step but one of the clock backwards keeps the invariant.
LEMMA CaughtStep ==
  ASSUME TypeInv, WriterInv, WriterInv', Alone, RefireInv, CaughtInv, [Next]_vars, ~StepBack
  PROVE  CaughtInv'
<1>1. ASSUME NEW p \in Procs, Start(p) \/ Step(p) \/ Die(p) PROVE CaughtInv'
  <2>1. p \in RunDue /\ proc[p].pc \notin Ended
    <3>1. p \in Given.cast /\ proc[p].pc \notin Ended
      BY <1>1, ActorIs DEF Alone, Quiet, WriterInv
    <3> QED BY <3>1 DEF Alone
  <2>2. p \notin Operator /\ p \notin Run /\ p \notin Reconciler /\ Placed(p, proc[p])
    BY <2>1, PassAssumption DEF WriterInv, PlaceInv
  <2>3. CASE StartPass(p)
    BY <2>1, <2>3, EndCaught
  <2>4. CASE ~StartPass(p)
    <3>1. Step(p) \/ Die(p)
      BY <1>1, <2>2, <2>4 DEF Start, StartRun, StartReconcile, StartAdd, StartSet, StartRemove
    <3>2. Alive(p)
      <4>1. proc[p].pc # "start"
        BY <3>1 DEF Step, Load, Reload, Save, Notify, CardAnswer, ReadRows, CloseOrphan, Repair,
          EnterLoop, PassOver, SkewRow, SkipRow, EndPass, TakeLock, Overlap, Recheck, Begin, Spawn,
          Finish, Unlock, Fail, CheckRemove, RemovedRowWritten, Turn, Due, Executes, At, Die, Alive
      <4> QED BY <2>1, <4>1 DEF Alive, Ended
    <3>3. ~CheckRemove(p) /\ ~RemovedRowWritten(p)
      BY <2>1, <2>2 DEF Placed, CheckRemove, RemovedRowWritten, At
    <3>4. CASE Load(p) \/ ReadRows(p)
      BY <2>1, <3>4, ReadCaught
    <3>5. CASE Reload(p) \/ Save(p) \/ CloseOrphan(p) \/ Repair(p)
      BY <2>1, <3>2, <3>5, ReloadCaught, SaveCaught, CloseCaught, RepairCaught
    <3>6. CASE EnterLoop(p) \/ PassOver(p) \/ CardAnswer(p) \/ Notify(p)
      BY <2>1, <3>2, <3>6, TurnCaught
    <3>7. CASE TakeLock(p) \/ Spawn(p) \/ Unlock(p)
      BY <2>1, <3>2, <3>7, TurnCaught
    <3>8. CASE SkewRow(p) \/ SkipRow(p) \/ Overlap(p)
      BY <2>1, <3>2, <3>8, TurnRowCaught
    <3>9. CASE Recheck(p) \/ Begin(p) \/ Finish(p)
      BY <2>1, <3>2, <3>9, RecheckCaught, BeginCaught, FinishCaught
    <3>10. CASE Fail(p) \/ Die(p) \/ EndPass(p)
      BY <2>1, <3>10, EndCaught
    <3> QED BY <3>1, <3>3, <3>4, <3>5, <3>6, <3>7, <3>8, <3>9, <3>10 DEF Step
  <2> QED BY <2>3, <2>4
\* Time goes on: rows and starts lie as far back as they did, or farther.
<1>2. CASE disk' = disk /\ ledger' = ledger /\ proc' = proc /\ now \in Nat /\ now' \in {now, now + 1}
  <2>1. ledger \in Seq(Rows) /\ \A p \in RunDue : proc[p].started \in Nat
    BY PassAssumption DEF TypeInv, TypeOK, Locals
  <2>2. \A i \in DOMAIN ledger : ledger[i].ts \in Nat
    BY <2>1 DEF Rows
  <2>3. Until(ledger, now')
    BY <1>2, <2>2 DEF CaughtInv, Until
  <2>4. \A p \in RunDue : proc[p].pc \in AtWake => proc[p].started <= now'
    BY <1>2, <2>1 DEF CaughtInv
  <2> QED BY <1>2, <2>3, <2>4 DEF CaughtInv
<1>3. CASE \/ \E p \in RunDue : AgePass(p)
           \/ \E w \in Wakes : ChildExit(w) \/ Age(w)
           \/ Tick \/ UNCHANGED vars
  <2>1. now \in Nat
    BY DEF TypeInv, TypeOK
  <2>2. disk' = disk /\ ledger' = ledger /\ proc' = proc /\ now' \in {now, now + 1}
    BY <1>3 DEF AgePass, ChildExit, Age, Tick, vars, files, locks, world
  <2> QED BY <1>2, <2>1, <2>2
<1> QED BY <1>1, <1>3 DEF Next

\* Only a step of the clock backwards counts as one.
LEMMA OnlyStepBackCounts ==
  ASSUME [Next]_vars, ~StepBack
  PROVE  stepped' = stepped
<1> USE DEF files, locks, world
<1>1. ASSUME NEW p \in Procs, Start(p) PROVE stepped' = stepped
  BY <1>1 DEF Start, StartPass, StartRun, StartReconcile, StartAdd, StartSet, StartRemove
<1>2. ASSUME NEW p \in Procs, Step(p) PROVE stepped' = stepped
  <2>1. CASE Load(p) \/ Reload(p) \/ Save(p) \/ Notify(p) \/ CardAnswer(p) \/ ReadRows(p)
    BY <2>1 DEF Load, Reload, Save, Notify, CardAnswer, ReadRows
  <2>2. CASE CloseOrphan(p) \/ Repair(p) \/ EnterLoop(p) \/ PassOver(p) \/ SkewRow(p) \/ SkipRow(p)
    BY <2>2 DEF CloseOrphan, Repair, EnterLoop, PassOver, SkewRow, SkipRow
  <2>3. CASE EndPass(p) \/ TakeLock(p) \/ Overlap(p) \/ Recheck(p) \/ Begin(p) \/ Spawn(p)
    BY <2>3 DEF EndPass, TakeLock, Overlap, Recheck, Begin, Spawn
  <2>4. CASE Finish(p) \/ Unlock(p) \/ Fail(p) \/ CheckRemove(p) \/ RemovedRowWritten(p)
    BY <2>4 DEF Finish, Unlock, Fail, CheckRemove, RemovedRowWritten
  <2> QED BY <1>2, <2>1, <2>2, <2>3, <2>4 DEF Step
<1>3. ASSUME NEW p \in Procs, Die(p) PROVE stepped' = stepped
  BY <1>3 DEF Die
<1>4. CASE \/ \E p \in RunDue : AgePass(p)
           \/ \E w \in Wakes : ChildExit(w) \/ Age(w)
           \/ Tick \/ UNCHANGED vars
  BY <1>4 DEF AgePass, ChildExit, Age, Tick, vars
<1> QED BY <1>1, <1>2, <1>3, <1>4 DEF Next

\* In every behaviour of passes, however many, whose clock has not stepped back:
\* when a pass is done with its reconcile, no job of jobs.json is behind the
\* start of a wake that a row of the ledger ends, whatever died or failed
\* between the row, the stamp, the merge and the save (_recover_stamps,
\* merge_touched and the save at the end of reconcile).
THEOREM StoreIsCaughtUp == Spec => [](Alone => StoreCaughtUp)
<1> DEFINE Inv ==
      /\ TypeInv
      /\ Alone => WriterInv /\ RefireInv /\ (stepped = 0 => CaughtInv)
<1>1. Init => Inv
  BY InitTypeInv, InitWriterInv, InitRefireInv, InitCaughtInv
<1>2. ASSUME Inv, [Next]_vars PROVE Inv'
  <2>1. setting' = setting /\ TypeInv'
    BY <1>2, WorldTypes, TypeStep
  <2>2. Alone' => Alone
    BY <2>1 DEF Alone, Given
  <2>3. Alone => Quiet
    BY DEF Alone, Quiet
  <2>4. Alone' => WriterInv' /\ RefireInv'
    BY <1>2, <2>2, <2>3, WriterStep, RefireStep
  <2>5. ASSUME Alone', stepped' = 0 PROVE CaughtInv'
    <3>1. ~StepBack
      <4>1. stepped \in Nat
        BY <1>2 DEF TypeInv, TypeOK
      <4> QED BY <2>5, <4>1 DEF StepBack
    <3>2. stepped = 0
      BY <1>2, <2>5, <3>1, OnlyStepBackCounts
    <3> QED BY <1>2, <2>2, <2>4, <2>5, <3>1, <3>2, CaughtStep
  <2> QED BY <2>1, <2>4, <2>5
<1>3. Inv => (Alone => StoreCaughtUp)
  <2> SUFFICES ASSUME Inv, Alone, NEW p \in RunDue, At(p, "enter"), stepped = 0,
                      NEW j \in Jobs, NEW i \in StampingAt(ledger, j), disk[j] # NoJob
               PROVE  disk[j].started >= StartOf(ledger, i)
    BY DEF StoreCaughtUp
  <2> DEFINE m == proc[p]
  <2>1. m.pc = "enter" /\ Ahead(disk, ledger, m) /\ Touching(m) /\ OnceInv(ledger)
    BY DEF At, CaughtInv, RefireInv, Rule, WriterInv
  <2> HIDE DEF m
  <2>2. Whole(disk, m) /\ m.touched = {}
    BY <2>1 DEF Ahead, Leaving, Ended, Touching
  <2>3. Caught(ledger, disk[j], j)
    BY <2>1, <2>2 DEF Ahead, Whole, Lost
  <2>4. i \in DOMAIN ledger /\ Stamping(ledger, j, i)
    BY DEF StampingAt, Stamping
  <2> QED BY <2>1, <2>3, <2>4, MetIsStartOf DEF Caught
<1> HIDE DEF Inv
<1> QED BY <1>1, <1>2, <1>3, PTL DEF Spec

-----------------------------------------------------------------------------
(* The failure streak                                                      *)

\* The wakes of the job that ended in a state that may count, as the property
\* has them, and what a record has counted, or will by a receipt.
Counting(rows, j) ==
  {k \in DOMAIN rows : /\ rows[k].event = "finished" /\ rows[k].job = j
                       /\ rows[k].state \in BadStates \cup {"detached"}}
BadWakes(rows, j) == {rows[i].wake : i \in Counting(rows, j)}
Told(r) == r.fails + IF r.state = "detached" THEN 1 ELSE 0

\* The row recovery would stamp.
Newest(rows, j, i) == i \in StampingAt(rows, j) /\ \A k \in StampingAt(rows, j) : k <= i

\* The record has not counted wake w, or is not behind its start, ts, so that
\* recovery does not count it again.
Apart(rows, r, j, w, ts) ==
  Told(r) <= Cardinality(BadWakes(rows, j) \ {w}) \/ r.started >= ts

\* A record of the job has counted no more wakes than there are, and the newest
\* of them not if recovery may yet count it.
Tallied(rows, r, j) ==
  /\ Told(r) <= Cardinality(BadWakes(rows, j))
  /\ \A i \in DOMAIN rows : Newest(rows, j, i) => Apart(rows, r, j, rows[i].wake, StartOf(rows, i))

\* A reconcile recovers from the rows it read; those since are of wakes it has
\* closed and stamped.
Closing(rows, m) ==
  m.pc = "close" =>
    /\ \A k \in DOMAIN rows : k > m.rows => rows[k].event # "started"
    /\ \A j \in Jobs : m.mem[j] # NoJob =>
         LET read == SubSeq(rows, 1, m.rows) IN
           /\ \A i \in DOMAIN read :
                Newest(read, j, i) => Apart(rows, m.mem[j], j, read[i].wake, StartOf(read, i))
           /\ \A k \in StampingAt(rows, j) : k > m.rows => m.mem[j].started >= StartOf(rows, k)

\* The wake that runs has its started row.
Begun(rows, m) ==
  m.pc \in {"spawn", "wait"} =>
    \E i \in DOMAIN rows :
      rows[i].event = "started" /\ rows[i].wake = m.cur /\ rows[i].ts = m.started

\* The inductive invariant of the streak.
StreakInv ==
  /\ \A j \in Jobs : disk[j] # NoJob => Tallied(ledger, disk[j], j)
  /\ \A p \in Procs : \A j \in Jobs : proc[p].mem[j] # NoJob => Tallied(ledger, proc[p].mem[j], j)
  /\ \A p \in RunDue : Closing(ledger, proc[p]) /\ Begun(ledger, proc[p])

-----------------------------------------------------------------------------
(* Wakes and how many                                                      *)

\* The wakes of a ledger are finitely many, and over.
LEMMA BadFinite ==
  ASSUME NEW rows \in Seq(Rows), NEW j
  PROVE  /\ IsFiniteSet(BadWakes(rows, j)) /\ Cardinality(BadWakes(rows, j)) \in Nat
         /\ \A w : /\ IsFiniteSet(BadWakes(rows, j) \ {w})
                   /\ Cardinality(BadWakes(rows, j) \ {w}) \in Nat
                   /\ w \in BadWakes(rows, j) => FinishedIn(rows, w)
                   /\ w \in BadWakes(rows, j) =>
                        Cardinality(BadWakes(rows, j)) = Cardinality(BadWakes(rows, j) \ {w}) + 1
                   /\ w \notin BadWakes(rows, j) => BadWakes(rows, j) \ {w} = BadWakes(rows, j)
<1> DEFINE S == Counting(rows, j)
           T == BadWakes(rows, j)
           f == [i \in S |-> rows[i].wake]
<1>1. IsFiniteSet(S)
  <2>1. DOMAIN rows = 1..Len(rows) /\ Len(rows) \in Int /\ 1 \in Int
    OBVIOUS
  <2>2. IsFiniteSet(DOMAIN rows)
    BY <2>1, FS_Interval
  <2>3. S \in SUBSET DOMAIN rows
    BY DEF Counting
  <2> QED BY <2>2, <2>3, FS_Subset
<1>2. f \in Surjection(S, T)
  <2>1. T = {rows[i].wake : i \in S}
    BY DEF BadWakes
  <2> HIDE DEF S, T
  <2> QED BY <2>1 DEF Surjection
<1>3. \A w \in T : FinishedIn(rows, w)
  BY DEF BadWakes, Counting, FinishedIn
<1> HIDE DEF S, T, f
<1>4. IsFiniteSet(T)
  BY <1>1, <1>2, FS_Surjection
<1>5. Cardinality(T) \in Nat
  BY <1>4, FS_CardinalityType
<1>6. ASSUME NEW w
      PROVE  /\ IsFiniteSet(T \ {w}) /\ Cardinality(T \ {w}) \in Nat
             /\ w \in T => Cardinality(T) = Cardinality(T \ {w}) + 1
             /\ w \notin T => T \ {w} = T
  <2>1. IsFiniteSet(T \ {w}) /\ (w \in T => Cardinality(T \ {w}) = Cardinality(T) - 1)
    BY <1>4, FS_RemoveElement
  <2>2. Cardinality(T \ {w}) \in Nat
    BY <2>1, FS_CardinalityType
  <2> QED BY <1>5, <2>1, <2>2
<1> QED BY <1>3, <1>4, <1>5, <1>6 DEF T

\* A row that ends a wake in a state that may count adds it; no other does.
LEMMA BadMore ==
  ASSUME NEW rows \in Seq(Rows), NEW row \in Rows, NEW j
  PROVE  BadWakes(Append(rows, row), j) =
           IF row.event = "finished" /\ row.job = j /\ row.state \in BadStates \cup {"detached"}
             THEN BadWakes(rows, j) \cup {row.wake} ELSE BadWakes(rows, j)
<1> DEFINE more == Append(rows, row)
           counts == row.event = "finished" /\ row.job = j /\ row.state \in BadStates \cup {"detached"}
<1>1. /\ \A i \in DOMAIN rows : i \in DOMAIN more /\ more[i] = rows[i] /\ i # Len(more)
      /\ Len(more) \in DOMAIN more /\ more[Len(more)] = row
      /\ \A i \in DOMAIN more : i \in DOMAIN rows \/ i = Len(more)
  BY RowMore
<1> HIDE DEF more
<1>2. Counting(more, j) = IF counts THEN Counting(rows, j) \cup {Len(more)} ELSE Counting(rows, j)
  BY <1>1 DEF Counting
<1>3. \A i \in Counting(rows, j) : more[i] = rows[i]
  BY <1>1 DEF Counting
<1> HIDE DEF counts
<1>4. BadWakes(more, j) = IF counts THEN BadWakes(rows, j) \cup {row.wake} ELSE BadWakes(rows, j)
  BY <1>1, <1>2, <1>3 DEF BadWakes
<1> QED BY <1>4 DEF more, counts

\* Among a row more no fewer wakes count, the others than some w included; and
\* a wake that was not over counts one more.
LEMMA BadGrows ==
  ASSUME NEW rows \in Seq(Rows), NEW row \in Rows, NEW j
  PROVE  LET more == Append(rows, row)
         IN /\ Cardinality(BadWakes(more, j)) >= Cardinality(BadWakes(rows, j))
            /\ \A w : Cardinality(BadWakes(more, j) \ {w}) >= Cardinality(BadWakes(rows, j) \ {w})
            /\ row.event = "finished" /\ ~FinishedIn(rows, row.wake) =>
                 BadWakes(more, j) \ {row.wake} = BadWakes(rows, j)
            /\ /\ row.event = "finished" /\ ~FinishedIn(rows, row.wake) /\ row.job = j
               /\ row.state \in BadStates \cup {"detached"}
               => /\ Cardinality(BadWakes(more, j)) = Cardinality(BadWakes(rows, j)) + 1
                  /\ \A w : w # row.wake =>
                       Cardinality(BadWakes(more, j) \ {w}) = Cardinality(BadWakes(rows, j) \ {w}) + 1
<1> DEFINE more == Append(rows, row)
           B == BadWakes(rows, j)
           C == BadWakes(more, j)
           v == row.wake
<1>1. more \in Seq(Rows)
  OBVIOUS
<1>2. C = IF row.event = "finished" /\ row.job = j /\ row.state \in BadStates \cup {"detached"}
            THEN B \cup {v} ELSE B
  BY BadMore
<1>3. /\ IsFiniteSet(B) /\ Cardinality(B) \in Nat /\ IsFiniteSet(C) /\ Cardinality(C) \in Nat
      /\ \A w : /\ IsFiniteSet(B \ {w}) /\ IsFiniteSet(C \ {w}) /\ Cardinality(B \ {w}) \in Nat
                /\ Cardinality(C \ {w}) \in Nat
      /\ ~FinishedIn(rows, v) => v \notin B
  BY <1>1, BadFinite
<1> HIDE DEF B, C, more, v
<1>4. B \subseteq C /\ \A w : B \ {w} \subseteq C \ {w}
  BY <1>2
<1>5. Cardinality(C) >= Cardinality(B)
  BY <1>3, <1>4, FS_Subset
<1>6. ASSUME NEW w PROVE Cardinality(C \ {w}) >= Cardinality(B \ {w})
  <2>1. B \ {w} \in SUBSET (C \ {w}) /\ IsFiniteSet(C \ {w})
        /\ Cardinality(C \ {w}) \in Nat /\ Cardinality(B \ {w}) \in Nat
    BY <1>3, <1>4
  <2>2. Cardinality(B \ {w}) <= Cardinality(C \ {w})
    BY <2>1, FS_Subset
  <2> QED BY <2>1, <2>2
<1>7. row.event = "finished" /\ ~FinishedIn(rows, v) => C \ {v} = B
  BY <1>2, <1>3
<1>8. ASSUME row.event = "finished", ~FinishedIn(rows, v), row.job = j,
             row.state \in BadStates \cup {"detached"}
      PROVE  /\ Cardinality(C) = Cardinality(B) + 1
             /\ \A w : w # v => Cardinality(C \ {w}) = Cardinality(B \ {w}) + 1
  <2>1. C = B \cup {v} /\ v \notin B
    BY <1>2, <1>3, <1>8
  <2>2. Cardinality(C) = Cardinality(B) + 1
    BY <1>3, <2>1, FS_AddElement
  <2>3. ASSUME NEW w, w # v PROVE Cardinality(C \ {w}) = Cardinality(B \ {w}) + 1
    <3>1. C \ {w} = (B \ {w}) \cup {v} /\ v \notin B \ {w}
      BY <2>1, <2>3
    <3> QED BY <1>3, <3>1, FS_AddElement
  <2> QED BY <2>2, <2>3
<1> QED BY <1>5, <1>6, <1>7, <1>8 DEF B, C, more, v

\* The same of the wakes other than one.
LEMMA OthersGrow ==
  ASSUME NEW rows \in Seq(Rows), NEW row \in Rows, NEW w, w # row.wake,
         row.event = "finished", ~FinishedIn(rows, row.wake),
         row.state \in BadStates \cup {"detached"}
  PROVE  Cardinality(BadWakes(Append(rows, row), row.job) \ {w}) =
            Cardinality(BadWakes(rows, row.job) \ {w}) + 1
<1> DEFINE B == BadWakes(rows, row.job)
           C == BadWakes(Append(rows, row), row.job)
           v == row.wake
<1>1. C = B \cup {v} /\ v \notin B /\ IsFiniteSet(B \ {w}) /\ v # w
  BY BadMore, BadFinite
<1> HIDE DEF B, C, v
<1>2. C \ {w} = (B \ {w}) \cup {v} /\ v \notin B \ {w}
  BY <1>1
<1>3. Cardinality(C \ {w}) = Cardinality(B \ {w}) + 1
  BY <1>1, <1>2, FS_AddElement
<1> QED BY <1>3 DEF B, C

-----------------------------------------------------------------------------
(* Rows and records                                                        *)

\* The start of a wake is what it was, unless the row starts the same wake.
LEMMA StartOfMore ==
  ASSUME NEW rows \in Seq(Rows), NEW row \in Rows, NEW i \in DOMAIN rows,
         row.event = "started" => row.wake # rows[i].wake,
         OnceInv(rows), OnceInv(Append(rows, row))
  PROVE  StartOf(Append(rows, row), i) = StartOf(rows, i)
<1> DEFINE more == Append(rows, row)
<1>1. /\ \A k \in DOMAIN rows : k \in DOMAIN more /\ more[k] = rows[k]
      /\ more[Len(more)] = row
      /\ \A k \in DOMAIN more : k \in DOMAIN rows \/ k = Len(more)
      /\ OnceInv(more)
  BY RowMore
<1> HIDE DEF more
<1>2. CASE \E k \in DOMAIN rows : rows[k].event = "started" /\ rows[k].wake = rows[i].wake
  <2>1. PICK k \in DOMAIN rows : rows[k].event = "started" /\ rows[k].wake = rows[i].wake
    BY <1>2
  <2>2. StartOf(rows, i) = rows[k].ts
    BY <2>1, StartOfIs
  <2>3. k \in DOMAIN more /\ i \in DOMAIN more /\ more[k].event = "started" /\ more[k].wake = more[i].wake
    BY <1>1, <2>1
  <2>4. StartOf(more, i) = more[k].ts
    BY <1>1, <2>3, StartOfIs
  <2> QED BY <1>1, <2>2, <2>4 DEF more
<1>3. CASE ~\E k \in DOMAIN rows : rows[k].event = "started" /\ rows[k].wake = rows[i].wake
  <2>1. ~\E k \in DOMAIN more : more[k].event = "started" /\ more[k].wake = more[i].wake
    BY <1>1, <1>3
  <2>2. StartOf(more, i) = more[i].ts /\ StartOf(rows, i) = rows[i].ts
    BY <1>3, <2>1 DEF StartOf
  <2> QED BY <1>1, <2>2 DEF more
<1> QED BY <1>2, <1>3

\* The start of a wake is a number.
LEMMA StartOfType ==
  ASSUME NEW rows \in Seq(Rows), OnceInv(rows), NEW i \in DOMAIN rows
  PROVE  StartOf(rows, i) \in Nat
<1>1. \A k \in DOMAIN rows : rows[k].ts \in Nat
  BY DEF Rows
<1>2. CASE \E k \in DOMAIN rows : rows[k].event = "started" /\ rows[k].wake = rows[i].wake
  BY <1>1, <1>2, StartOfIs
<1>3. CASE ~\E k \in DOMAIN rows : rows[k].event = "started" /\ rows[k].wake = rows[i].wake
  BY <1>1, <1>3 DEF StartOf
<1> QED BY <1>2, <1>3

\* What recovery considers of a row more.
LEMMA StampingMore ==
  ASSUME NEW rows \in Seq(Rows), NEW row \in Rows, NEW j
  PROVE  LET more == Append(rows, row)
         IN /\ \A i \in StampingAt(more, j) :
                 \/ i \in StampingAt(rows, j) /\ i \in DOMAIN rows /\ more[i] = rows[i]
                 \/ /\ i = Len(more) /\ row.event = "finished" /\ row.job = j
                    /\ row.state \notin UnstampedStates
            /\ row.event = "removed" /\ row.job = j => StampingAt(more, j) = {}
            /\ ~(row.event = "removed" /\ row.job = j) => StampingAt(rows, j) \subseteq StampingAt(more, j)
            /\ row.event = "finished" /\ row.job = j /\ row.state \notin UnstampedStates =>
                 Len(more) \in StampingAt(more, j)
<1> DEFINE more == Append(rows, row)
<1>1. /\ DOMAIN rows = 1..Len(rows) /\ DOMAIN more = 1..Len(more) /\ Len(more) = Len(rows) + 1
      /\ Len(rows) \in Nat
      /\ \A k \in DOMAIN rows : k \in DOMAIN more /\ more[k] = rows[k] /\ k # Len(more) /\ k < Len(more)
      /\ more[Len(more)] = row /\ Len(more) \in DOMAIN more
      /\ \A k \in DOMAIN more : k \in DOMAIN rows \/ k = Len(more)
  BY RowMore
<1> HIDE DEF more
<1>2. \A i \in DOMAIN rows : StillTheJob(more, i) <=>
        StillTheJob(rows, i) /\ ~(row.event = "removed" /\ row.job = rows[i].job)
  BY <1>1 DEF StillTheJob
<1>3. StillTheJob(more, Len(more))
  BY <1>1 DEF StillTheJob
<1>4. \A i \in StampingAt(more, j) : i \in DOMAIN more
  BY DEF StampingAt
<1>5. ASSUME NEW i \in StampingAt(more, j), i \in DOMAIN rows
      PROVE  i \in StampingAt(rows, j) /\ more[i] = rows[i] /\ ~(row.event = "removed" /\ row.job = j)
  BY <1>1, <1>2, <1>5 DEF StampingAt
<1>6. ASSUME Len(more) \in StampingAt(more, j)
      PROVE  row.event = "finished" /\ row.job = j /\ row.state \notin UnstampedStates
  BY <1>1, <1>6 DEF StampingAt
<1>7. ASSUME ~(row.event = "removed" /\ row.job = j), NEW i \in StampingAt(rows, j)
      PROVE  i \in StampingAt(more, j)
  BY <1>1, <1>2, <1>7 DEF StampingAt
<1>8. row.event = "finished" /\ row.job = j /\ row.state \notin UnstampedStates =>
        Len(more) \in StampingAt(more, j)
  BY <1>1, <1>3 DEF StampingAt
<1>9. \A i \in StampingAt(more, j) :
        \/ i \in StampingAt(rows, j) /\ i \in DOMAIN rows /\ more[i] = rows[i]
        \/ i = Len(more) /\ row.event = "finished" /\ row.job = j /\ row.state \notin UnstampedStates
  BY <1>1, <1>4, <1>5, <1>6
<1>10. row.event = "removed" /\ row.job = j => StampingAt(more, j) = {}
  BY <1>1, <1>4, <1>5, <1>6
<1> QED BY <1>7, <1>8, <1>9, <1>10 DEF more

\* The newest of a row more: the row, if it is one that stamps the job, else
\* the one that was.
LEMMA NewestMore ==
  ASSUME NEW rows \in Seq(Rows), NEW row \in Rows, NEW j, NEW i, Newest(Append(rows, row), j, i)
  PROVE  LET more == Append(rows, row)
         IN IF row.event = "finished" /\ row.job = j /\ row.state \notin UnstampedStates
              THEN i = Len(more) /\ more[i] = row
              ELSE i \in DOMAIN rows /\ Newest(rows, j, i) /\ more[i] = rows[i]
<1> DEFINE more == Append(rows, row)
           stamps == row.event = "finished" /\ row.job = j /\ row.state \notin UnstampedStates
<1>1. /\ Len(more) \in Nat /\ more[Len(more)] = row
      /\ i \in StampingAt(more, j) /\ \A k \in StampingAt(more, j) : k <= i
      /\ \A k \in DOMAIN more : k \in Nat /\ k <= Len(more)
  BY RowMore DEF Newest
<1>2. i \in DOMAIN more
  BY <1>1 DEF StampingAt
<1>3. /\ \/ i \in StampingAt(rows, j) /\ i \in DOMAIN rows /\ more[i] = rows[i]
         \/ i = Len(more) /\ stamps
      /\ row.event = "removed" /\ row.job = j => StampingAt(more, j) = {}
      /\ ~(row.event = "removed" /\ row.job = j) => StampingAt(rows, j) \subseteq StampingAt(more, j)
      /\ stamps => Len(more) \in StampingAt(more, j)
  BY <1>1, StampingMore
<1> HIDE DEF more
<1>4. CASE stamps
  <2>1. i = Len(more)
    BY <1>1, <1>2, <1>3, <1>4
  <2> QED BY <1>1, <1>4, <2>1 DEF more
<1>5. CASE ~stamps
  <2>1. i \in StampingAt(rows, j) /\ i \in DOMAIN rows /\ more[i] = rows[i]
    BY <1>3, <1>5
  <2>2. \A k \in StampingAt(rows, j) : k <= i
    BY <1>1, <1>3
  <2> QED BY <1>5, <2>1, <2>2 DEF Newest, more
<1> QED BY <1>4, <1>5

\* What a record has told is a number.
LEMMA ToldType ==
  ASSUME NEW r \in Records
  PROVE  Told(r) \in Nat /\ r.fails \in Nat /\ r.started \in Nat /\ Told(r) >= r.fails
BY DEF Told, Records

\* A record that told no more and starts no earlier has counted as well.
SameTold(r, n) == n.fails = r.fails /\ n.state = r.state /\ n.started = r.started

LEMMA SameTallied ==
  ASSUME NEW rows, NEW r, NEW n, SameTold(r, n)
  PROVE  /\ \A j : Tallied(rows, r, j) => Tallied(rows, n, j)
         /\ \A j : \A w : \A ts : Apart(rows, r, j, w, ts) => Apart(rows, n, j, w, ts)
<1>1. Told(n) = Told(r) /\ n.started = r.started
  BY DEF SameTold, Told
<1> QED BY <1>1 DEF Tallied, Apart

LEMMA LessTallied ==
  ASSUME NEW rows \in Seq(Rows), OnceInv(rows), NEW r \in Records, NEW n \in Records,
         Told(n) <= Told(r), n.started >= r.started, NEW j
  PROVE  /\ Tallied(rows, r, j) => Tallied(rows, n, j)
         /\ \A w : \A ts \in Nat : Apart(rows, r, j, w, ts) => Apart(rows, n, j, w, ts)
<1>1. /\ Told(r) \in Nat /\ Told(n) \in Nat /\ r.started \in Nat /\ n.started \in Nat
      /\ Cardinality(BadWakes(rows, j)) \in Nat
      /\ \A w : Cardinality(BadWakes(rows, j) \ {w}) \in Nat
  BY ToldType, BadFinite
<1>2. ASSUME NEW w, NEW ts \in Nat, Apart(rows, r, j, w, ts) PROVE Apart(rows, n, j, w, ts)
  <2>1. Cardinality(BadWakes(rows, j) \ {w}) \in Nat
    BY <1>1
  <2> QED BY <1>1, <1>2, <2>1 DEF Apart
<1>3. \A i \in DOMAIN rows : StartOf(rows, i) \in Nat
  BY StartOfType
<1>4. Tallied(rows, r, j) => Tallied(rows, n, j)
  BY <1>1, <1>2, <1>3 DEF Tallied
<1> QED BY <1>2, <1>4

\* A record that has told nothing.
LEMMA NothingTold ==
  ASSUME NEW rows \in Seq(Rows), NEW r, Told(r) = 0, NEW j
  PROVE  Tallied(rows, r, j) /\ \A w : \A ts : Apart(rows, r, j, w, ts)
<1>1. /\ Cardinality(BadWakes(rows, j)) \in Nat
      /\ \A w : Cardinality(BadWakes(rows, j) \ {w}) \in Nat
  BY BadFinite
<1>2. ASSUME NEW w, NEW ts PROVE Apart(rows, r, j, w, ts)
  <2>1. Cardinality(BadWakes(rows, j) \ {w}) \in Nat
    BY <1>1
  <2> QED BY <2>1 DEF Apart
<1> QED BY <1>1, <1>2 DEF Tallied

\* A receipt's verdict counts the detached wake in the place of its state.
LEMMA JudgeTold ==
  ASSUME NEW r \in Records, NEW c \in Receipts \cup {NoReceipt}
  PROVE  LET n == JudgeReceipt(r, c)
         IN n \in Records /\ n # NoJob /\ Told(n) <= Told(r) /\ n.started = r.started
<1> DEFINE n == JudgeReceipt(r, c)
<1>1. n \in Records /\ n # NoJob /\ n.started = r.started
  <2>1. n \in Records \cup {NoJob}
    BY JudgeType
  <2>2. r # NoJob
    BY NoJobAssumption
  <2> QED BY <2>1, <2>2, JudgeSame DEF Same
<1>2. r.fails \in Nat
  BY DEF Records
<1>3. ASSUME ~ReceiptJudges(r, c) PROVE Told(n) <= Told(r)
  BY <1>2, <1>3, ToldType DEF JudgeReceipt
<1>4. ASSUME ReceiptJudges(r, c) PROVE Told(n) <= Told(r)
  <2>1. r.state = "detached"
    BY <1>4 DEF ReceiptJudges
  <2>2. CASE c.ok
    <3>1. n = [r EXCEPT !.state = "success", !.fails = 0]
      BY <1>4, <2>2 DEF JudgeReceipt
    <3>2. n.fails = 0 /\ n.state = "success"
      BY <3>1 DEF Records
    <3> HIDE DEF n
    <3> QED BY <1>1, <1>2, <2>1, <3>2 DEF Told
  <2>3. CASE ~c.ok
    <3>1. n = [r EXCEPT !.state = "failure", !.fails = @ + 1]
      BY <1>4, <2>3 DEF JudgeReceipt
    <3>2. n.fails = r.fails + 1 /\ n.state = "failure"
      BY <3>1 DEF Records
    <3> HIDE DEF n
    <3> QED BY <1>1, <1>2, <2>1, <3>2 DEF Told
  <2> QED BY <2>2, <2>3
<1> QED BY <1>1, <1>3, <1>4

\* What a row more does to a record that is left as it is: the wake that the row
\* ends was not over, so the record has not counted it.
LEMMA TalliedMore ==
  ASSUME NEW rows \in Seq(Rows), NEW row \in Rows, OnceInv(rows), OnceInv(Append(rows, row)),
         row.event \in {"started", "finished"} => ~FinishedIn(rows, row.wake),
         NEW r \in Records, NEW j
  PROVE  LET more == Append(rows, row)
         IN /\ Tallied(rows, r, j) => Tallied(more, r, j)
            /\ \A w : \A ts \in Nat : Apart(rows, r, j, w, ts) => Apart(more, r, j, w, ts)
<1> DEFINE more == Append(rows, row)
<1>1. /\ Told(r) \in Nat /\ r.started \in Nat /\ more \in Seq(Rows)
      /\ Cardinality(BadWakes(rows, j)) \in Nat /\ Cardinality(BadWakes(more, j)) \in Nat
      /\ Cardinality(BadWakes(more, j)) >= Cardinality(BadWakes(rows, j))
      /\ \A w : /\ Cardinality(BadWakes(rows, j) \ {w}) \in Nat
                /\ Cardinality(BadWakes(more, j) \ {w}) \in Nat
                /\ Cardinality(BadWakes(more, j) \ {w}) >= Cardinality(BadWakes(rows, j) \ {w})
  <2>1. more \in Seq(Rows)
    OBVIOUS
  <2>2. /\ Cardinality(BadWakes(rows, j)) \in Nat /\ Cardinality(BadWakes(more, j)) \in Nat
        /\ \A w : /\ Cardinality(BadWakes(rows, j) \ {w}) \in Nat
                  /\ Cardinality(BadWakes(more, j) \ {w}) \in Nat
    BY <2>1, BadFinite
  <2> QED BY <2>1, <2>2, ToldType, BadGrows
<1>2. ASSUME NEW w, NEW ts \in Nat, Apart(rows, r, j, w, ts) PROVE Apart(more, r, j, w, ts)
  <2>1. /\ Cardinality(BadWakes(rows, j) \ {w}) \in Nat
        /\ Cardinality(BadWakes(more, j) \ {w}) \in Nat
        /\ Cardinality(BadWakes(more, j) \ {w}) >= Cardinality(BadWakes(rows, j) \ {w})
    BY <1>1
  <2> HIDE DEF more
  <2> QED BY <1>1, <1>2, <2>1 DEF Apart
<1>3. ASSUME Tallied(rows, r, j), NEW i \in DOMAIN more, Newest(more, j, i)
      PROVE  Apart(more, r, j, more[i].wake, StartOf(more, i))
  <2>1. CASE row.event = "finished" /\ row.job = j /\ row.state \notin UnstampedStates
    <3>1. more[i] = row
      BY <1>3, <2>1, NewestMore
    <3>2. BadWakes(more, j) \ {row.wake} = BadWakes(rows, j)
      BY <2>1, BadGrows
    <3> HIDE DEF more
    <3> QED BY <1>3, <3>1, <3>2 DEF Tallied, Apart
  <2>2. CASE ~(row.event = "finished" /\ row.job = j /\ row.state \notin UnstampedStates)
    <3>1. i \in DOMAIN rows /\ Newest(rows, j, i) /\ more[i] = rows[i]
      BY <1>3, <2>2, NewestMore
    <3>2. row.event = "started" => row.wake # rows[i].wake
      BY <3>1 DEF Newest, StampingAt, FinishedIn
    <3>3. StartOf(more, i) = StartOf(rows, i) /\ StartOf(rows, i) \in Nat
      BY <3>1, <3>2, StartOfMore, StartOfType
    <3>4. Apart(rows, r, j, rows[i].wake, StartOf(rows, i))
      BY <1>3, <3>1 DEF Tallied
    <3> HIDE DEF more
    <3> QED BY <1>2, <3>1, <3>3, <3>4
  <2> QED BY <2>1, <2>2
<1>4. ASSUME Tallied(rows, r, j) PROVE Tallied(more, r, j)
  <2>1. Told(r) <= Cardinality(BadWakes(more, j))
    <3> HIDE DEF more
    <3> QED BY <1>1, <1>4 DEF Tallied
  <2> QED BY <1>3, <1>4, <2>1 DEF Tallied
<1> QED BY <1>2, <1>4

\* What a stamp by the row's wake makes of a record: it counts the wake, or
\* may by its receipt, and is not behind its start; or it does not count it.
LEMMA StampTold ==
  ASSUME NEW r \in Records, NEW w \in Wakes, NEW ts \in Nat,
         NEW state \in States \cup {"none"}, NEW executed \in BOOLEAN
  PROVE  LET n == Stamp(r, w, ts, state, executed)
         IN /\ n \in Records /\ n.started >= ts /\ Told(n) <= Told(r) + 1
            /\ state \notin BadStates \cup {"detached"} => Told(n) <= Told(r)
            /\ ~executed => n.started >= r.started
<1> DEFINE n == Stamp(r, w, ts, state, executed)
<1>1. n \in Records /\ n.started >= ts /\ (~executed => n.started >= r.started)
  BY StampMoves
<1>2. /\ n.fails = IF state \in BadStates THEN r.fails + 1 ELSE IF state = "success" THEN 0 ELSE r.fails
      /\ n.state = state
  BY DEF Stamp, Records
<1>3. r.fails \in Nat
  BY DEF Records
<1> HIDE DEF n
<1>4. Told(n) <= Told(r) + 1 /\ (state \notin BadStates \cup {"detached"} => Told(n) <= Told(r))
  BY <1>2, <1>3 DEF Told, BadStates
<1> QED BY <1>1, <1>4 DEF n

LEMMA StampTallied ==
  ASSUME NEW rows \in Seq(Rows), NEW row \in Rows, OnceInv(rows), OnceInv(Append(rows, row)),
         row.event = "finished", ~FinishedIn(rows, row.wake), row.state \notin UnstampedStates,
         NEW r \in Records, Tallied(rows, r, row.job), NEW ts \in Nat, NEW executed \in BOOLEAN,
         row.state \in BadStates \cup {"detached"} =>
           ts >= StartOf(Append(rows, row), Len(Append(rows, row)))
  PROVE  LET n == Stamp(r, row.wake, ts, row.state, executed)
         IN n \in Records /\ Tallied(Append(rows, row), n, row.job)
<1> DEFINE more == Append(rows, row)
           n == Stamp(r, row.wake, ts, row.state, executed)
           j == row.job
           counts == row.state \in BadStates \cup {"detached"}
<1>1. row.wake \in Wakes /\ row.state \in States \cup {"none"}
  BY DEF Rows
<1>2. /\ n \in Records /\ n.started >= ts /\ Told(n) <= Told(r) + 1
      /\ ~counts => Told(n) <= Told(r)
  BY <1>1, StampTold
<1>3. /\ Told(r) \in Nat /\ Told(n) \in Nat /\ n.started \in Nat
      /\ Cardinality(BadWakes(rows, j)) \in Nat /\ Cardinality(BadWakes(more, j)) \in Nat
      /\ Cardinality(BadWakes(more, j)) >= Cardinality(BadWakes(rows, j))
      /\ Cardinality(BadWakes(more, j) \ {row.wake}) = Cardinality(BadWakes(rows, j))
      /\ counts => Cardinality(BadWakes(more, j)) = Cardinality(BadWakes(rows, j)) + 1
  <2>1. more \in Seq(Rows)
    OBVIOUS
  <2>2. Cardinality(BadWakes(rows, j)) \in Nat /\ Cardinality(BadWakes(more, j)) \in Nat
    BY <2>1, BadFinite
  <2>3. Told(r) \in Nat /\ Told(n) \in Nat /\ n.started \in Nat
    <3> HIDE DEF n
    <3> QED BY <1>2, ToldType
  <2>4. /\ Cardinality(BadWakes(more, j)) >= Cardinality(BadWakes(rows, j))
        /\ Cardinality(BadWakes(more, j) \ {row.wake}) = Cardinality(BadWakes(rows, j))
    BY BadGrows
  <2>5. counts => Cardinality(BadWakes(more, j)) = Cardinality(BadWakes(rows, j)) + 1
    BY BadGrows
  <2> QED BY <2>2, <2>3, <2>4, <2>5
<1>4. Told(r) <= Cardinality(BadWakes(rows, j))
  BY DEF Tallied
<1>5. /\ \A i : Newest(more, j, i) => i = Len(more) /\ more[i] = row
      /\ counts => ts >= StartOf(more, Len(more))
      /\ counts => StartOf(more, Len(more)) \in Nat
  <2>1. more \in Seq(Rows) /\ Len(more) \in DOMAIN more
    BY RowMore
  <2>2. StartOf(more, Len(more)) \in Nat
    BY <2>1, StartOfType
  <2>3. \A i : Newest(more, j, i) => i = Len(more) /\ more[i] = row
    BY NewestMore
  <2> QED BY <2>2, <2>3
<1> HIDE DEF more, n, j, counts
<1>6. Told(n) <= Cardinality(BadWakes(more, j))
  BY <1>2, <1>3, <1>4
<1>7. ASSUME NEW i \in DOMAIN more, Newest(more, j, i)
      PROVE  Apart(more, n, j, more[i].wake, StartOf(more, i))
  <2>1. i = Len(more) /\ more[i] = row
    BY <1>5, <1>7
  <2>2. CASE counts
    <3>1. n.started >= StartOf(more, Len(more))
      BY <1>2, <1>3, <1>5, <2>2
    <3> QED BY <2>1, <3>1 DEF Apart
  <2>3. CASE ~counts
    <3>1. Told(n) <= Cardinality(BadWakes(more, j) \ {row.wake})
      BY <1>2, <1>3, <1>4, <2>3
    <3> QED BY <2>1, <3>1 DEF Apart
  <2> QED BY <2>2, <2>3
<1>8. Tallied(more, n, j)
  BY <1>6, <1>7 DEF Tallied
<1> QED BY <1>2, <1>8 DEF more, n, j

-----------------------------------------------------------------------------
(* What a step must do                                                     *)

\* What reconcile has read does not change with a row more.
LEMMA ReadKept ==
  ASSUME NEW rows \in Seq(Rows), NEW row \in Rows, NEW n \in Nat, n <= Len(rows)
  PROVE  SubSeq(Append(rows, row), 1, n) = SubSeq(rows, 1, n)
<1> DEFINE more == Append(rows, row)
<1>1. /\ Len(rows) \in Nat /\ Len(more) = Len(rows) + 1 /\ more \in Seq(Rows)
      /\ \A i \in 1..Len(rows) : more[i] = rows[i]
  BY RowMore
<1> HIDE DEF more
<1>2. \A i \in 1..n : more[i] = rows[i] /\ more[i] \in Rows /\ rows[i] \in Rows
  BY <1>1
<1>3. SubSeq(more, 1, n) = [i \in 1..n |-> more[i]]
  BY <1>1, <1>2, SubSeqProperties
<1>4. SubSeq(rows, 1, n) = [i \in 1..n |-> rows[i]]
  BY <1>1, <1>2, SubSeqProperties
<1>5. SubSeq(more, 1, n) = SubSeq(rows, 1, n)
  BY <1>2, <1>3, <1>4
<1> QED BY <1>5 DEF more

\* A removed row leaves a reconcile and a wake under way as they are.
LEMMA ClosingMore ==
  ASSUME TypeInv, WriterInv, WriterInv', NEW j \in Jobs, NEW ts \in Nat, Write(RemovedRow(j, ts)),
         NEW p \in RunDue, Closing(ledger, proc[p]), Begun(ledger, proc[p])
  PROVE  Closing(ledger', proc[p]) /\ Begun(ledger', proc[p])
<1> DEFINE row == RemovedRow(j, ts)
           m == proc[p]
<1>1. /\ ledger \in Seq(Rows) /\ row \in Rows /\ row.event = "removed" /\ ledger' = Append(ledger, row)
      /\ OnceInv(ledger) /\ OnceInv(ledger') /\ m.rows \in Nat /\ m.rows <= Len(ledger)
      /\ m.mem \in Stores
  <2>1. p \in Procs /\ row \in Rows /\ row.event = "removed"
    BY PassAssumption, RowTypes DEF RemovedRow
  <2>2. Sound(m) /\ m.rows <= Len(ledger)
    BY <2>1 DEF TypeInv, SoundInv
  <2> HIDE DEF row, m
  <2> QED BY <2>1, <2>2, Mine DEF TypeInv, TypeOK, Write, WriterInv, row
<1>2. /\ \A i \in DOMAIN ledger : i \in DOMAIN ledger' /\ ledger'[i] = ledger[i]
      /\ ledger'[Len(ledger')] = row
      /\ \A i \in DOMAIN ledger' : i \in DOMAIN ledger \/ i = Len(ledger')
  BY <1>1, RowMore
<1> HIDE DEF row, m
<1>3. Begun(ledger', m)
  BY <1>2, Begun(ledger, proc[p]) DEF Begun, m
<1>4. ASSUME m.pc = "close" PROVE Closing(ledger', m)
  <2>1. SubSeq(ledger', 1, m.rows) = SubSeq(ledger, 1, m.rows) /\ SubSeq(ledger, 1, m.rows) \in Seq(Rows)
    BY <1>1, ReadKept
  <2> DEFINE read == SubSeq(ledger, 1, m.rows)
  <2>2. \A k \in DOMAIN ledger' : k > m.rows => ledger'[k].event # "started"
    BY <1>1, <1>2, <1>4, Closing(ledger, proc[p]) DEF Closing, m
  <2>3. DOMAIN read = 1..m.rows /\ \A i \in 1..m.rows : read[i] = ledger[i] /\ i \in DOMAIN ledger
    <3>1. p \in Procs
      BY PassAssumption
    <3> QED BY <1>1, SnapshotType DEF TypeInv
  <2>4. OnceInv(read)
    BY <1>1, <2>3 DEF OnceInv
  <2>5. \A i \in DOMAIN read : StartOf(read, i) \in Nat
    BY <2>1, <2>4, StartOfType
  <2> HIDE DEF read
  <2>6. ASSUME NEW k \in Jobs, m.mem[k] # NoJob, NEW i \in DOMAIN read, Newest(read, k, i)
        PROVE  Apart(ledger', m.mem[k], k, read[i].wake, StartOf(read, i))
    <3>1. Apart(ledger, m.mem[k], k, read[i].wake, StartOf(read, i))
      BY <1>4, <2>6, Closing(ledger, proc[p]) DEF Closing, m, read
    <3>2. m.mem[k] \in Records
      BY <1>1, <2>6 DEF Stores
    <3> QED BY <1>1, <2>5, <2>6, <3>1, <3>2, TalliedMore
  <2>7. ASSUME NEW k \in Jobs, m.mem[k] # NoJob, NEW i \in StampingAt(ledger', k), i > m.rows
        PROVE  m.mem[k].started >= StartOf(ledger', i)
    <3>1. i \in StampingAt(ledger, k) /\ i \in DOMAIN ledger
      BY <1>1, <2>7, StampingMore
    <3>2. StartOf(ledger', i) = StartOf(ledger, i)
      BY <1>1, <3>1, StartOfMore
    <3> QED BY <1>4, <2>7, <3>1, <3>2, Closing(ledger, proc[p]) DEF Closing, m
  <2> QED BY <2>1, <2>2, <2>6, <2>7 DEF Closing, read
<1>5. m.pc # "close" => Closing(ledger', m)
  BY DEF Closing
<1> QED BY <1>3, <1>4, <1>5 DEF m

\* What a step must do to keep the invariant: the row it writes starts no wake
\* that is over, and is not an operator's but of a removal.
LEMMA StreakGoesOn ==
  ASSUME TypeInv, WriterInv, WriterInv', StreakInv, NEW p \in Procs, NEW m, Becomes(p, m),
         \/ ledger' = ledger
         \/ \E j \in Jobs : \E ts \in Nat : Write(RemovedRow(j, ts))
         \/ /\ p \in RunDue /\ \A q \in RunDue \ {p} : ~Alive(q)
            /\ \E row \in Rows : Write(row) /\ (row.event = "started" => ~FinishedIn(ledger, row.wake)),
         \A j \in Jobs : disk'[j] \in {disk[j], NoJob} \/ Tallied(ledger', disk'[j], j),
         \A j \in Jobs : m.mem[j] \in {proc[p].mem[j], disk[j], NoJob} \/ Tallied(ledger', m.mem[j], j),
         p \in RunDue => Closing(ledger', m) /\ Begun(ledger', m)
  PROVE  StreakInv'
<1>1. /\ disk \in Stores /\ ledger \in Seq(Rows) /\ OnceInv(ledger) /\ OnceInv(ledger')
      /\ \A q \in Procs : proc[q].mem \in Stores
  BY LocalsFields DEF TypeInv, TypeOK, WriterInv, Stores
\* What was tallied is.
<1>2. ASSUME NEW r \in Records, NEW j, Tallied(ledger, r, j) PROVE Tallied(ledger', r, j)
  <2>1. ASSUME NEW row \in Rows, Write(row), row.event = "started" => ~FinishedIn(ledger, row.wake)
        PROVE  Tallied(ledger', r, j)
    <3>1. row.event \in {"started", "finished"} => ~FinishedIn(ledger, row.wake)
      BY <2>1, NotOverYet
    <3>2. ledger' = Append(ledger, row)
      BY <2>1 DEF Write
    <3> QED BY <1>1, <1>2, <3>1, <3>2, TalliedMore
  <2>2. ASSUME NEW k \in Jobs, NEW ts \in Nat, Write(RemovedRow(k, ts)) PROVE Tallied(ledger', r, j)
    <3>1. RemovedRow(k, ts) \in Rows /\ RemovedRow(k, ts).event # "started"
      BY RowTypes DEF RemovedRow
    <3> QED BY <2>1, <2>2, <3>1
  <2>3. CASE ledger' = ledger
    BY <1>2, <2>3
  <2> QED BY <2>1, <2>2, <2>3
<1>3. ASSUME NEW j \in Jobs, disk[j] # NoJob PROVE Tallied(ledger', disk[j], j)
  BY <1>1, <1>2, <1>3 DEF StreakInv, Stores
<1>4. ASSUME NEW q \in Procs, NEW j \in Jobs, proc[q].mem[j] # NoJob
      PROVE  Tallied(ledger', proc[q].mem[j], j)
  <2>1. proc[q].mem[j] \in Records
    BY <1>1, <1>4 DEF Stores
  <2> QED BY <1>2, <1>4, <2>1 DEF StreakInv
<1>5. \A j \in Jobs : disk'[j] # NoJob => Tallied(ledger', disk'[j], j)
  BY <1>3
<1>6. ASSUME NEW q \in Procs, NEW j \in Jobs, proc'[q].mem[j] # NoJob
      PROVE  Tallied(ledger', proc'[q].mem[j], j)
  <2>1. CASE q # p
    BY <1>4, <1>6, <2>1, OthersStay
  <2>2. CASE q = p /\ m.pc = "done"
    <3>1. proc'[q].mem[j] = NoJob
      BY <2>2, OthersStay DEF Fresh
    <3> QED BY <1>6, <3>1
  <2>3. CASE q = p /\ m.pc # "done"
    <3>1. proc'[q] = m
      BY <2>3, OthersStay
    <3> QED BY <1>3, <1>4, <1>6, <2>3, <3>1
  <2> QED BY <2>1, <2>2, <2>3
<1>7. ASSUME NEW q \in RunDue PROVE Closing(ledger', proc'[q]) /\ Begun(ledger', proc'[q])
  <2>0. q \in Procs
    BY PassAssumption
  <2>1. CASE q = p /\ m.pc = "done"
    <3>1. proc'[q].pc = "done"
      BY <2>1, OthersStay
    <3> QED BY <3>1 DEF Closing, Begun
  <2>2. CASE q = p /\ m.pc # "done"
    BY <1>7, <2>2, OthersStay
  <2>3. CASE q # p
    <3>1. proc'[q] = proc[q] /\ Closing(ledger, proc[q]) /\ Begun(ledger, proc[q])
      BY <2>0, <2>3, OthersStay DEF StreakInv
    <3>2. CASE ledger' = ledger
      BY <3>1, <3>2
    <3>3. CASE \E j \in Jobs : \E ts \in Nat : Write(RemovedRow(j, ts))
      BY <3>1, <3>3, ClosingMore
    <3>4. CASE ~Alive(q)
      BY <3>1, <3>4 DEF Alive, Closing, Begun
    <3> QED BY <2>3, <3>2, <3>3, <3>4
  <2> QED BY <2>1, <2>2, <2>3
<1> QED BY <1>5, <1>6, <1>7 DEF StreakInv

-----------------------------------------------------------------------------
(* What a pass does without a row                                          *)

\* A step that writes no row, nor ends in a reconcile.
LEMMA StreakMoves ==
  ASSUME TypeInv, WriterInv, WriterInv', StreakInv, NEW p \in Procs, NEW m, Becomes(p, m),
         ledger' = ledger,
         \A j \in Jobs : disk'[j] \in {disk[j], NoJob} \/ Tallied(ledger, disk'[j], j),
         \A j \in Jobs : m.mem[j] \in {proc[p].mem[j], disk[j], NoJob} \/ Tallied(ledger, m.mem[j], j),
         p \in RunDue => m.pc # "close" /\ Begun(ledger, m)
  PROVE  StreakInv'
<1>1. /\ \A j \in Jobs : disk'[j] \in {disk[j], NoJob} \/ Tallied(ledger', disk'[j], j)
      /\ \A j \in Jobs : m.mem[j] \in {proc[p].mem[j], disk[j], NoJob} \/ Tallied(ledger', m.mem[j], j)
      /\ p \in RunDue => Closing(ledger', m) /\ Begun(ledger', m)
  BY DEF Closing
<1> QED BY <1>1, StreakGoesOn

\* It begins, ends, fails or dies.
LEMMA EndStreak ==
  ASSUME TypeInv, WriterInv, WriterInv', StreakInv, NEW p \in Procs,
         \/ p \in RunDue /\ StartPass(p)
         \/ p \in RunDue \cup Operator /\ (Fail(p) \/ Die(p) \/ EndPass(p))
  PROVE  StreakInv'
<1> DEFINE me == proc[p]
<1>0. me \in Locals /\ disk' = disk /\ ledger' = ledger
  BY DEF StartPass, Fail, Die, EndPass, files, TypeInv, TypeOK
<1>1. CASE StartPass(p)
  <2>1. PICK pc \in {"done", "load"} : Becomes(p, [me EXCEPT !.pc = pc])
    BY <1>1 DEF StartPass, Goto
  <2> DEFINE n == [me EXCEPT !.pc = pc]
  <2>2. Becomes(p, n)
    BY <2>1
  <2> HIDE DEF me
  <2>3. n.pc = pc /\ n.mem = me.mem
    BY <1>0, LocalsFields
  <2> HIDE DEF n
  <2> QED BY <1>0, <2>2, <2>3, StreakMoves DEF Begun, me
<1>2. ASSUME NEW pc \in {"unlock", "end", "done", "gone"}, NEW cur,
             Becomes(p, Fresh(pc)) \/ Becomes(p, [Fresh(pc) EXCEPT !.cur = cur])
      PROVE  StreakInv'
  <2> DEFINE m == Fresh(pc)
             n == [Fresh(pc) EXCEPT !.cur = cur]
  <2>1. /\ m.pc = pc /\ n.pc = pc
        /\ \A j \in Jobs : m.mem[j] = NoJob /\ n.mem[j] = NoJob
    BY DEF Fresh
  <2>2. Becomes(p, m) \/ Becomes(p, n)
    BY <1>2
  <2> HIDE DEF m, n
  <2> QED BY <1>0, <2>1, <2>2, StreakMoves DEF Begun
<1>3. CASE Fail(p)
  <2>1. PICK pc \in {"unlock", "end", "done"} : Becomes(p, [Fresh(pc) EXCEPT !.cur = me.cur])
    BY <1>3 DEF Fail
  <2> QED BY <1>2, <2>1
<1>4. CASE Die(p) \/ EndPass(p)
  <2>1. Becomes(p, Fresh("gone")) \/ Becomes(p, Fresh("done"))
    BY <1>4 DEF Die, EndPass
  <2> QED BY <1>2, <2>1
<1> QED BY <1>1, <1>3, <1>4

\* It reads the store, and the ledger.
LEMMA ReadStreak ==
  ASSUME TypeInv, WriterInv, WriterInv', StreakInv, NEW p \in RunDue, Load(p) \/ ReadRows(p)
  PROVE  StreakInv'
<1> DEFINE me == proc[p]
<1>0. p \in Procs /\ me \in Locals /\ disk' = disk /\ ledger' = ledger /\ ledger \in Seq(Rows)
  BY PassAssumption DEF Load, ReadRows, files, TypeInv, TypeOK
<1>1. CASE Load(p)
  <2> DEFINE n == [me EXCEPT !.mem = disk, !.pc = "rows"]
  <2>1. Becomes(p, n)
    BY <1>1 DEF Load
  <2> HIDE DEF me
  <2>2. n.pc = "rows" /\ n.mem = disk
    BY <1>0, LocalsFields
  <2> HIDE DEF n
  <2> QED BY <1>0, <2>1, <2>2, StreakMoves DEF Begun
<1>2. CASE ReadRows(p)
  <2> DEFINE n == [me EXCEPT !.rows = Len(ledger), !.scan = 1, !.pc = "close"]
             all == Len(ledger)
  <2>1. Becomes(p, n)
    BY <1>2 DEF ReadRows
  <2> HIDE DEF me
  <2>2. n.pc = "close" /\ n.mem = me.mem /\ n.rows = all
    BY <1>0, LocalsFields
  <2> HIDE DEF n
  <2>3. all \in Nat /\ DOMAIN ledger = 1..all /\ SubSeq(ledger, 1, all) = ledger
    BY <1>0
  <2> HIDE DEF all
  <2>4. \A k \in DOMAIN ledger : ~(k > n.rows)
    BY <2>2, <2>3
  <2>5. \A j \in Jobs : \A k \in StampingAt(ledger, j) : ~(k > n.rows)
    BY <2>4 DEF StampingAt
  <2>6. \A j \in Jobs : me.mem[j] # NoJob => Tallied(ledger, me.mem[j], j)
    BY <1>0 DEF StreakInv, me
  <2>7. Closing(ledger', n) /\ Begun(ledger', n)
    BY <1>0, <2>2, <2>3, <2>4, <2>5, <2>6 DEF Closing, Begun, Tallied
  <2> QED BY <1>0, <2>1, <2>2, <2>7, StreakGoesOn DEF me
<1> QED BY <1>1, <1>2

\* It goes through its loop.
LEMMA TurnStreak ==
  ASSUME TypeInv, WriterInv, WriterInv', StreakInv, NEW p \in RunDue, Alive(p),
         \/ EnterLoop(p) \/ PassOver(p) \/ CardAnswer(p) \/ Notify(p) \/ TakeLock(p)
         \/ Spawn(p) \/ Unlock(p)
  PROVE  StreakInv'
<1>1. disk' = disk /\ ledger' = ledger
  BY DEF EnterLoop, PassOver, CardAnswer, Notify, TakeLock, Spawn, Unlock, files
<1>2. PICK n : /\ Becomes(p, n) /\ n.mem = proc[p].mem /\ n.pc # "close"
               /\ n.pc \in {"spawn", "wait"} =>
                    n.cur = proc[p].cur /\ n.started = proc[p].started /\ proc[p].pc = "spawn"
  BY TurnMoves
<1>3. p \in Procs /\ Begun(ledger, proc[p])
  BY PassAssumption DEF StreakInv
<1>4. Begun(ledger, n)
  BY <1>2, <1>3 DEF Begun
<1> QED BY <1>1, <1>2, <1>3, <1>4, StreakMoves

\* What card code writes over a record leaves its streak.
LEMMA PutTold ==
  ASSUME NEW jobs \in Stores, NEW put \in Puts, NEW j \in Jobs, jobs[j] # NoJob
  PROVE  SameTold(jobs[j], WithPut(jobs, put)[j])
<1>1. CASE put = NoJob \/ jobs[put.job] = NoJob
  BY <1>1 DEF WithPut, SameTold
<1>2. CASE ~(put = NoJob \/ jobs[put.job] = NoJob)
  <2>1. put.job \in Jobs /\ jobs[put.job] \in Records
    BY <1>2 DEF Puts, Stores
  <2> DEFINE was == jobs[put.job]
             r == [was EXCEPT !.report = put.report, !.enabled = @ /\ ~put.disable]
  <2>2. WithPut(jobs, put) = [jobs EXCEPT ![put.job] = r]
    BY <1>2, <2>1 DEF WithPut, Stores, Records
  <2> HIDE DEF was
  <2>3. SameTold(was, r)
    BY <2>1 DEF SameTold, Records, was
  <2> HIDE DEF r
  <2>4. WithPut(jobs, put)[j] = IF j = put.job THEN r ELSE jobs[j]
    BY <2>1, <2>2 DEF Stores
  <2> QED BY <2>3, <2>4 DEF SameTold, was
<1> QED BY <1>1, <1>2

\* It merges.
LEMMA ReloadStreak ==
  ASSUME TypeInv, WriterInv, WriterInv', StreakInv, NEW p \in RunDue, Alive(p), Reload(p)
  PROVE  StreakInv'
<1> DEFINE me == proc[p]
           merged == Merge(disk, me.mem, me.touched)
           mem == WithPut(merged, me.put)
           m == [me EXCEPT !.mem = mem, !.touched = {}, !.put = NoJob]
<1>0. /\ p \in Procs /\ me \in Locals /\ me.mem \in Stores /\ me.put \in Puts /\ disk \in Stores
      /\ me.touched \in SUBSET Jobs /\ me.ret \in {"enter", "judge", "gate", "loop", "unlock"}
      /\ disk' = disk /\ ledger' = ledger
  <2>1. disk' = disk /\ ledger' = ledger /\ me.pc = "reload"
    BY DEF Reload, files, At
  <2> QED BY <2>1, PassKnows, LocalsFields DEF Placed, Saving, TypeInv, TypeOK, Stores
<1>1. PICK pc \in {"save", AfterSave(m)} : Becomes(p, [m EXCEPT !.pc = pc])
  BY DEF Reload
<1> DEFINE n == [m EXCEPT !.pc = pc]
<1>2. Becomes(p, n)
  BY <1>1
<1>3. ASSUME NEW j \in Jobs PROVE mem[j] = NoJob \/ Tallied(ledger, mem[j], j)
  <2>1. merged \in Stores
    BY <1>0, MergeType
  <2>2. ASSUME merged[j] # NoJob PROVE Tallied(ledger, merged[j], j)
    <3>1. merged[j] = IF j \in me.touched /\ disk[j] # NoJob /\ me.mem[j] # NoJob
                        THEN Overlay(disk[j], me.mem[j]) ELSE disk[j]
      BY DEF Merge
    <3>2. /\ disk[j] # NoJob /\ Tallied(ledger, disk[j], j)
          /\ me.mem[j] # NoJob => Tallied(ledger, me.mem[j], j)
      BY <1>0, <2>2, <3>1 DEF StreakInv
    <3>3. merged[j] = disk[j] \/ (me.mem[j] # NoJob /\ merged[j] = Overlay(disk[j], me.mem[j]))
      BY <3>1
    <3> DEFINE was == me.mem[j]
               is == disk[j]
               x == Overlay(is, was)
    <3>4. CASE me.mem[j] # NoJob /\ merged[j] = x
      <4>1. was \in Records /\ is \in Records /\ Tallied(ledger, was, j)
        BY <1>0, <3>2, <3>4 DEF Stores
      <4>2. merged[j] = x
        BY <3>4
      <4> HIDE DEF was, is
      <4>3. x.started = was.started /\ x.fails = was.fails /\ x.state = was.state
        BY <4>1 DEF Overlay, Records
      <4> HIDE DEF x, merged
      <4> QED BY <4>1, <4>2, <4>3, SameTallied DEF SameTold
    <3>5. CASE merged[j] = disk[j]
      BY <3>2, <3>5
    <3> QED BY <3>3, <3>4, <3>5
  <2> HIDE DEF merged, me
  <2>3. CASE merged[j] = NoJob
    BY <1>0, <2>1, <2>3, PutSame
  <2>4. CASE merged[j] # NoJob
    BY <1>0, <2>1, <2>2, <2>4, PutTold, SameTallied
  <2> QED BY <2>3, <2>4
<1>4. pc \in {"save", "notify", me.ret}
  <2>1. m.ret = me.ret
    <3> HIDE DEF me, mem
    <3> QED BY <1>0, LocalsFields
  <2> QED BY <2>1 DEF AfterSave
<1>5. n.pc = pc /\ n.mem = mem
  <2> HIDE DEF me, mem
  <2> QED BY <1>0, LocalsFields
<1> HIDE DEF n, mem
<1> QED BY <1>0, <1>2, <1>3, <1>4, <1>5, StreakMoves DEF Begun

\* It saves, or an operator does.
LEMMA SaveStreak ==
  ASSUME TypeInv, WriterInv, WriterInv', StreakInv, NEW p \in RunDue \cup Operator, Save(p)
  PROVE  StreakInv'
<1> DEFINE me == proc[p]
           pc == AfterSave(me)
           n == [me EXCEPT !.pc = pc]
<1>0. /\ p \in Procs /\ me \in Locals /\ disk' = me.mem /\ ledger' = ledger /\ Becomes(p, n)
      /\ p \in RunDue => pc \in {"notify", "enter", "judge", "gate", "loop", "unlock"}
  <2>1. disk' = me.mem /\ ledger' = ledger /\ Becomes(p, n) /\ me.pc = "save" /\ p \in Procs
    BY PassAssumption DEF Save, Goto, At
  <2>2. p \in RunDue => me.ret \in {"enter", "judge", "gate", "loop", "unlock"}
    BY <2>1 DEF WriterInv, PlaceInv, Placed, Saving
  <2> QED BY <2>1, <2>2 DEF AfterSave, TypeInv, TypeOK
<1> HIDE DEF pc
<1>1. \A j \in Jobs : me.mem[j] # NoJob => Tallied(ledger, me.mem[j], j)
  BY <1>0 DEF StreakInv
<1> HIDE DEF me
<1>2. n.pc = pc /\ n.mem = me.mem
  BY <1>0, LocalsFields
<1> HIDE DEF n
<1> QED BY <1>0, <1>1, <1>2, StreakMoves DEF Begun

-----------------------------------------------------------------------------
(* The operator                                                            *)

\* A verb of an operator, up to its save.
LEMMA VerbStreak ==
  ASSUME TypeInv, WriterInv, WriterInv', StreakInv, NEW p \in Operator,
         StartAdd(p) \/ StartSet(p) \/ StartRemove(p) \/ CheckRemove(p)
  PROVE  StreakInv'
<1> DEFINE me == proc[p]
<1>0. /\ p \in Procs /\ p \notin RunDue /\ me \in Locals /\ me.mem \in Stores /\ disk \in Stores
      /\ disk' = disk /\ ledger' = ledger /\ ledger \in Seq(Rows)
  <2>1. p \in Procs /\ p \notin RunDue /\ me \in Locals /\ disk \in Stores /\ ledger \in Seq(Rows)
    BY PassAssumption DEF TypeInv, TypeOK, Stores
  <2> QED BY <2>1, LocalsFields DEF StartAdd, StartSet, StartRemove, CheckRemove, files
<1>1. CASE StartAdd(p)
  <2>1. PICK j \in Jobs :
          Becomes(p, [me EXCEPT !.mem = [disk EXCEPT ![j] = NewRecord(now)],
                                !.pc = "save", !.ret = "done"])
    BY <1>1 DEF StartAdd
  <2> DEFINE r == NewRecord(now)
             mem == [disk EXCEPT ![j] = r]
             n == [me EXCEPT !.mem = mem, !.pc = "save", !.ret = "done"]
  <2>2. Becomes(p, n)
    BY <2>1
  <2>3. Told(r) = 0
    BY DEF NewRecord, Told
  <2> HIDE DEF r
  <2>4. \A i \in Jobs : mem[i] = IF i = j THEN r ELSE disk[i]
    BY <1>0 DEF Stores
  <2> HIDE DEF me, mem
  <2>5. n.mem = mem
    BY <1>0, LocalsFields
  <2> HIDE DEF n
  <2>6. \A i \in Jobs : n.mem[i] = disk[i] \/ Tallied(ledger, n.mem[i], i)
    BY <1>0, <2>3, <2>4, <2>5, NothingTold
  <2> QED BY <1>0, <2>2, <2>6, StreakMoves
<1>2. CASE StartSet(p)
  <2>1. PICK j \in Jobs : disk[j] # NoJob /\
          \E changed \in {[disk[j] EXCEPT !.enabled = ~@], [disk[j] EXCEPT !.report.edited = TRUE]} :
            Becomes(p, [me EXCEPT !.mem = [disk EXCEPT ![j] = changed],
                                  !.pc = "save", !.ret = "done"])
    BY <1>2 DEF StartSet
  <2>2. PICK changed \in {[disk[j] EXCEPT !.enabled = ~@], [disk[j] EXCEPT !.report.edited = TRUE]} :
          Becomes(p, [me EXCEPT !.mem = [disk EXCEPT ![j] = changed], !.pc = "save", !.ret = "done"])
    BY <2>1
  <2> DEFINE was == disk[j]
             mem == [disk EXCEPT ![j] = changed]
             n == [me EXCEPT !.mem = mem, !.pc = "save", !.ret = "done"]
  <2>3. Becomes(p, n)
    BY <2>2
  <2>4. was \in Records
    BY <1>0, <2>1 DEF Stores
  <2>5. changed \in {[was EXCEPT !.enabled = ~@], [was EXCEPT !.report.edited = TRUE]}
    OBVIOUS
  <2>6. Tallied(ledger, was, j)
    BY <2>1 DEF StreakInv
  <2> HIDE DEF was
  <2>7. SameTold(was, changed)
    BY <2>4, <2>5 DEF SameTold, Records
  <2>8. \A i \in Jobs : mem[i] = IF i = j THEN changed ELSE disk[i]
    BY <1>0 DEF Stores
  <2> HIDE DEF me, mem
  <2>9. n.mem = mem
    BY <1>0, LocalsFields
  <2> HIDE DEF n
  <2>10. \A i \in Jobs : n.mem[i] = disk[i] \/ Tallied(ledger, n.mem[i], i)
    BY <2>6, <2>7, <2>8, <2>9, SameTallied
  <2> QED BY <1>0, <2>3, <2>10, StreakMoves
<1>3. CASE StartRemove(p)
  <2>1. PICK j \in Jobs : Becomes(p, [me EXCEPT !.mem = disk, !.job = j, !.pc = "check"])
    BY <1>3 DEF StartRemove
  <2> DEFINE n == [me EXCEPT !.mem = disk, !.job = j, !.pc = "check"]
  <2>2. Becomes(p, n)
    BY <2>1
  <2> HIDE DEF me
  <2>3. n.mem = disk
    BY <1>0, LocalsFields
  <2> HIDE DEF n
  <2> QED BY <1>0, <2>2, <2>3, StreakMoves
<1>4. CASE CheckRemove(p)
  <2> DEFINE j == me.job
             mem == [me.mem EXCEPT ![j] = NoJob]
             n == [me EXCEPT !.mem[j] = NoJob, !.pc = "save", !.ret = "removed"]
  <2>1. Becomes(p, Fresh("done")) \/ Becomes(p, n)
    BY <1>4 DEF CheckRemove
  <2>2. CASE Becomes(p, Fresh("done"))
    <3>1. \A i \in Jobs : Fresh("done").mem[i] = NoJob
      BY DEF Fresh
    <3> QED BY <1>0, <2>2, <3>1, StreakMoves
  <2>3. CASE Becomes(p, n)
    <3>1. \A i \in Jobs : mem[i] \in {me.mem[i], NoJob}
      <4> HIDE DEF me, j
      <4> QED BY <1>0 DEF Stores
    <3>2. n.mem = mem
      <4> HIDE DEF me, j
      <4> QED BY <1>0, LocalsFields
    <3> HIDE DEF n, mem
    <3>3. \A i \in Jobs : n.mem[i] \in {proc[p].mem[i], NoJob}
      BY <3>1, <3>2
    <3> HIDE DEF me
    <3> QED BY <1>0, <2>3, <3>3, StreakMoves
  <2> QED BY <2>1, <2>2, <2>3
<1> QED BY <1>1, <1>2, <1>3, <1>4

\* A job removed leaves a row, and what was counted is.
LEMMA RemovedStreak ==
  ASSUME TypeInv, WriterInv, WriterInv', StreakInv, NEW p \in Operator, RemovedRowWritten(p)
  PROVE  StreakInv'
<1>1. /\ p \in Procs /\ p \notin RunDue /\ proc[p].job \in Jobs /\ now \in Nat
      /\ disk' = disk /\ Write(RemovedRow(proc[p].job, now)) /\ Becomes(p, Fresh("done"))
  <2>1. p \in Procs /\ p \notin RunDue /\ proc[p].pc = "removed" /\ now \in Nat
    BY PassAssumption DEF RemovedRowWritten, At, TypeInv, TypeOK
  <2>2. Sound(proc[p])
    BY <2>1 DEF TypeInv, SoundInv
  <2>3. proc[p].job \in Jobs
    BY <2>1, <2>2, Mine DEF Sound
  <2> QED BY <2>1, <2>3 DEF RemovedRowWritten
<1>2. \A j \in Jobs : Fresh("done").mem[j] = NoJob
  BY DEF Fresh
<1> QED BY <1>1, <1>2, StreakGoesOn

-----------------------------------------------------------------------------
(* The rows of a pass                                                      *)

\* A pass writes the row that ends a wake, and stamps its job in memory: if the
\* wake may count, at its start.
LEMMA RowStreak ==
  ASSUME TypeInv, WriterInv, WriterInv', StreakInv, NEW p \in RunDue, Alive(p),
         NEW row \in Rows, Write(row), row.event = "finished", disk' = disk,
         NEW n, Becomes(p, n), n.pc \notin {"close", "spawn", "wait"},
         \/ n.mem = proc[p].mem
         \/ /\ proc[p].mem[row.job] # NoJob /\ row.state \notin UnstampedStates
            /\ \E ts \in Nat : \E executed \in BOOLEAN :
                 /\ n.mem = [proc[p].mem EXCEPT ![row.job] =
                               Stamp(proc[p].mem[row.job], row.wake, ts, row.state, executed)]
                 /\ row.state \in BadStates \cup {"detached"} => ts >= StartOf(ledger', Len(ledger'))
  PROVE  StreakInv'
<1> DEFINE me == proc[p]
           j == row.job
<1>0. /\ p \in Procs /\ me \in Locals /\ me.mem \in Stores /\ j \in Jobs
      /\ ledger \in Seq(Rows) /\ ledger' = Append(ledger, row) /\ OnceInv(ledger) /\ OnceInv(ledger')
      /\ ~FinishedIn(ledger, row.wake) /\ \A q \in RunDue \ {p} : ~Alive(q)
      /\ Closing(ledger', n) /\ Begun(ledger', n)
  <2>1. j \in Jobs
    BY DEF Rows
  <2>2. me.mem \in Stores
    BY PassKnows, LocalsFields
  <2>3. ~FinishedIn(ledger, row.wake)
    BY NotOverYet
  <2>4. Closing(ledger', n) /\ Begun(ledger', n)
    BY DEF Closing, Begun
  <2> QED BY <2>1, <2>2, <2>3, <2>4, PassKnows DEF TypeInv, TypeOK, WriterInv, Write
<1>1. CASE n.mem = me.mem
  BY <1>0, <1>1, StreakGoesOn
<1>2. CASE n.mem # me.mem
  <2>1. PICK ts \in Nat, executed \in BOOLEAN :
          /\ me.mem[j] # NoJob /\ row.state \notin UnstampedStates
          /\ n.mem = [me.mem EXCEPT ![j] = Stamp(me.mem[j], row.wake, ts, row.state, executed)]
          /\ row.state \in BadStates \cup {"detached"} => ts >= StartOf(ledger', Len(ledger'))
    BY <1>2
  <2> DEFINE was == me.mem[j]
             r == Stamp(was, row.wake, ts, row.state, executed)
  <2>2. was \in Records /\ Tallied(ledger, was, j)
    BY <1>0, <2>1 DEF Stores, StreakInv
  <2>3. n.mem = [me.mem EXCEPT ![j] = r]
    BY <2>1
  <2> HIDE DEF was
  <2>4. Tallied(ledger', r, j)
    BY <1>0, <2>1, <2>2, StampTallied
  <2> HIDE DEF r
  <2>5. \A i \in Jobs : n.mem[i] = IF i = j THEN r ELSE me.mem[i]
    BY <1>0, <2>3 DEF Stores
  <2>6. \A i \in Jobs : n.mem[i] = proc[p].mem[i] \/ Tallied(ledger', n.mem[i], i)
    BY <2>4, <2>5
  <2> HIDE DEF me, j
  <2> QED BY <1>0, <2>6, StreakGoesOn
<1> QED BY <1>1, <1>2

\* The rows of a turn: the clock-skew row stamps its own time.
LEMMA TurnRowStreak ==
  ASSUME TypeInv, WriterInv, WriterInv', StreakInv, NEW p \in RunDue, Alive(p),
         SkewRow(p) \/ SkipRow(p) \/ Overlap(p)
  PROVE  StreakInv'
<1> DEFINE me == proc[p]
<1>0. p \in Procs /\ me \in Locals /\ now \in Nat /\ disk' = disk /\ ledger \in Seq(Rows)
  <2>1. disk' = disk
    BY DEF SkewRow, SkipRow, Overlap
  <2> QED BY <2>1, PassKnows DEF TypeInv, TypeOK
<1>me. me \in Locals
  BY <1>0
<1>1. CASE Overlap(p)
  <2>1. PICK j \in Jobs :
          /\ Write(FinishedRow([proc |-> p, job |-> j, kind |-> "wake"], "overlap", now))
          /\ Becomes(p, [me EXCEPT !.todo = @ \ {j}, !.pc = "loop"])
    BY <1>1 DEF Overlap, AfterWake
  <2> DEFINE w == [proc |-> p, job |-> j, kind |-> "wake"]
             row == FinishedRow(w, "overlap", now)
             n == [me EXCEPT !.todo = @ \ {j}, !.pc = "loop"]
  <2>2. Becomes(p, n) /\ Write(row)
    BY <2>1
  <2>3. n.pc = "loop" /\ n.mem = me.mem
    <3> HIDE DEF me
    <3> QED BY <1>0, LocalsFields
  <2>4. row \in Rows /\ row.event = "finished"
    <3>1. w \in Wakes /\ "overlap" \in States
      BY <1>0, WakeType DEF States, UnstampedStates
    <3> QED BY <1>0, <3>1, RowTypes DEF FinishedRow
  <2> HIDE DEF n, row
  <2> QED BY <1>0, <2>2, <2>3, <2>4, RowStreak
\* A row that stamps.
<1>2. ASSUME NEW j \in Jobs, me.mem[j] # NoJob,
             NEW kind \in {"skew", "wake"}, NEW state \in States \ UnstampedStates,
             NEW executed \in BOOLEAN,
             NEW w, w = [proc |-> p, job |-> j, kind |-> kind],
             NEW row, row = FinishedRow(w, state, now), Write(row),
             state \in BadStates \cup {"detached"} =>
               \A i \in DOMAIN ledger : ~(ledger[i].event = "started" /\ ledger[i].wake = w),
             NEW n, n.pc = "reload", Becomes(p, n),
             n.mem = [me.mem EXCEPT ![j] = Stamp(me.mem[j], w, now, state, executed)]
      PROVE  StreakInv'
  <2>1. w \in Wakes /\ w.job = j /\ state \in States
    BY <1>0, <1>2, WakeType
  <2>2. row \in Rows /\ row.event = "finished" /\ row.job = j /\ row.state = state /\ row.wake = w
        /\ row.ts = now
    BY <1>0, <1>2, <2>1, RowTypes DEF FinishedRow
  <2>3. state \in BadStates \cup {"detached"} => now >= StartOf(ledger', Len(ledger'))
    <3> SUFFICES ASSUME state \in BadStates \cup {"detached"}
                 PROVE  now >= StartOf(ledger', Len(ledger'))
      OBVIOUS
    <3>1. /\ \A i \in DOMAIN ledger : ledger'[i] = ledger[i]
          /\ ledger'[Len(ledger')] = row
          /\ \A i \in DOMAIN ledger' : i \in DOMAIN ledger \/ i = Len(ledger')
      BY <1>0, <1>2, <2>2, RowMore DEF Write
    <3>2. ~\E i \in DOMAIN ledger' : ledger'[i].event = "started" /\ ledger'[i].wake = w
      BY <1>2, <2>2, <3>1
    <3>3. StartOf(ledger', Len(ledger')) = now
      BY <2>2, <3>1, <3>2 DEF StartOf
    <3> QED BY <1>0, <3>3
  <2>4. /\ proc[p].mem[row.job] # NoJob /\ row.state \notin UnstampedStates
        /\ n.mem = [proc[p].mem EXCEPT ![row.job] =
                      Stamp(proc[p].mem[row.job], row.wake, now, row.state, executed)]
        /\ row.state \in BadStates \cup {"detached"} => now >= StartOf(ledger', Len(ledger'))
    BY <1>2, <2>2, <2>3
  <2> HIDE DEF me
  <2> QED BY <1>0, <1>2, <2>2, <2>4, RowStreak
<1>3. CASE SkipRow(p)
  <2> DEFINE executed == FALSE
             w(j) == [proc |-> p, job |-> j, kind |-> "wake"]
  <2>1. PICK j \in Jobs :
          /\ Due(p, j)
          /\ Write(FinishedRow(w(j), "skipped", now))
          /\ Becomes(p, [Stamped(me, w(j), now, "skipped", executed, "loop") EXCEPT !.todo = @ \ {j}])
    BY <1>3 DEF SkipRow
  <2> DEFINE v == w(j)
             row == FinishedRow(v, "skipped", now)
             m == Stamped(me, v, now, "skipped", executed, "loop")
             n == [m EXCEPT !.todo = m.todo \ {j}]
  <2>2. /\ Write(row) /\ "skipped" \in States \ UnstampedStates /\ executed \in BOOLEAN /\ v.job = j
        /\ "skipped" \notin BadStates \cup {"detached"}
        /\ v = [proc |-> p, job |-> j, kind |-> "wake"] /\ me.mem[j] # NoJob
    BY <2>1 DEF States, UnstampedStates, BadStates, Due
  <2>3. Becomes(p, n)
    <3>1. Becomes(p, [m EXCEPT !.todo = @ \ {j}])
      BY <2>1
    <3> HIDE DEF m
    <3> QED BY <3>1
  <2> HIDE DEF executed, v
  <2>4. n.pc = "reload" /\ n.mem = m.mem
    <3> DEFINE todo == m.todo \ {j}
               k == [m EXCEPT !.todo = todo]
    <3>1. n = k
      OBVIOUS
    <3> HIDE DEF todo, me
    <3>2. k.pc = "reload" /\ k.mem = m.mem
      BY <1>0, StampedFields, StampedRest
    <3> HIDE DEF m, k, n
    <3> QED BY <3>1, <3>2
  <2>5. m.mem = [me.mem EXCEPT ![j] = Stamp(me.mem[j], v, now, "skipped", executed)]
    <3> HIDE DEF me
    <3>1. m.mem = [me.mem EXCEPT ![v.job] = Stamp(me.mem[v.job], v, now, "skipped", executed)]
      BY <1>me, StampedMemory
    <3> HIDE DEF m
    <3> QED BY <2>2, <3>1
  <2> HIDE DEF m, n, row
  <2>6. row = FinishedRow(v, "skipped", now)
    BY DEF row
  <2> QED BY <1>2, <2>2, <2>3, <2>4, <2>5, <2>6
<1>4. CASE SkewRow(p)
  <2> DEFINE executed == TRUE
             w(j) == [proc |-> p, job |-> j, kind |-> "skew"]
  <2>1. PICK j \in Jobs :
          /\ Turn(p, j) /\ me.mem[j] # NoJob
          /\ Write(FinishedRow(w(j), "error", now))
          /\ Becomes(p, Stamped(me, w(j), now, "error", executed, "gate"))
    BY <1>4 DEF SkewRow
  <2> DEFINE v == w(j)
             row == FinishedRow(v, "error", now)
             n == Stamped(me, v, now, "error", executed, "gate")
  <2>2. /\ Write(row) /\ "error" \in States \ UnstampedStates /\ executed \in BOOLEAN /\ v.job = j
        /\ v = [proc |-> p, job |-> j, kind |-> "skew"] /\ Becomes(p, n)
        /\ v.proc = p /\ v.kind = "skew"
    BY <2>1 DEF States, UnstampedStates, BadStates
  <2> HIDE DEF executed, v
  <2>3. \A i \in DOMAIN ledger : ~(ledger[i].event = "started" /\ ledger[i].wake = v)
    <3>1. j \in me.todo /\ Place(me) # "gate" /\ RowOf(ledger, p, me)
      BY <2>1, NextJob, PassKnows
    <3> QED BY <2>2, <3>1 DEF RowOf, Own
  <2>4. n.pc = "reload"
    <3> HIDE DEF me
    <3> QED BY <1>0, StampedFields
  <2>5. n.mem = [me.mem EXCEPT ![j] = Stamp(me.mem[j], v, now, "error", executed)]
    <3> HIDE DEF me
    <3>1. n.mem = [me.mem EXCEPT ![v.job] = Stamp(me.mem[v.job], v, now, "error", executed)]
      BY <1>me, StampedMemory
    <3> HIDE DEF n
    <3> QED BY <2>2, <3>1
  <2> HIDE DEF n, row
  <2>6. row = FinishedRow(v, "error", now)
    BY DEF row
  <2> QED BY <1>2, <2>1, <2>2, <2>3, <2>4, <2>5, <2>6
<1> QED BY <1>1, <1>3, <1>4

\* The rows of a wake: its job gone or taken, its begin, and its end, which
\* stamps what its started row says.
LEMMA WakeRowStreak ==
  ASSUME TypeInv, WriterInv, WriterInv', StreakInv, NEW p \in RunDue,
         Recheck(p) \/ Begin(p) \/ Finish(p)
  PROVE  StreakInv'
<1> DEFINE me == proc[p]
           w == me.cur
           j == w.job
<1>0. /\ me.pc \in AtWake /\ Alive(p) /\ disk' = disk
  BY DEF Recheck, Begin, Finish, At, AtWake, Alive
<1>1. /\ p \in Procs /\ me \in Locals /\ me.mem \in Stores /\ me.started \in Nat /\ now \in Nat
      /\ w \in Wakes /\ j \in Jobs /\ me.mem[j] # NoJob
      /\ ledger \in Seq(Rows) /\ disk \in Stores /\ OnceInv(ledger) /\ OnceInv(ledger')
  <2>1. p \in Procs /\ Sound(me)
    BY PassAssumption DEF TypeInv, SoundInv
  <2>2. w \in Wakes /\ j \in Jobs
    BY <1>0, WakeTaken DEF Wakes
  <2>3. me.mem[j] # NoJob
    BY <1>0, <2>1 DEF Sound, AtWake
  <2> HIDE DEF me
  <2> QED BY <2>1, <2>2, <2>3, Mine DEF TypeInv, TypeOK, Stores, WriterInv
<1>2. \A q \in RunDue \ {p} : ~Alive(q)
  BY <1>0, PassKnows
\* A finished row and its stamp.
<1>3. ASSUME NEW state \in States \ UnstampedStates, NEW executed \in BOOLEAN,
             Write(FinishedRow(w, state, now)),
             Becomes(p, Stamped(me, w, me.started, state, executed, "unlock")),
             state \in BadStates \cup {"detached"} => me.pc = "wait"
      PROVE  StreakInv'
  <2> DEFINE row == FinishedRow(w, state, now)
             n == Stamped(me, w, me.started, state, executed, "unlock")
  <2>1. /\ row \in Rows /\ row.event = "finished" /\ row.job = j /\ row.state = state
        /\ row.wake = w
    BY <1>1, <1>3, RowTypes DEF FinishedRow
  <2>2. Becomes(p, n) /\ Write(row)
    BY <1>3
  <2>3. n.pc = "reload" /\ n.mem = [me.mem EXCEPT ![j] = Stamp(me.mem[j], w, me.started, state, executed)]
    <3>1. me \in Locals
      BY <1>1
    <3> HIDE DEF me, w
    <3> QED BY <3>1, StampedFields, StampedMemory
  <2> HIDE DEF n, row
  <2>4. state \in BadStates \cup {"detached"} => me.started >= StartOf(ledger', Len(ledger'))
    <3> SUFFICES ASSUME me.pc = "wait" PROVE me.started >= StartOf(ledger', Len(ledger'))
      BY <1>3
    <3>1. /\ \A i \in DOMAIN ledger : i \in DOMAIN ledger' /\ ledger'[i] = ledger[i]
          /\ Len(ledger') \in DOMAIN ledger' /\ ledger'[Len(ledger')] = row
      BY <1>1, <2>1, <2>2, RowMore DEF Write
    <3>2. PICK i \in DOMAIN ledger : ledger[i].event = "started" /\ ledger[i].wake = w /\ ledger[i].ts = me.started
      <4>1. Begun(ledger, me)
        BY DEF StreakInv
      <4> QED BY <4>1 DEF Begun
    <3>3. StartOf(ledger', Len(ledger')) = ledger'[i].ts
      BY <1>1, <2>1, <3>1, <3>2, StartOfIs
    <3> QED BY <1>1, <3>1, <3>2, <3>3
  <2>5. /\ proc[p].mem[row.job] # NoJob /\ row.state \notin UnstampedStates
        /\ n.mem = [proc[p].mem EXCEPT ![row.job] =
                      Stamp(proc[p].mem[row.job], row.wake, me.started, row.state, executed)]
        /\ row.state \in BadStates \cup {"detached"} => me.started >= StartOf(ledger', Len(ledger'))
    BY <1>1, <1>3, <2>1, <2>3, <2>4
  <2>6. me.started \in Nat
    BY <1>1
  <2> HIDE DEF me, w, j
  <2> QED BY <1>0, <1>3, <2>1, <2>2, <2>3, <2>5, <2>6, RowStreak
<1>4. CASE Recheck(p)
  <2> DEFINE executed == FALSE
             k == [me EXCEPT !.pc = "unlock"]
             mem == [me.mem EXCEPT ![j] = disk[j]]
             n == [me EXCEPT !.mem = mem, !.pc = "begin"]
             woken == FinishedRow(w, "overlap", now)
  <2>1. \/ /\ Write(FinishedRow(w, "cancelled", now))
           /\ Becomes(p, Stamped(me, w, me.started, "cancelled", executed, "unlock"))
        \/ Write(woken) /\ Becomes(p, k)
        \/ ledger' = ledger /\ Becomes(p, n)
    BY <1>4 DEF Recheck, Goto
  <2>2. executed \in BOOLEAN /\ "cancelled" \in States \ UnstampedStates
        /\ "cancelled" \notin BadStates \cup {"detached"}
    BY DEF States, UnstampedStates, BadStates
  <2> HIDE DEF executed
  <2>3. CASE /\ Write(FinishedRow(w, "cancelled", now))
             /\ Becomes(p, Stamped(me, w, me.started, "cancelled", executed, "unlock"))
    BY <1>3, <2>2, <2>3
  <2>4. CASE Write(woken) /\ Becomes(p, k)
    <3>1. k.pc = "unlock" /\ k.mem = me.mem
      <4> HIDE DEF me
      <4> QED BY <1>1, LocalsFields
    <3>2. woken \in Rows /\ woken.event = "finished"
      <4>1. "overlap" \in States
        BY DEF States, UnstampedStates
      <4> QED BY <1>1, <4>1, RowTypes DEF FinishedRow
    <3> HIDE DEF k, woken
    <3> QED BY <1>0, <2>4, <3>1, <3>2, RowStreak
  <2>5. CASE ledger' = ledger /\ Becomes(p, n)
    <3>1. \A i \in Jobs : mem[i] \in {me.mem[i], disk[i]}
      <4> HIDE DEF me, j
      <4> QED BY <1>1 DEF Stores
    <3>2. n.pc = "begin" /\ n.mem = mem
      <4> HIDE DEF me, mem
      <4> QED BY <1>1, LocalsFields
    <3> HIDE DEF mem, n
    <3> QED BY <1>0, <1>1, <2>5, <3>1, <3>2, StreakMoves DEF Begun
  <2> QED BY <2>1, <2>3, <2>4, <2>5
<1>5. CASE Begin(p)
  <2> DEFINE row == StartedRow(w, me.started)
             n == [me EXCEPT !.pc = "spawn"]
  <2>1. Write(row) /\ Becomes(p, n) /\ me.pc = "begin"
    BY <1>5 DEF Begin, Goto, At
  <2>2. row \in Rows /\ row.event = "started" /\ row.wake = w /\ row.ts = me.started
    BY <1>1, RowTypes DEF StartedRow
  <2>3. ~FinishedIn(ledger, w)
    BY <1>0, <2>1, WakeTaken DEF FinishedIn
  <2> HIDE DEF me, w, row
  <2>4. n.pc = "spawn" /\ n.mem = me.mem /\ n.cur = me.cur /\ n.started = me.started
    BY <1>1, LocalsFields
  <2> HIDE DEF n
  <2>5. Len(ledger') \in DOMAIN ledger' /\ ledger'[Len(ledger')] = row
    BY <1>1, <2>1, <2>2, RowMore DEF Write
  <2>6. Closing(ledger', n) /\ Begun(ledger', n)
    BY <2>2, <2>4, <2>5 DEF Closing, Begun, w
  <2> QED BY <1>0, <1>1, <1>2, <2>1, <2>2, <2>3, <2>4, <2>6, StreakGoesOn DEF me
<1>6. CASE Finish(p)
  <2> DEFINE executed == TRUE
  <2>1. PICK state \in Outcomes(w) :
          /\ Write(FinishedRow(w, state, now))
          /\ Becomes(p, Stamped(me, w, me.started, state, executed, "unlock"))
    BY <1>6 DEF Finish
  <2>2. state \in States \ UnstampedStates /\ executed \in BOOLEAN /\ me.pc = "wait"
    BY <1>6 DEF Outcomes, States, BadStates, UnstampedStates, Finish, At
  <2> HIDE DEF executed
  <2> QED BY <1>3, <2>1, <2>2
<1> QED BY <1>4, <1>5, <1>6

-----------------------------------------------------------------------------
(* Reconcile                                                               *)

\* What is in the memory of a reconcile that judges its rows.
LEMMA CloseHas ==
  ASSUME TypeInv, WriterInv, StreakInv, NEW p \in RunDue, proc[p].pc = "close"
  PROVE  LET me == proc[p]
             read == SubSeq(ledger, 1, me.rows)
         IN /\ p \in Procs /\ me \in Locals /\ me.mem \in Stores /\ me.rows \in Nat
            /\ me.rows <= Len(ledger) /\ ledger \in Seq(Rows) /\ OnceInv(ledger)
            /\ me.touched \in SUBSET Jobs /\ me.notices \in SUBSET Jobs
            /\ \A q \in RunDue \ {p} : ~Alive(q)
            /\ Closing(ledger, me)
            /\ read \in Seq(Rows) /\ OnceInv(read) /\ DOMAIN read = 1..me.rows
            /\ \A i \in DOMAIN read : i \in DOMAIN ledger /\ read[i] = ledger[i]
<1> DEFINE me == proc[p]
           read == SubSeq(ledger, 1, me.rows)
<1>1. Alive(p)
  BY DEF Alive
<1>2. p \in Procs /\ Sound(me) /\ me.rows <= Len(ledger)
  BY PassAssumption DEF TypeInv, SoundInv
<1>3. /\ me \in Locals /\ me.mem \in Stores /\ me.rows \in Nat
      /\ me.touched \in SUBSET Jobs /\ me.notices \in SUBSET Jobs
  <2> HIDE DEF me
  <2> QED BY <1>2, Mine
<1>4. ledger \in Seq(Rows) /\ OnceInv(ledger) /\ Closing(ledger, me)
  BY DEF TypeInv, TypeOK, WriterInv, StreakInv
<1>5. /\ read \in Seq(Rows) /\ DOMAIN read = 1..me.rows
      /\ \A i \in 1..me.rows : i \in DOMAIN ledger /\ read[i] = ledger[i]
  BY <1>2, <1>3, SnapshotType DEF TypeInv
<1> HIDE DEF read
<1>6. OnceInv(read)
  BY <1>4, <1>5 DEF OnceInv
<1>7. \A q \in RunDue \ {p} : ~Alive(q)
  BY <1>1, PassKnows
<1> QED BY <1>2, <1>3, <1>4, <1>5, <1>6, <1>7 DEF read

\* An orphan is closed, and its job stamped at its start; what the reconcile has
\* yet to recover is as far from being counted twice.
LEMMA CloseStreak ==
  ASSUME TypeInv, WriterInv, WriterInv', StreakInv, NEW p \in RunDue, CloseOrphan(p)
  PROVE  StreakInv'
<1> DEFINE me == proc[p]
           i == Min(ToJudge(me))
           w == ledger[i].wake
           j == w.job
           ts == ledger[i].ts
           executed == FALSE
           row == FinishedRow(w, "orphaned", now)
           read == SubSeq(ledger, 1, me.rows)
           was == me.mem[j]
           r == Stamp(was, w, ts, "orphaned", executed)
           mem == [me.mem EXCEPT ![j] = r]
           m == [me EXCEPT !.scan = i + 1]
           n == [m EXCEPT !.mem = mem, !.touched = m.touched \cup {j}, !.notices = m.notices \cup {j}]
<1>0. me.pc = "close" /\ disk' = disk /\ ToJudge(me) # {}
  BY DEF CloseOrphan, At
<1>1. /\ p \in Procs /\ me \in Locals /\ me.mem \in Stores /\ me.rows \in Nat
      /\ ledger \in Seq(Rows) /\ OnceInv(ledger) /\ OnceInv(ledger') /\ now \in Nat
      /\ \A q \in RunDue \ {p} : ~Alive(q)
      /\ Closing(ledger, me) /\ me.rows <= Len(ledger)
      /\ read \in Seq(Rows) /\ OnceInv(read)
      /\ \A k \in DOMAIN read : k \in DOMAIN ledger /\ read[k] = ledger[k]
  BY <1>0, CloseHas DEF TypeInv, TypeOK, WriterInv
<1>2. /\ i \in DOMAIN ledger /\ ledger[i].event = "started" /\ w \in Wakes /\ ts \in Nat /\ j \in Jobs
  <2>1. p \in Procs
    BY <1>1
  <2>2. i \in DOMAIN ledger /\ ledger[i].event = "started" /\ w \in Wakes /\ ts \in Nat
    BY <1>0, <2>1, ToJudgeType
  <2> HIDE DEF w
  <2> QED BY <2>2 DEF Wakes
<1>3. \/ Becomes(p, m) /\ ledger' = ledger
      \/ Write(row) /\ Becomes(p, m) /\ was = NoJob
      \/ Write(row) /\ Becomes(p, n) /\ was # NoJob
  <2>1. [m EXCEPT !.mem[j] = Stamp(@, w, ts, "orphaned", executed),
                  !.touched = @ \cup {j}, !.notices = @ \cup {j}] = n
    <3>1. m \in Locals /\ m.mem = me.mem
      <4>1. i + 1 \in Nat
        BY <1>1, <1>2
      <4> HIDE DEF me, i
      <4> QED BY <1>1, <4>1, LocalsFields
    <3>2. m.mem \in Stores
      BY <1>1, <3>1
    <3>3. [m EXCEPT !.mem[j] = Stamp(@, w, ts, "orphaned", executed),
                    !.touched = @ \cup {j}, !.notices = @ \cup {j}] =
          [m EXCEPT !.mem = [m.mem EXCEPT ![j] = Stamp(m.mem[j], w, ts, "orphaned", executed)],
                    !.touched = m.touched \cup {j}, !.notices = m.notices \cup {j}]
      <4> HIDE DEF m, w, ts, j, executed
      <4> QED BY <3>1, LocalsFields
    <3> HIDE DEF m, w, ts, j, executed
    <3> QED BY <3>1, <3>3
  <2>2. \/ Becomes(p, m) /\ ledger' = ledger
        \/ Write(row) /\ Becomes(p, IF was = NoJob THEN m
             ELSE [m EXCEPT !.mem[j] = Stamp(@, w, ts, "orphaned", executed),
                            !.touched = @ \cup {j}, !.notices = @ \cup {j}])
    BY DEF CloseOrphan
  <2> HIDE DEF m, n, w, ts, j, executed, row, was
  <2> QED BY <2>1, <2>2
<1>4. executed \in BOOLEAN /\ "orphaned" \in States \ UnstampedStates /\ "orphaned" \in BadStates
  BY DEF States, UnstampedStates, BadStates
<1>5. row \in Rows /\ row.event = "finished" /\ row.job = j /\ row.wake = w /\ row.state = "orphaned"
  BY <1>1, <1>2, <1>4, RowTypes DEF FinishedRow
<1> HIDE DEF executed, i, w, ts, row, j
<1>6. m.pc = "close" /\ m.mem = me.mem /\ m.rows = me.rows
  <2> HIDE DEF me
  <2> QED BY <1>0, <1>1, LocalsFields
<1>7. n.pc = "close" /\ n.mem = mem /\ n.rows = me.rows
  <2>1. m.pc = "close" /\ m.rows = me.rows /\ DOMAIN m = DOMAIN me
    BY <1>6
  <2> HIDE DEF mem, me
  <2> QED BY <1>0, <1>1, <2>1, LocalsFields
<1> HIDE DEF m, n
\* It lives, and is left alone.
<1>8. CASE Becomes(p, m) /\ ledger' = ledger
  <2>1. Closing(ledger', m) /\ Begun(ledger', m)
    BY <1>0, <1>1, <1>6, <1>8 DEF Closing, Begun
  <2> QED BY <1>0, <1>1, <1>6, <1>8, <2>1, StreakGoesOn
\* It is closed.
<1>9. ASSUME Write(row), NEW x, x.pc = "close", x.rows = me.rows, Becomes(p, x),
             \A k \in Jobs : x.mem[k] # NoJob =>
               \/ x.mem[k] = me.mem[k] /\ k # j
               \/ k = j /\ was # NoJob /\ x.mem[k] = r
      PROVE  StreakInv'
  <2>1. ledger' = Append(ledger, row) /\ ~FinishedIn(ledger, w)
    BY <1>1, <1>5, <1>9, NotOverYet DEF Write
  <2>2. /\ \A k \in DOMAIN ledger : k \in DOMAIN ledger' /\ ledger'[k] = ledger[k]
        /\ Len(ledger') \in DOMAIN ledger' /\ ledger'[Len(ledger')] = row
        /\ \A k \in DOMAIN ledger' : k \in DOMAIN ledger \/ k = Len(ledger')
        /\ SubSeq(ledger', 1, me.rows) = read
    BY <1>1, <1>5, <2>1, RowMore, ReadKept
  <2>3. StartOf(ledger', Len(ledger')) = ts
    <3>1. i \in DOMAIN ledger' /\ ledger'[i].event = "started" /\ ledger'[i].wake = ledger'[Len(ledger')].wake
      BY <1>2, <1>5, <2>2 DEF w
    <3>2. StartOf(ledger', Len(ledger')) = ledger'[i].ts
      BY <1>1, <2>2, <3>1, StartOfIs
    <3> QED BY <1>2, <2>2, <3>2 DEF ts
  <2>4. ASSUME was # NoJob
        PROVE  /\ was \in Records /\ r \in Records /\ Tallied(ledger', r, j) /\ r.started >= ts
               /\ r.started >= was.started /\ Told(r) <= Told(was) + 1
    <3>1. was \in Records /\ Tallied(ledger, was, j)
      BY <1>1, <1>2, <2>4 DEF Stores, StreakInv
    <3> HIDE DEF was
    <3>2. Tallied(ledger', r, j)
      <4>1. ts >= StartOf(ledger', Len(ledger')) /\ row.state \notin UnstampedStates
        BY <1>2, <1>4, <1>5, <2>3
      <4> QED BY <1>1, <1>2, <1>4, <1>5, <2>1, <3>1, <4>1, StampTallied
    <3>3. r \in Records /\ r.started >= ts /\ r.started >= was.started /\ Told(r) <= Told(was) + 1
      <4>1. "orphaned" \in States \cup {"none"} /\ ~executed
        BY <1>4 DEF executed
      <4> QED BY <1>2, <1>4, <3>1, <4>1, StampTold
    <3> QED BY <3>1, <3>2, <3>3
  <2> HIDE DEF r, read
  <2>5. \A k \in DOMAIN ledger' : k > me.rows => ledger'[k].event # "started"
    BY <1>0, <1>1, <1>5, <2>2 DEF Closing
  <2>6. ASSUME NEW k \in Jobs, x.mem[k] # NoJob, NEW l \in DOMAIN read, Newest(read, k, l)
        PROVE  Apart(ledger', x.mem[k], k, read[l].wake, StartOf(read, l))
    <3> DEFINE v == read[l].wake
               t == StartOf(read, l)
    <3>1. me.mem[k] # NoJob
      BY <1>9, <2>6
    <3>2. Apart(ledger, me.mem[k], k, v, t)
      BY <1>0, <1>1, <2>6, <3>1 DEF Closing, read
    <3>3. t \in Nat /\ v # w
      <4>1. FinishedIn(ledger, v)
        BY <1>1, <2>6 DEF Newest, StampingAt, FinishedIn
      <4> QED BY <1>1, <2>1, <4>1, StartOfType
    <3> HIDE DEF v, t
    <3>4. CASE k # j
      <4>1. x.mem[k] = me.mem[k] /\ me.mem[k] \in Records
        BY <1>1, <1>9, <2>6, <3>1, <3>4 DEF Stores
      <4>2. row.event \in {"started", "finished"} => ~FinishedIn(ledger, row.wake)
        BY <1>5, <2>1
      <4>3. Apart(ledger', me.mem[k], k, v, t)
        <5> HIDE DEF me
        <5> QED BY <1>1, <1>5, <2>1, <3>2, <3>3, <4>1, <4>2, TalliedMore
      <4> QED BY <4>1, <4>3 DEF v, t
    <3>5. CASE k = j
      <4>1. x.mem[k] = r /\ was # NoJob
        BY <1>9, <2>6, <3>5
      <4>2. /\ Told(r) \in Nat /\ Told(was) \in Nat /\ r.started \in Nat /\ was.started \in Nat
            /\ r.started >= was.started /\ Told(r) <= Told(was) + 1
        <5>1. /\ was \in Records /\ r \in Records
              /\ r.started >= was.started /\ Told(r) <= Told(was) + 1
          BY <2>4, <4>1
        <5> HIDE DEF was
        <5>2. Told(r) \in Nat /\ r.started \in Nat
          BY <5>1, ToldType
        <5>3. Told(was) \in Nat /\ was.started \in Nat
          BY <5>1, ToldType
        <5> QED BY <5>1, <5>2, <5>3
      <4>3. /\ Cardinality(BadWakes(ledger, j) \ {v}) \in Nat
            /\ Cardinality(BadWakes(ledger', j) \ {v}) = Cardinality(BadWakes(ledger, j) \ {v}) + 1
        <5>1. Cardinality(BadWakes(ledger, j) \ {v}) \in Nat
          BY <1>1, BadFinite
        <5>2. /\ row.event = "finished" /\ ~FinishedIn(ledger, row.wake) /\ row.job = j
              /\ row.state \in BadStates \cup {"detached"} /\ v # row.wake
          BY <1>4, <1>5, <2>1, <3>3
        <5>3. Cardinality(BadWakes(Append(ledger, row), row.job) \ {v}) =
                Cardinality(BadWakes(ledger, row.job) \ {v}) + 1
          <6> HIDE DEF me, v
          <6>1. ledger \in Seq(Rows) /\ row \in Rows
            BY <1>1, <1>5
          <6> QED BY <5>2, <6>1, OthersGrow
        <5> QED BY <2>1, <5>1, <5>2, <5>3
      <4>4. Told(was) <= Cardinality(BadWakes(ledger, j) \ {v}) \/ was.started >= t
        BY <3>2, <3>5 DEF Apart
      <4> HIDE DEF was
      <4>5. Apart(ledger', r, j, v, t)
        BY <3>3, <4>2, <4>3, <4>4 DEF Apart
      <4> QED BY <3>5, <4>1, <4>5 DEF v, t
    <3> QED BY <3>4, <3>5
  <2>7. ASSUME NEW k \in Jobs, x.mem[k] # NoJob, NEW l \in StampingAt(ledger', k), l > me.rows
        PROVE  x.mem[k].started >= StartOf(ledger', l)
    <3>1. me.mem[k] # NoJob
      BY <1>9, <2>7
    <3>2. \/ l \in StampingAt(ledger, k) /\ l \in DOMAIN ledger
          \/ l = Len(ledger') /\ row.job = k
      BY <1>1, <1>5, <2>1, <2>7, StampingMore
    <3>3. CASE l = Len(ledger') /\ row.job = k
      BY <1>5, <1>9, <2>3, <2>4, <2>7, <3>3
    <3>4. CASE l \in StampingAt(ledger, k) /\ l \in DOMAIN ledger
      <4>1. me.mem[k].started >= StartOf(ledger, l)
        BY <1>0, <1>1, <2>7, <3>1, <3>4 DEF Closing
      <4>2. StartOf(ledger', l) = StartOf(ledger, l) /\ StartOf(ledger, l) \in Nat
        BY <1>1, <1>5, <2>1, <3>4, StartOfMore, StartOfType
      <4>3. me.mem[k].started \in Nat /\ (k = j /\ was # NoJob => r.started \in Nat)
        BY <1>1, <2>4, <3>1 DEF Stores, Records
      <4>4. x.mem[k] = me.mem[k] \/ (k = j /\ was # NoJob /\ x.mem[k] = r)
        BY <1>9, <2>7
      <4> QED BY <2>4, <4>1, <4>2, <4>3, <4>4
    <3> QED BY <3>2, <3>3, <3>4
  <2>8. Closing(ledger', x) /\ Begun(ledger', x)
    BY <1>9, <2>2, <2>5, <2>6, <2>7 DEF Closing, Begun
  <2>9. \A k \in Jobs : x.mem[k] \in {proc[p].mem[k], disk[k], NoJob} \/ Tallied(ledger', x.mem[k], k)
    BY <1>9, <2>4
  <2> HIDE DEF me
  <2> QED BY <1>0, <1>1, <1>5, <1>9, <2>1, <2>8, <2>9, StreakGoesOn
<1>10. CASE Write(row) /\ Becomes(p, m) /\ was = NoJob
  BY <1>6, <1>9, <1>10
<1>11. CASE Write(row) /\ Becomes(p, n) /\ was # NoJob
  <2> HIDE DEF r
  <2>1. \A k \in Jobs : mem[k] = IF k = j THEN r ELSE me.mem[k]
    <3> HIDE DEF me
    <3> QED BY <1>1, <1>2 DEF Stores
  <2> HIDE DEF mem, me, was
  <2> QED BY <1>7, <1>9, <1>11, <2>1
<1> QED BY <1>3, <1>8, <1>10, <1>11

\* What recovery makes of a record: a wake counted at most once, those that
\* were closed since the rows were read included.
LEMMA RecoverTallied ==
  ASSUME NEW rows \in Seq(Rows), NEW read \in Seq(Rows), OnceInv(rows), OnceInv(read),
         NEW all \in Nat, DOMAIN read = 1..all,
         \A x \in DOMAIN read : x \in DOMAIN rows /\ read[x] = rows[x],
         \A x \in DOMAIN rows : x > all => rows[x].event # "started",
         NEW mem \in Stores, NEW j \in Jobs, mem[j] # NoJob, Tallied(rows, mem[j], j),
         \A x \in DOMAIN read :
           Newest(read, j, x) => Apart(rows, mem[j], j, read[x].wake, StartOf(read, x)),
         \A x \in StampingAt(rows, j) : x > all => mem[j].started >= StartOf(rows, x)
  PROVE  RecoverStamps(mem, read)[j] \in Records /\ Tallied(rows, RecoverStamps(mem, read)[j], j)
<1> DEFINE was == mem[j]
           r == RecoverStamps(mem, read)[j]
           i == Max(StampingAt(read, j))
           v == read[i].wake
           t == StartOf(read, i)
           executed == FALSE
           stamped == Stamp(was, v, t, read[i].state, executed)
<1>1. /\ was \in Records /\ r \in Records /\ r.started >= was.started
      /\ StampingAt(read, j) # {} =>
           i \in StampingAt(read, j) /\ \A x \in StampingAt(read, j) : x <= i
  BY RecoverMoves
<1>2. r = IF StampingAt(read, j) # {} /\ Behind(was, read, i) THEN stamped ELSE was
  BY DEF RecoverStamps
<1>3. executed \in BOOLEAN
  OBVIOUS
<1>4. was.started \in Nat /\ r.started \in Nat
  <2> HIDE DEF was, r
  <2> QED BY <1>1 DEF Records
<1>5. CASE ~(StampingAt(read, j) # {} /\ Behind(was, read, i))
  BY <1>1, <1>2, <1>5
<1>6. CASE StampingAt(read, j) # {} /\ Behind(was, read, i)
  <2> HIDE DEF r, i, executed
  <2>1. /\ i \in DOMAIN read /\ read[i].event = "finished" /\ read[i].job = j /\ i \in 1..all
        /\ read[i] \in Rows /\ Newest(read, j, i)
    BY <1>1, <1>6 DEF StampingAt, Newest
  <2>2. v \in Wakes /\ read[i].state \in States \cup {"none"} /\ t \in Nat
    BY <2>1, StartOfType DEF Rows
  <2>3. Apart(rows, was, j, v, t) /\ t > was.started
    BY <1>6, <2>1 DEF Behind
  <2> HIDE DEF was, v, t
  <2>4. /\ r.started >= t /\ Told(r) <= Told(was) + 1
        /\ read[i].state \notin BadStates \cup {"detached"} => Told(r) <= Told(was)
    <3>1. r = stamped
      BY <1>2, <1>6
    <3> QED BY <1>1, <1>3, <2>2, <3>1, StampTold
  <2>5. read[i].state \in BadStates \cup {"detached"} =>
          Cardinality(BadWakes(rows, j)) = Cardinality(BadWakes(rows, j) \ {v}) + 1
    <3>1. ASSUME read[i].state \in BadStates \cup {"detached"} PROVE v \in BadWakes(rows, j)
      BY <2>1, <3>1 DEF BadWakes, Counting, v
    <3>2. v \in BadWakes(rows, j) =>
            Cardinality(BadWakes(rows, j)) = Cardinality(BadWakes(rows, j) \ {v}) + 1
      BY BadFinite
    <3> QED BY <3>1, <3>2
  <2>6. /\ Told(r) \in Nat /\ Told(was) \in Nat
        /\ Cardinality(BadWakes(rows, j)) \in Nat /\ Cardinality(BadWakes(rows, j) \ {v}) \in Nat
    BY <1>1, ToldType, BadFinite
  <2>7. Told(was) <= Cardinality(BadWakes(rows, j) \ {v})
    BY <1>4, <2>2, <2>3 DEF Apart
  <2>8. Cardinality(BadWakes(rows, j) \ {v}) <= Cardinality(BadWakes(rows, j))
    <3>1. v \notin BadWakes(rows, j) =>
            Cardinality(BadWakes(rows, j)) = Cardinality(BadWakes(rows, j) \ {v})
      <4>1. v \notin BadWakes(rows, j) => BadWakes(rows, j) \ {v} = BadWakes(rows, j)
        BY BadFinite
      <4> QED BY <4>1
    <3>2. v \in BadWakes(rows, j) =>
            Cardinality(BadWakes(rows, j)) = Cardinality(BadWakes(rows, j) \ {v}) + 1
      BY BadFinite
    <3> QED BY <2>6, <3>1, <3>2
  <2>9. Told(r) <= Cardinality(BadWakes(rows, j))
    BY <2>4, <2>5, <2>6, <2>7, <2>8
  <2>10. ASSUME NEW x \in DOMAIN rows, Newest(rows, j, x)
         PROVE  Apart(rows, r, j, rows[x].wake, StartOf(rows, x))
    <3>1. StartOf(rows, x) \in Nat /\ x \in StampingAt(rows, j) /\ x \in Nat
      BY <2>10, StartOfType DEF Newest
    <3>2. CASE x > all
      <4>1. was.started >= StartOf(rows, x)
        BY <3>1, <3>2 DEF was
      <4> QED BY <1>1, <1>4, <3>1, <4>1 DEF Apart
    <3>3. CASE ~(x > all)
      <4>1. x \in 1..all /\ x \in DOMAIN read /\ read[x] = rows[x]
        BY <3>1, <3>3
      <4>2. x \in StampingAt(read, j)
        BY <3>1, <4>1 DEF StampingAt, StillTheJob
      <4>3. x <= i /\ i \in Nat
        BY <1>1, <2>1, <4>2
      <4>4. i \in DOMAIN rows /\ rows[i] = read[i] /\ rows[x].job = j /\ StillTheJob(rows, x)
        BY <2>1, <3>1 DEF StampingAt
      <4>5. StillTheJob(rows, i)
        <5>1. \A y \in DOMAIN rows : y > i => y > x
          BY <3>1, <4>3
        <5> QED BY <2>1, <4>4, <5>1 DEF StillTheJob
      <4>6. i \in StampingAt(rows, j)
        BY <2>1, <3>1, <4>2, <4>4, <4>5, <1>1, <1>6 DEF StampingAt
      <4>7. i = x
        BY <2>10, <3>1, <4>3, <4>6 DEF Newest
      <4>8. StartOf(rows, i) = t
        <5>1. CASE \E y \in DOMAIN rows : rows[y].event = "started" /\ rows[y].wake = rows[i].wake
          <6>1. PICK y \in DOMAIN rows : rows[y].event = "started" /\ rows[y].wake = rows[i].wake
            BY <5>1
          <6>2. y \in DOMAIN read /\ read[y] = rows[y]
            <7>1. y \in 1..all
              BY <6>1
            <7> QED BY <7>1
          <6>3. StartOf(rows, i) = rows[y].ts
            BY <4>4, <6>1, StartOfIs
          <6>4. StartOf(read, i) = read[y].ts
            BY <2>1, <4>4, <6>1, <6>2, StartOfIs
          <6> QED BY <6>2, <6>3, <6>4 DEF t
        <5>2. CASE ~\E y \in DOMAIN rows : rows[y].event = "started" /\ rows[y].wake = rows[i].wake
          <6>1. ~\E y \in DOMAIN read : read[y].event = "started" /\ read[y].wake = read[i].wake
            BY <4>4, <5>2
          <6> QED BY <4>4, <5>2, <6>1 DEF StartOf, t
        <5> QED BY <5>1, <5>2
      <4>9. r.started >= StartOf(rows, x)
        BY <2>4, <4>7, <4>8
      <4> QED BY <4>9 DEF Apart
    <3> QED BY <3>2, <3>3
  <2>11. Tallied(rows, r, j)
    BY <2>9, <2>10 DEF Tallied
  <2> QED BY <1>1, <2>11 DEF r
<1> QED BY <1>5, <1>6

\* The end of reconcile: what was lost is recovered, and the detached judged.
LEMMA RepairStreak ==
  ASSUME TypeInv, WriterInv, WriterInv', StreakInv, NEW p \in RunDue, Repair(p)
  PROVE  StreakInv'
<1> DEFINE me == proc[p]
           read == SubSeq(ledger, 1, me.rows)
           recovered == RecoverStamps(me.mem, read)
           judged == [j \in Jobs |-> JudgeReceipt(recovered[j], receipt[j])]
           failed == {j \in Jobs : ReceiptJudges(recovered[j], receipt[j]) /\ ~receipt[j].ok}
           touched == me.touched \cup {j \in Jobs : judged[j] # me.mem[j]}
           notices == me.notices \cup failed
           pc == IF touched = {} THEN "enter" ELSE "reload"
           n == [me EXCEPT !.mem = judged, !.touched = touched, !.notices = notices,
                           !.ret = "enter", !.rows = 0, !.scan = 0, !.pc = pc]
<1>0. me.pc = "close" /\ disk' = disk /\ ledger' = ledger
  BY DEF Repair, At, files
<1>1. /\ p \in Procs /\ me \in Locals /\ me.mem \in Stores /\ me.rows \in Nat
      /\ ledger \in Seq(Rows) /\ OnceInv(ledger) /\ Closing(ledger, me)
      /\ read \in Seq(Rows) /\ OnceInv(read) /\ DOMAIN read = 1..me.rows
      /\ \A k \in DOMAIN read : k \in DOMAIN ledger /\ read[k] = ledger[k]
  BY <1>0, CloseHas
<1>2. \A j \in Jobs : receipt[j] \in Receipts \cup {NoReceipt}
  BY DEF TypeInv, TypeOK
<1>3. Becomes(p, n)
  <2>1. [me EXCEPT !.mem = judged, !.touched = touched, !.notices = @ \cup failed,
                   !.ret = "enter", !.rows = 0, !.scan = 0, !.pc = pc] = n
    <3> HIDE DEF judged, touched, failed, pc
    <3> QED BY <1>1
  <2> HIDE DEF n
  <2> QED BY <2>1 DEF Repair, SnapshotOf
<1>4. ASSUME NEW j \in Jobs, me.mem[j] # NoJob
      PROVE  recovered[j] \in Records /\ Tallied(ledger, recovered[j], j)
  <2>1. Tallied(ledger, me.mem[j], j)
    BY <1>1, <1>4 DEF StreakInv
  <2>2. /\ \A k \in DOMAIN ledger : k > me.rows => ledger[k].event # "started"
        /\ \A x \in DOMAIN read :
             Newest(read, j, x) => Apart(ledger, me.mem[j], j, read[x].wake, StartOf(read, x))
        /\ \A x \in StampingAt(ledger, j) : x > me.rows => me.mem[j].started >= StartOf(ledger, x)
    BY <1>0, <1>1, <1>4 DEF Closing
  <2> HIDE DEF read, me
  <2> QED BY <1>1, <1>4, <2>1, <2>2, RecoverTallied
<1>5. \A j \in Jobs : me.mem[j] = NoJob => recovered[j] = NoJob
  BY DEF RecoverStamps
<1>6. \A j \in Jobs : judged[j] = JudgeReceipt(recovered[j], receipt[j])
  OBVIOUS
<1> HIDE DEF me, recovered, judged, failed, touched
<1>7. ASSUME NEW j \in Jobs PROVE judged[j] = NoJob \/ Tallied(ledger, judged[j], j)
  <2>1. CASE me.mem[j] = NoJob
    BY <1>2, <1>5, <1>6, <2>1, JudgeSame
  <2>2. CASE me.mem[j] # NoJob
    <3> DEFINE r == recovered[j]
               c == receipt[j]
               x == judged[j]
    <3>1. r \in Records /\ Tallied(ledger, r, j) /\ c \in Receipts \cup {NoReceipt}
          /\ x = JudgeReceipt(r, c)
      BY <1>2, <1>4, <1>6, <2>2
    <3> HIDE DEF r, c, x
    <3>2. x \in Records /\ Told(x) <= Told(r) /\ x.started = r.started /\ r.started \in Nat
      BY <3>1, JudgeTold, ToldType
    <3>3. ledger \in Seq(Rows) /\ OnceInv(ledger) /\ Told(x) <= Told(r) /\ x.started >= r.started
      BY <1>1, <3>2
    <3>4. Tallied(ledger, r, j) => Tallied(ledger, x, j)
      BY <3>1, <3>2, <3>3, LessTallied
    <3> QED BY <3>1, <3>4 DEF x
  <2> QED BY <2>1, <2>2
<1>8. pc \in {"enter", "reload"}
  OBVIOUS
<1> HIDE DEF pc, notices
<1>9. n.pc = pc /\ n.mem = judged
  BY <1>1, LocalsFields
<1> HIDE DEF n
<1> QED BY <1>0, <1>1, <1>3, <1>7, <1>8, <1>9, StreakMoves DEF Begun

-----------------------------------------------------------------------------
(* The theorem                                                             *)

LEMMA InitStreakInv ==
  ASSUME Init
  PROVE  StreakInv
<1>1. ledger = <<>> /\ ledger \in Seq(Rows)
  BY DEF Init
<1>2. ASSUME NEW j \in Jobs, disk[j] # NoJob PROVE Tallied(ledger, disk[j], j)
  <2>1. disk[j] = NewRecord(1)
    BY <1>2 DEF Init
  <2>2. Told(disk[j]) = 0
    BY <2>1 DEF Told, NewRecord
  <2> QED BY <1>1, <2>2, NothingTold
<1>3. \A p \in Procs : /\ \A j \in Jobs : proc[p].mem[j] = NoJob
                       /\ proc[p].pc \in {"start", "done"}
  BY DEF Init, Fresh
<1>4. \A p \in RunDue : Closing(ledger, proc[p]) /\ Begun(ledger, proc[p])
  BY <1>3, PassAssumption DEF Closing, Begun
<1> QED BY <1>2, <1>3, <1>4 DEF StreakInv

\* The steps of an operator's verb.
LEMMA OperatorSteps ==
  ASSUME TypeInv, WriterInv, NEW p \in Operator, Start(p) \/ Step(p) \/ Die(p)
  PROVE  \/ StartAdd(p) \/ StartSet(p) \/ StartRemove(p) \/ CheckRemove(p) \/ RemovedRowWritten(p)
         \/ Save(p) \/ Fail(p) \/ Die(p)
<1>1. /\ p \in Procs /\ p \notin RunDue /\ p \notin Run /\ p \notin Reconciler
      /\ proc[p].pc \in {"start", "check", "save", "removed"} \cup Ended
  BY PassAssumption DEF WriterInv, PlaceInv, Placed
<1> QED BY <1>1 DEF Start, StartPass, StartRun, StartReconcile, Step, Load, Reload, Notify, CardAnswer,
      ReadRows, CloseOrphan, Repair, EnterLoop, PassOver, SkewRow, SkipRow, EndPass, TakeLock,
      Overlap, Recheck, Begin, Spawn, Finish, Unlock, Turn, Due, Executes, At, Ended

LEMMA StreakStep ==
  ASSUME TypeInv, WriterInv, WriterInv', Quiet, StreakInv, [Next]_vars
  PROVE  StreakInv'
<1>1. ASSUME NEW p \in Procs, Start(p) \/ Step(p) \/ Die(p) PROVE StreakInv'
  <2>1. p \in RunDue \cup Operator
    BY <1>1, ActorIs DEF Quiet, WriterInv
  <2>2. p \notin Run /\ p \notin Reconciler /\ Placed(p, proc[p]) /\ (p \in RunDue => p \notin Operator)
    BY <2>1, PassAssumption DEF WriterInv, PlaceInv
  <2>3. CASE Fail(p) \/ Die(p) \/ EndPass(p)
    BY <2>1, <2>3, EndStreak
  <2>4. CASE Reload(p) \/ Save(p)
    <3>1. Reload(p) => p \in RunDue /\ Alive(p)
      BY <2>1, <2>2 DEF Placed, Ended, Reload, At, Alive
    <3> QED BY <2>1, <2>4, <3>1, ReloadStreak, SaveStreak
  <2>5. CASE p \in RunDue /\ ~(Fail(p) \/ Die(p) \/ EndPass(p) \/ Reload(p) \/ Save(p))
    <3>1. CASE StartPass(p)
      BY <2>5, <3>1, EndStreak
    <3>2. CASE ~StartPass(p)
      <4>1. Step(p)
        BY <1>1, <2>2, <2>5, <3>2 DEF Start, StartRun, StartReconcile, StartAdd, StartSet, StartRemove
      <4>2. ~CheckRemove(p) /\ ~RemovedRowWritten(p)
        BY <2>2, <2>5 DEF Placed, CheckRemove, RemovedRowWritten, At
      <4>3. Alive(p)
        BY <2>5, <4>1 DEF Step, Load, Reload, Save, Notify, CardAnswer, ReadRows, CloseOrphan, Repair,
          EnterLoop, PassOver, SkewRow, SkipRow, EndPass, TakeLock, Overlap, Recheck, Begin, Spawn,
          Finish, Unlock, Fail, CheckRemove, RemovedRowWritten, Turn, Due, Executes, At, Alive
      <4>4. CASE Load(p) \/ ReadRows(p)
        BY <2>5, <4>4, ReadStreak
      <4>5. CASE CloseOrphan(p) \/ Repair(p)
        BY <2>5, <4>5, CloseStreak, RepairStreak
      <4>6. CASE EnterLoop(p) \/ PassOver(p) \/ CardAnswer(p) \/ Notify(p)
        BY <2>5, <4>3, <4>6, TurnStreak
      <4>7. CASE TakeLock(p) \/ Spawn(p) \/ Unlock(p)
        BY <2>5, <4>3, <4>7, TurnStreak
      <4>8. CASE SkewRow(p) \/ SkipRow(p) \/ Overlap(p)
        BY <2>5, <4>3, <4>8, TurnRowStreak
      <4>9. CASE Recheck(p) \/ Begin(p) \/ Finish(p)
        BY <2>5, <4>3, <4>9, WakeRowStreak
      <4> QED BY <2>5, <4>1, <4>2, <4>4, <4>5, <4>6, <4>7, <4>8, <4>9 DEF Step
    <3> QED BY <3>1, <3>2
  <2>6. CASE p \in Operator /\ ~(Fail(p) \/ Die(p) \/ EndPass(p) \/ Reload(p) \/ Save(p))
    <3>1. StartAdd(p) \/ StartSet(p) \/ StartRemove(p) \/ CheckRemove(p) \/ RemovedRowWritten(p)
      BY <1>1, <2>6, OperatorSteps
    <3> QED BY <2>6, <3>1, VerbStreak, RemovedStreak
  <2> QED BY <2>1, <2>2, <2>3, <2>4, <2>5, <2>6
<1>2. CASE disk' = disk /\ ledger' = ledger /\ proc' = proc
  BY <1>2 DEF StreakInv
<1>3. CASE \/ \E p \in RunDue : AgePass(p)
           \/ \E w \in Wakes : ChildExit(w) \/ Age(w)
           \/ Tick \/ StepBack \/ UNCHANGED vars
  <2>1. disk' = disk /\ ledger' = ledger /\ proc' = proc
    BY <1>3 DEF AgePass, ChildExit, Age, Tick, StepBack, vars, files, locks, world
  <2> QED BY <1>2, <2>1
<1> QED BY <1>1, <1>3 DEF Next

\* In every behaviour of passes, however many, and an operator beside them,
\* consecutive_failures in jobs.json is never more than the wakes of the job
\* that the ledger has as ended badly or detached, whoever stamped them: the
\* wake itself, reconcile as an orphan, recovery from the ledger or a receipt
\* (_stamp, _recover_stamps, _judge_detached_by_receipt and merge_touched
\* count each at most once, whatever dies or fails in between).
THEOREM StreakIsOfWakes == Spec => [](Quiet => StreakCountsWakes)
<1> DEFINE Inv == TypeInv /\ (Quiet => WriterInv /\ StreakInv)
<1>1. Init => Inv
  BY InitTypeInv, InitWriterInv, InitStreakInv
<1>2. ASSUME Inv, [Next]_vars PROVE Inv'
  <2>1. setting' = setting /\ TypeInv'
    BY <1>2, WorldTypes, TypeStep
  <2>2. Quiet' => Quiet
    BY <2>1 DEF Quiet, Given
  <2>3. Quiet => WriterInv'
    BY <1>2, WriterStep
  <2> QED BY <1>2, <2>1, <2>2, <2>3, StreakStep
<1>3. Inv => (Quiet => StreakCountsWakes)
  <2> SUFFICES ASSUME Inv, Quiet, NEW j \in Jobs, disk[j] # NoJob
               PROVE  disk[j].fails <= Cardinality({ledger[i].wake : i \in
                 {k \in DOMAIN ledger : /\ ledger[k].event = "finished" /\ ledger[k].job = j
                                        /\ ledger[k].state \in BadStates \cup {"detached"}}})
    BY DEF StreakCountsWakes
  <2> DEFINE r == disk[j]
  <2>1. r \in Records /\ ledger \in Seq(Rows) /\ Told(r) <= Cardinality(BadWakes(ledger, j))
    BY DEF TypeInv, TypeOK, StreakInv, Tallied
  <2> HIDE DEF r
  <2>2. Told(r) \in Nat /\ r.fails \in Nat /\ Told(r) >= r.fails /\ Cardinality(BadWakes(ledger, j)) \in Nat
    BY <2>1, ToldType, BadFinite
  <2>3. r.fails <= Cardinality(BadWakes(ledger, j))
    BY <2>1, <2>2
  <2> QED BY <2>3 DEF BadWakes, Counting, r
<1> HIDE DEF Inv
<1> QED BY <1>1, <1>2, <1>3, PTL DEF Spec

-----------------------------------------------------------------------------
(* The clock-skew rows                                                     *)

\* Passes only, on a disk that refuses nothing.
Reliable == Alone /\ ~Given.faults

\* The clock-skew rows of a job, of passes that were not killed.
Slips(j) ==
  {i \in DOMAIN ledger :
     /\ ledger[i].event = "finished" /\ ledger[i].job = j
     /\ ledger[i].wake.kind = "skew" /\ ~At(ledger[i].wake.proc, "gone")}

\* The pass has told of the skew of the job, and is about to save its stamp.
Healing(m, j) == Place(m) = "gate" /\ m.pc \in {"reload", "save"} /\ j = Min(m.todo)

\* Where a pass is in its loop.
InTurn == {"loop", "judge", "gate", "unlock"} \cup AtWake

\* The wake that recovery would stamp did not begin later than t.
Past(rows, j, t) == \A i \in DOMAIN rows : Newest(rows, j, i) => StartOf(rows, i) <= t

\* What a pass has of the job is no later than t; and a job whose turn is to
\* come is not ahead of the clock the pass judges by.
Paced(t, store, rows, m, j) ==
  /\ m.mem[j] # NoJob => m.mem[j].started <= t
  /\ m.pc \in AtWake /\ m.cur.job = j => m.started <= t
  /\ m.pc = "close" => Past(SubSeq(rows, 1, m.rows), j, t)
  /\ Place(m) \in InTurn /\ j \in m.todo /\ ~(Place(m) = "gate" /\ j = Min(m.todo)) =>
       /\ m.mem[j] # NoJob => m.mem[j].started <= m.at
       /\ store[j] # NoJob => store[j].started <= m.at

\* Nothing that is or may become a start of the job lies ahead of the clock, but
\* for a start in jobs.json whose stamp is about to be saved.
Settled(j) ==
  /\ Past(ledger, j, now)
  /\ \A i \in OpenAt(ledger) : ledger[i].job = j => ledger[i].ts <= now
  /\ disk[j] # NoJob => disk[j].started <= now \/ \E p \in RunDue : Healing(proc[p], j)
  /\ \A p \in RunDue : Paced(now, disk, ledger, proc[p], j)

\* Row i tells of a skew that pass p saw of job j.
TellsSkew(rows, i, p, j) ==
  /\ rows[i].event = "finished" /\ rows[i].job = j
  /\ rows[i].wake.kind = "skew" /\ rows[i].wake.proc = p

\* The inductive invariant: the clock stepped back once for each clock-skew row
\* of a job at least, and when no more often, the job is settled.
SkewInv ==
  /\ \A p \in RunDue : Place(proc[p]) = "gate" =>
       \E i \in DOMAIN ledger : TellsSkew(ledger, i, p, Min(proc[p].todo))
  /\ \A j \in Jobs :
       Cardinality(Slips(j)) <= stepped /\ (Cardinality(Slips(j)) = stepped => Settled(j))

\* A row more: the wake that recovery would stamp now is the one that was, or
\* that of the row.
LEMMA PastMore ==
  ASSUME NEW rows \in Seq(Rows), NEW row \in Rows, OnceInv(rows), OnceInv(Append(rows, row)),
         NEW t \in Nat, NEW j, Past(rows, j, t),
         row.event = "started" => ~FinishedIn(rows, row.wake),
         row.event = "finished" /\ row.job = j /\ row.state \notin UnstampedStates =>
           /\ row.ts <= t
           /\ \A k \in DOMAIN rows :
                rows[k].event = "started" /\ rows[k].wake = row.wake => rows[k].ts <= t
  PROVE  Past(Append(rows, row), j, t)
<1> DEFINE more == Append(rows, row)
<1> SUFFICES ASSUME NEW i \in DOMAIN more, Newest(more, j, i) PROVE StartOf(more, i) <= t
  BY DEF Past
<1>1. /\ \A k \in DOMAIN rows : k \in DOMAIN more /\ more[k] = rows[k]
      /\ more[Len(more)] = row /\ Len(more) \in DOMAIN more
      /\ \A k \in DOMAIN more : k \in DOMAIN rows \/ k = Len(more)
  BY RowMore
<1>2. IF row.event = "finished" /\ row.job = j /\ row.state \notin UnstampedStates
        THEN i = Len(more) /\ more[i] = row
        ELSE i \in DOMAIN rows /\ Newest(rows, j, i) /\ more[i] = rows[i]
  BY NewestMore
<1>3. CASE row.event = "finished" /\ row.job = j /\ row.state \notin UnstampedStates
  <2>1. i = Len(more) /\ more[i] = row /\ OnceInv(more)
    BY <1>2, <1>3
  <2> HIDE DEF more
  <2>2. CASE \E k \in DOMAIN more : more[k].event = "started" /\ more[k].wake = more[i].wake
    <3>1. PICK k \in DOMAIN more : more[k].event = "started" /\ more[k].wake = more[i].wake
      BY <2>2
    <3>2. StartOf(more, i) = more[k].ts
      BY <2>1, <3>1, StartOfIs
    <3>3. k \in DOMAIN rows /\ more[k] = rows[k]
      BY <1>1, <1>3, <2>1, <3>1
    <3> QED BY <1>3, <2>1, <3>1, <3>2, <3>3
  <2>3. CASE ~\E k \in DOMAIN more : more[k].event = "started" /\ more[k].wake = more[i].wake
    <3>1. StartOf(more, i) = more[i].ts
      BY <2>3 DEF StartOf
    <3> QED BY <1>3, <2>1, <3>1
  <2> QED BY <2>2, <2>3
<1>4. CASE ~(row.event = "finished" /\ row.job = j /\ row.state \notin UnstampedStates)
  <2>1. i \in DOMAIN rows /\ Newest(rows, j, i) /\ more[i] = rows[i]
    BY <1>2, <1>4
  <2>2. rows[i].event = "finished"
    BY <2>1 DEF Newest, StampingAt
  <2>3. row.event = "started" => row.wake # rows[i].wake
    BY <2>1, <2>2 DEF FinishedIn
  <2>4. StartOf(more, i) = StartOf(rows, i)
    BY <2>1, <2>3, StartOfMore
  <2> QED BY <2>1, <2>4 DEF Past
<1> QED BY <1>3, <1>4

\* A row more opens at most the wake it starts.
LEMMA OpenMore ==
  ASSUME NEW rows \in Seq(Rows), NEW row \in Rows, NEW i \in OpenAt(Append(rows, row))
  PROVE  LET more == Append(rows, row)
         IN \/ i \in OpenAt(rows) /\ i \in DOMAIN rows /\ more[i] = rows[i]
            \/ i = Len(more) /\ more[i] = row /\ row.event = "started"
<1> DEFINE more == Append(rows, row)
<1>1. /\ \A k \in DOMAIN rows : k \in DOMAIN more /\ more[k] = rows[k]
      /\ more[Len(more)] = row
      /\ \A k \in DOMAIN more : k \in DOMAIN rows \/ k = Len(more)
      /\ i \in OpenAt(more)
  BY RowMore
<1>2. \A w : FinishedIn(rows, w) => FinishedIn(more, w)
  BY FinishedMore
<1> HIDE DEF more
<1>3. \/ i \in OpenAt(rows) /\ i \in DOMAIN rows /\ more[i] = rows[i]
      \/ i = Len(more) /\ more[i] = row /\ row.event = "started"
  BY <1>1, <1>2 DEF OpenAt
<1> QED BY <1>3 DEF more

\* The clock-skew rows of a job are finitely many.
LEMMA SlipsFinite ==
  ASSUME TypeInv, NEW j
  PROVE  IsFiniteSet(Slips(j)) /\ Cardinality(Slips(j)) \in Nat
<1>1. DOMAIN ledger = 1..Len(ledger) /\ Len(ledger) \in Int /\ 1 \in Int
  BY DEF TypeInv, TypeOK
<1>2. IsFiniteSet(DOMAIN ledger)
  BY <1>1, FS_Interval
<1>3. Slips(j) \in SUBSET DOMAIN ledger
  BY DEF Slips
<1>4. IsFiniteSet(Slips(j))
  BY <1>2, <1>3, FS_Subset
<1> QED BY <1>4, FS_CardinalityType

-----------------------------------------------------------------------------
(* What a step must do                                                     *)

\* While a step adds no clock-skew row, there are no more than there were; and
\* none is of a pass that was killed before.
LEMMA SlipsKept ==
  ASSUME TypeInv, TypeInv', NEW p \in Procs, ~At(p, "gone"),
         \A q \in Procs \ {p} : proc'[q] = proc[q],
         \A i \in DOMAIN ledger' :
           \/ i \in DOMAIN ledger /\ ledger'[i] = ledger[i]
           \/ ledger'[i].event # "finished" \/ ledger'[i].wake.kind # "skew",
         NEW j
  PROVE  /\ Slips(j)' \subseteq Slips(j) /\ Cardinality(Slips(j)') \in Nat
         /\ Cardinality(Slips(j)') <= Cardinality(Slips(j))
<1>1. \A i \in DOMAIN ledger' : ledger'[i].event = "finished" => ledger'[i].wake.proc \in Procs
  BY DEF TypeInv, TypeOK, Rows, Wakes
<1>2. Slips(j)' \subseteq Slips(j)
  BY <1>1 DEF Slips, At
<1>3. IsFiniteSet(Slips(j)') /\ Cardinality(Slips(j)') <= Cardinality(Slips(j))
  BY <1>2, SlipsFinite, FS_Subset
<1> QED BY <1>2, <1>3, FS_CardinalityType

\* What a step of a pass must do to keep the invariant.
LEMMA SkewGoesOn ==
  ASSUME TypeInv, TypeInv', SkewInv, now' = now, stepped' = stepped, NEW p \in RunDue, NEW m,
         Becomes(p, m), ~At(p, "gone"),
         (disk' = disk /\ ledger' = ledger) \/ (\A q \in RunDue \ {p} : ~Alive(q)),
         (\A q \in RunDue \ {p} : ~Alive(q)) => \A q \in RunDue \ {p} : Lost(proc[q]),
         \A i \in DOMAIN ledger : i \in DOMAIN ledger' /\ ledger'[i] = ledger[i],
         \A i \in DOMAIN ledger' :
           \/ i \in DOMAIN ledger /\ ledger'[i] = ledger[i]
           \/ ledger'[i].event # "finished" \/ ledger'[i].wake.kind # "skew",
         Place(m) = "gate" => Place(proc[p]) = "gate" /\ m.todo = proc[p].todo,
         \A j \in Jobs : Settled(j) =>
           /\ Past(ledger', j, now)
           /\ \A i \in OpenAt(ledger') : ledger'[i].job = j => ledger'[i].ts <= now
           /\ disk'[j] # NoJob =>
                \/ disk'[j].started <= now \/ Healing(m, j)
                \/ \E q \in RunDue \ {p} : Healing(proc[q], j)
           /\ m.pc # "done" => Paced(now, disk', ledger', m, j)
  PROVE  SkewInv'
<1>0. /\ p \in Procs /\ RunDue \subseteq Procs
      /\ \A q \in Procs \ {p} : proc'[q] = proc[q]
      /\ proc'[p] = (IF m.pc = "done" THEN Fresh("done") ELSE m)
  BY PassAssumption, OthersStay
<1>1. Fresh("done").pc = "done" /\ Place(Fresh("done")) = "done" /\ \A j \in Jobs : Fresh("done").mem[j] = NoJob
  BY DEF Fresh, Place, Saving
<1>2. ASSUME NEW q \in RunDue, Place(proc'[q]) = "gate"
      PROVE  \E i \in DOMAIN ledger' : TellsSkew(ledger', i, q, Min(proc'[q].todo))
  <2>1. Place(proc[q]) = "gate" /\ proc'[q].todo = proc[q].todo
    BY <1>0, <1>1, <1>2
  <2> QED BY <2>1 DEF SkewInv, TellsSkew
<1>3. ASSUME NEW j \in Jobs, Settled(j) PROVE Settled(j)'
  <2>1. ASSUME NEW q \in RunDue PROVE Paced(now, disk', ledger', proc'[q], j)
    <3>1. CASE q = p /\ m.pc = "done"
      BY <1>0, <1>1, <3>1 DEF Paced, AtWake, InTurn
    <3>2. CASE q = p /\ m.pc # "done"
      BY <1>0, <1>3, <3>2
    <3>3. CASE q # p /\ disk' = disk /\ ledger' = ledger
      BY <1>0, <1>3, <3>3 DEF Settled
    <3>4. CASE q # p /\ \A x \in RunDue \ {p} : ~Alive(x)
      <4>1. proc'[q] = proc[q] /\ Lost(proc[q]) /\ proc[q].pc \in {"start", "done", "gone"}
        BY <1>0, <3>4 DEF Alive
      <4> QED BY <4>1 DEF Paced, Lost, AtWake, InTurn, Place, Saving
    <3> QED BY <3>1, <3>2, <3>3, <3>4
  <2>2. disk'[j] # NoJob => disk'[j].started <= now \/ \E q \in RunDue : Healing(proc'[q], j)
    <3>1. Healing(m, j) => Healing(proc'[p], j)
      BY <1>0 DEF Healing
    <3>2. \A q \in RunDue \ {p} : Healing(proc[q], j) => Healing(proc'[q], j)
      BY <1>0
    <3> QED BY <1>3, <3>1, <3>2
  <2>3. Past(ledger', j, now) /\ \A i \in OpenAt(ledger') : ledger'[i].job = j => ledger'[i].ts <= now
    BY <1>3
  <2> QED BY <2>1, <2>2, <2>3 DEF Settled
<1>4. ASSUME NEW j \in Jobs
      PROVE  /\ Cardinality(Slips(j)') <= stepped'
             /\ Cardinality(Slips(j)') = stepped' => Settled(j)'
  <2>1. /\ Cardinality(Slips(j)) <= stepped /\ (Cardinality(Slips(j)) = stepped => Settled(j))
        /\ Cardinality(Slips(j)') <= Cardinality(Slips(j)) /\ Cardinality(Slips(j)') \in Nat
    BY <1>0, SlipsKept DEF SkewInv
  <2>2. Cardinality(Slips(j)) \in Nat /\ stepped \in Nat
    BY SlipsFinite DEF TypeInv, TypeOK
  <2> QED BY <1>3, <2>1, <2>2
<1> QED BY <1>2, <1>4 DEF SkewInv

\* What is settled, as the pass that is there has it.
LEMMA SettledHere ==
  ASSUME TypeInv, WriterInv, NEW p \in RunDue, Alive(p), NEW j, Settled(j)
  PROVE  /\ Past(ledger, j, now)
         /\ \A i \in OpenAt(ledger) : ledger[i].job = j => ledger[i].ts <= now
         /\ disk[j] # NoJob => disk[j].started <= now \/ Healing(proc[p], j)
         /\ Paced(now, disk, ledger, proc[p], j)
<1>1. \A q \in RunDue \ {p} : ~Healing(proc[q], j)
  <2>1. \A q \in RunDue \ {p} : ~Alive(q)
    BY PassKnows
  <2> QED BY <2>1 DEF Alive, Healing
<1> QED BY <1>1 DEF Settled

\* The other passes have nothing in memory.
LEMMA OthersLost ==
  ASSUME RefireInv, NEW q \in RunDue, ~Alive(q)
  PROVE  Lost(proc[q])
BY DEF RefireInv, Rule, Ended, Alive

\* A step of a pass that writes no row.
LEMMA SkewMoves ==
  ASSUME TypeInv, TypeInv', WriterInv, RefireInv, SkewInv, now' = now, stepped' = stepped,
         NEW p \in RunDue, Alive(p), NEW m, Becomes(p, m), ledger' = ledger,
         Place(m) = "gate" => Place(proc[p]) = "gate" /\ m.todo = proc[p].todo,
         \A j \in Jobs : Settled(j) =>
           /\ disk'[j] # NoJob => disk'[j].started <= now \/ Healing(m, j)
           /\ m.pc # "done" => Paced(now, disk', ledger, m, j)
  PROVE  SkewInv'
<1>1. ~At(p, "gone") /\ \A q \in RunDue \ {p} : ~Alive(q) /\ Lost(proc[q])
  BY PassKnows, OthersLost DEF At, Alive
<1>2. \A j \in Jobs : Settled(j) =>
        Past(ledger, j, now) /\ \A i \in OpenAt(ledger) : ledger[i].job = j => ledger[i].ts <= now
  BY DEF Settled
<1> QED BY <1>1, <1>2, SkewGoesOn

\* A pass begins, or is over.
LEMMA EndSkew ==
  ASSUME TypeInv, TypeInv', WriterInv, RefireInv, SkewInv, NEW p \in RunDue,
         StartPass(p) \/ (Alive(p) /\ EndPass(p))
  PROVE  SkewInv'
<1> DEFINE me == proc[p]
<1>0. /\ p \in Procs /\ me \in Locals /\ Rule(disk, ledger, me)
      /\ disk' = disk /\ ledger' = ledger /\ now' = now /\ stepped' = stepped
  <2>1. disk' = disk /\ ledger' = ledger /\ now' = now /\ stepped' = stepped
    BY DEF StartPass, EndPass, files, world
  <2> QED BY <2>1, PassAssumption DEF TypeInv, TypeOK, RefireInv
<1>1. CASE StartPass(p)
  <2>1. PICK pc \in {"done", "load"} : Becomes(p, [me EXCEPT !.pc = pc])
    BY <1>1 DEF StartPass, Goto
  <2> DEFINE n == [me EXCEPT !.pc = pc]
  <2>2. Becomes(p, n) /\ Lost(me) /\ me.pc = "start"
    BY <1>0, <1>1, <2>1 DEF StartPass, At, Rule
  <2> HIDE DEF me
  <2>3. n.pc = pc /\ n.mem = me.mem
    BY <1>0, LocalsFields
  <2> HIDE DEF n
  <2>4. Place(n) = pc /\ n.pc \notin AtWake /\ n.pc # "close" /\ pc \notin InTurn
    BY <2>3 DEF Place, Saving, AtWake, InTurn
  <2>5. \A j \in Jobs : Paced(now, disk, ledger, n, j)
    BY <2>2, <2>3, <2>4 DEF Paced, Lost
  <2>6. \A j \in Jobs : ~Healing(me, j)
    BY <2>2 DEF Healing
  <2>7. ASSUME NEW j \in Jobs, Settled(j)
        PROVE  /\ Past(ledger, j, now)
               /\ \A i \in OpenAt(ledger) : ledger[i].job = j => ledger[i].ts <= now
               /\ disk[j] # NoJob =>
                    \/ disk[j].started <= now \/ Healing(n, j)
                    \/ \E q \in RunDue \ {p} : Healing(proc[q], j)
    BY <2>6, <2>7 DEF Settled, me
  <2>8. ~At(p, "gone") /\ \A q \in RunDue \ {p} : ~Alive(q) => Lost(proc[q])
    BY <2>2, OthersLost DEF At, me
  <2> QED BY <1>0, <2>2, <2>4, <2>5, <2>7, <2>8, SkewGoesOn
<1>2. CASE Alive(p) /\ EndPass(p)
  <2> DEFINE n == Fresh("done")
  <2>1. Becomes(p, n) /\ me.pc \in {"loop", "end"}
    BY <1>2 DEF EndPass, At
  <2>2. n.pc = "done" /\ Place(n) = "done"
    BY DEF Fresh, Place, Saving
  <2> HIDE DEF n
  <2>3. \A j \in Jobs : Settled(j) => (disk[j] # NoJob => disk[j].started <= now)
    BY <1>2, <2>1, SettledHere DEF Healing
  <2> QED BY <1>0, <1>2, <2>1, <2>2, <2>3, SkewMoves
<1> QED BY <1>1, <1>2

\* A pass that dies before its stamp is saved takes its clock-skew row out of
\* the count.
LEMMA DieSkew ==
  ASSUME TypeInv, TypeInv', WriterInv, RefireInv, SkewInv, NEW p \in RunDue, Alive(p), Die(p)
  PROVE  SkewInv'
<1> DEFINE me == proc[p]
           n == Fresh("gone")
<1>0. /\ p \in Procs /\ Becomes(p, n) /\ n.pc = "gone" /\ Place(n) = "gone"
      /\ \A j \in Jobs : n.mem[j] = NoJob
      /\ disk' = disk /\ ledger' = ledger /\ now' = now /\ stepped' = stepped
  BY PassAssumption DEF Die, files, world, Fresh, Place, Saving
<1> HIDE DEF n
<1>1. /\ proc'[p] = n /\ ~At(p, "gone") /\ me.pc # "gone"
      /\ \A q \in Procs \ {p} : proc'[q] = proc[q]
      /\ \A q \in RunDue \ {p} : ~Alive(q) /\ Lost(proc[q])
  BY <1>0, PassKnows, OthersStay, OthersLost DEF At, Alive
<1>2. ASSUME NEW q \in RunDue, Place(proc'[q]) = "gate"
      PROVE  \E i \in DOMAIN ledger' : TellsSkew(ledger', i, q, Min(proc'[q].todo))
  <2>1. proc'[q] = proc[q]
    BY <1>0, <1>1, <1>2, PassAssumption
  <2> QED BY <1>0, <1>2, <2>1 DEF SkewInv, TellsSkew
<1>3. ASSUME NEW j \in Jobs, Settled(j), ~Healing(me, j) PROVE Settled(j)'
  <2>1. disk[j] # NoJob => disk[j].started <= now
    BY <1>3, SettledHere
  <2>2. ASSUME NEW q \in RunDue PROVE Paced(now, disk, ledger, proc'[q], j)
    <3>1. CASE q = p
      BY <1>0, <1>1, <3>1 DEF Paced, AtWake, InTurn
    <3>2. CASE q # p
      <4>1. proc'[q] = proc[q]
        BY <1>1, <3>2, PassAssumption
      <4> QED BY <1>3, <4>1 DEF Settled
    <3> QED BY <3>1, <3>2
  <2> QED BY <1>0, <1>3, <2>1, <2>2 DEF Settled
<1>4. ASSUME NEW j \in Jobs, Healing(me, j) PROVE Slips(j)' # Slips(j)
  <2>1. PICK i \in DOMAIN ledger : TellsSkew(ledger, i, p, j)
    BY <1>4 DEF Healing, SkewInv
  <2>2. i \in Slips(j)
    BY <1>1, <2>1 DEF TellsSkew, Slips
  <2>3. i \notin Slips(j)'
    BY <1>0, <1>1, <2>1 DEF TellsSkew, Slips, At
  <2> QED BY <2>2, <2>3
<1>5. ASSUME NEW j \in Jobs
      PROVE  /\ Cardinality(Slips(j)') <= stepped'
             /\ Cardinality(Slips(j)') = stepped' => Settled(j)'
  <2>1. /\ Cardinality(Slips(j)) <= stepped /\ (Cardinality(Slips(j)) = stepped => Settled(j))
        /\ Cardinality(Slips(j)') <= Cardinality(Slips(j)) /\ Cardinality(Slips(j)') \in Nat
        /\ Slips(j)' \subseteq Slips(j)
    BY <1>0, <1>1, SlipsKept DEF SkewInv
  <2>2. Cardinality(Slips(j)) \in Nat /\ stepped \in Nat /\ IsFiniteSet(Slips(j))
    BY SlipsFinite DEF TypeInv, TypeOK
  <2>3. Cardinality(Slips(j)') = Cardinality(Slips(j)) => Slips(j)' = Slips(j)
    BY <2>1, <2>2, FS_Subset
  <2> QED BY <1>0, <1>3, <1>4, <2>1, <2>2, <2>3
<1> QED BY <1>2, <1>5 DEF SkewInv

-----------------------------------------------------------------------------
(* The steps without a row                                                 *)

\* A pass loads the store, reads the ledger, begins its loop.
LEMMA ReadSkew ==
  ASSUME TypeInv, TypeInv', WriterInv, RefireInv, SkewInv, NEW p \in RunDue, Alive(p),
         Load(p) \/ ReadRows(p) \/ EnterLoop(p)
  PROVE  SkewInv'
<1> DEFINE me == proc[p]
<1>0. /\ p \in Procs /\ me \in Locals /\ ledger \in Seq(Rows)
      /\ disk' = disk /\ ledger' = ledger /\ now' = now /\ stepped' = stepped
      /\ me.pc \in {"load", "rows", "enter"}
  <2>1. disk' = disk /\ ledger' = ledger /\ now' = now /\ stepped' = stepped
        /\ me.pc \in {"load", "rows", "enter"}
    BY DEF Load, ReadRows, EnterLoop, files, world, At
  <2> QED BY <2>1, PassAssumption DEF TypeInv, TypeOK
<1>1. ASSUME NEW j \in Jobs, Settled(j)
      PROVE  /\ disk[j] # NoJob => disk[j].started <= now
             /\ me.mem[j] # NoJob => me.mem[j].started <= now
             /\ Past(ledger, j, now)
  <2>1. ~Healing(me, j)
    BY <1>0 DEF Healing
  <2> QED BY <1>1, <2>1, SettledHere DEF Paced
<1>2. CASE Load(p)
  <2> DEFINE n == [me EXCEPT !.mem = disk, !.pc = "rows"]
  <2>1. Becomes(p, n)
    BY <1>2 DEF Load
  <2> HIDE DEF me
  <2>2. n.pc = "rows" /\ n.mem = disk
    BY <1>0, LocalsFields
  <2> HIDE DEF n
  <2>3. Place(n) = "rows" /\ \A j \in Jobs : Settled(j) => Paced(now, disk, ledger, n, j)
    BY <1>1, <2>2 DEF Paced, Place, Saving, AtWake, InTurn
  <2> QED BY <1>0, <1>1, <2>1, <2>3, SkewMoves
<1>3. CASE ReadRows(p)
  <2> DEFINE all == Len(ledger)
             n == [me EXCEPT !.rows = all, !.scan = 1, !.pc = "close"]
  <2>1. Becomes(p, n)
    BY <1>3 DEF ReadRows
  <2>2. SubSeq(ledger, 1, all) = ledger
    BY <1>0
  <2>3. all \in Nat
    BY <1>0
  <2> HIDE DEF me, all
  <2>4. n.pc = "close" /\ n.mem = me.mem /\ n.rows = all
    BY <1>0, <2>3, LocalsFields
  <2> HIDE DEF n
  <2>5. Place(n) = "close" /\ \A j \in Jobs : Settled(j) => Paced(now, disk, ledger, n, j)
    BY <1>1, <2>2, <2>4 DEF Paced, Place, Saving, AtWake, InTurn
  <2> QED BY <1>0, <1>1, <2>1, <2>5, SkewMoves
<1>4. CASE EnterLoop(p)
  <2> DEFINE todo == {j \in Jobs : me.mem[j] # NoJob}
             n == [me EXCEPT !.todo = todo, !.at = now, !.pc = "loop"]
  <2>1. Becomes(p, n)
    BY <1>4 DEF EnterLoop
  <2> HIDE DEF me, todo
  <2>2. n.pc = "loop" /\ n.mem = me.mem /\ n.at = now
    BY <1>0, LocalsFields
  <2> HIDE DEF n
  <2>3. Place(n) = "loop" /\ \A j \in Jobs : Settled(j) => Paced(now, disk, ledger, n, j)
    BY <1>1, <2>2 DEF Paced, Place, Saving, AtWake
  <2> QED BY <1>0, <1>1, <2>1, <2>3, SkewMoves
<1> QED BY <1>2, <1>3, <1>4

\* The jobs of a pass whose turn is to come are those it had before; it is at the
\* gate of a job when it was and its turn is not over.
Onward(me, n) ==
  /\ n.at = me.at /\ n.todo \subseteq me.todo
  /\ Place(n) = "gate" => Place(me) = "gate" /\ n.todo = me.todo
  /\ Place(me) = "gate" => (Place(n) = "gate" /\ n.todo = me.todo) \/ Min(me.todo) \notin n.todo
  /\ Place(n) \in InTurn => Place(me) \in InTurn

\* The steps of the loop that write nothing (TurnMoves says what else of them).
LEMMA TurnTurns ==
  ASSUME TypeInv, WriterInv, NEW p \in RunDue, Alive(p),
         \/ PassOver(p) \/ CardAnswer(p) \/ Notify(p) \/ TakeLock(p) \/ Spawn(p) \/ Unlock(p)
  PROVE  \E n : /\ Becomes(p, n) /\ n.mem = proc[p].mem /\ Onward(proc[p], n)
                /\ n.pc \notin {"close", "done"} /\ proc[p].pc \notin {"reload", "save"}
                /\ n.pc \in AtWake =>
                     \/ n.started = now
                     \/ n.started = proc[p].started /\ n.cur = proc[p].cur /\ proc[p].pc \in AtWake
<1> DEFINE me == proc[p]
           Done(n) == /\ n.mem = me.mem /\ Onward(me, n)
                      /\ n.pc \notin {"close", "done"} /\ me.pc \notin {"reload", "save"}
                      /\ n.pc \in AtWake =>
                           \/ n.started = now
                           \/ n.started = me.started /\ n.cur = me.cur /\ me.pc \in AtWake
<1> SUFFICES \E n : Becomes(p, n) /\ Done(n)
  OBVIOUS
<1>0. p \in Procs /\ me \in Locals
  BY PassKnows
\* A job whose turn is over.
<1>1. ASSUME NEW j, j = Min(me.todo), me.pc \in {"loop", "judge", "gate"}, Place(me) = me.pc,
             NEW n, n.mem = me.mem, n.at = me.at, n.todo = me.todo \ {j},
             n.pc = "loop" \/ (n.pc = "recheck" /\ n.started = now)
      PROVE  Done(n)
  <2>1. Place(n) = n.pc /\ n.pc # "gate" /\ me.pc \notin AtWake
    BY <1>1 DEF Place, Saving, AtWake
  <2>2. Onward(me, n)
    BY <1>1, <2>1 DEF Onward, InTurn
  <2> HIDE DEF me
  <2> QED BY <1>1, <2>2 DEF AtWake
\* A job whose turn it is still.
<1>2. ASSUME NEW n, n.mem = me.mem, n.at = me.at, n.todo = me.todo,
             Place(n) = Place(me) \/ (Place(n) # "gate" /\ Place(me) \in {"loop", "spawn", "unlock"}),
             n.pc \notin {"close", "done"}, me.pc \notin {"reload", "save"},
             n.pc \in AtWake => n.started = me.started /\ n.cur = me.cur /\ me.pc \in AtWake
      PROVE  Done(n)
  <2>1. Onward(me, n)
    BY <1>2 DEF Onward, InTurn, AtWake
  <2> QED BY <1>2, <2>1
<1>3. CASE PassOver(p)
  <2>1. PICK j \in Jobs :
          /\ Turn(p, j) \/ (At(p, "gate") /\ j = Min(me.todo))
          /\ Becomes(p, [me EXCEPT !.todo = @ \ {j}, !.pc = "loop"])
    BY <1>3 DEF PassOver
  <2> DEFINE n == [me EXCEPT !.todo = @ \ {j}, !.pc = "loop"]
  <2>2. Becomes(p, n) /\ me.pc \in {"loop", "judge", "gate"} /\ Place(me) = me.pc /\ j = Min(me.todo)
    BY <2>1, NextJob
  <2>3. n.pc = "loop" /\ n.mem = me.mem /\ n.at = me.at /\ n.todo = me.todo \ {j}
    <3> HIDE DEF me
    <3> QED BY <1>0, LocalsFields
  <2> HIDE DEF me, n, Done
  <2>4. Done(n)
    BY <1>1, <2>2, <2>3
  <2> QED BY <2>2, <2>4
<1>4. CASE CardAnswer(p)
  <2> DEFINE j == Min(me.todo)
  <2>1. /\ me.pc = "loop" /\ Place(me) = "loop"
        /\ \/ Becomes(p, [me EXCEPT !.pc = "judge"])
           \/ \E disable \in BOOLEAN :
                Becomes(p, [me EXCEPT
                  !.put = [job |-> j, report |-> [me.mem[j].report EXCEPT !.card = "spent"],
                           disable |-> disable],
                  !.touched = {j}, !.pc = "reload", !.ret = "judge"])
    BY <1>4 DEF CardAnswer, Goto, At, Place, Saving
  <2>2. CASE Becomes(p, [me EXCEPT !.pc = "judge"])
    <3> DEFINE n == [me EXCEPT !.pc = "judge"]
    <3>1. Becomes(p, n)
      BY <2>2
    <3>2. n.pc = "judge" /\ n.mem = me.mem /\ n.at = me.at /\ n.todo = me.todo
      <4> HIDE DEF me
      <4> QED BY <1>0, LocalsFields
    <3> HIDE DEF me, n, Done
    <3>3. Place(n) # "gate" /\ n.pc \notin AtWake
      BY <3>2 DEF Place, Saving, AtWake
    <3> QED BY <1>2, <2>1, <3>1, <3>2, <3>3
  <2>3. ASSUME NEW put,
               Becomes(p, [me EXCEPT !.put = put, !.touched = {j}, !.pc = "reload", !.ret = "judge"])
        PROVE  \E n : Becomes(p, n) /\ Done(n)
    <3> DEFINE n == [me EXCEPT !.put = put, !.touched = {j}, !.pc = "reload", !.ret = "judge"]
    <3>1. Becomes(p, n)
      BY <2>3
    <3>2. n.pc = "reload" /\ n.ret = "judge" /\ n.mem = me.mem /\ n.at = me.at /\ n.todo = me.todo
      <4> HIDE DEF me, j
      <4> QED BY <1>0, LocalsFields
    <3> HIDE DEF me, n, Done
    <3>3. Place(n) # "gate" /\ n.pc \notin AtWake
      BY <3>2 DEF Place, Saving, AtWake
    <3> QED BY <1>2, <2>1, <3>1, <3>2, <3>3
  <2> HIDE DEF me, j, Done
  <2> QED BY <2>1, <2>2, <2>3
<1>5. CASE Notify(p)
  <2> DEFINE j == Min(me.notices)
             m == [me EXCEPT !.notices = @ \ {j}]
             pc == AfterSave(m)
  <2>1. \/ \E card \in {"none", "open", "spent"} :
             Becomes(p, [m EXCEPT
               !.put = [job |-> j, report |-> [me.mem[j].report EXCEPT !.card = card],
                        disable |-> FALSE],
               !.touched = {j}, !.pc = "reload"])
        \/ Becomes(p, [m EXCEPT !.pc = pc])
    BY <1>5 DEF Notify
  <2>2. me.pc = "notify" /\ me.ret \in {"enter", "judge", "gate", "loop", "unlock"}
    BY <1>5, PassKnows DEF Notify, At, Placed, Saving
  <2>3. m \in Locals /\ m.ret = me.ret /\ m.mem = me.mem /\ m.at = me.at /\ m.todo = me.todo
    <3> HIDE DEF me, j
    <3> QED BY <1>0, LocalsFields
  <2>4. pc \in {"notify", me.ret} /\ Place(me) = me.ret
    BY <2>2, <2>3 DEF AfterSave, Place, Saving
  <2>5. ASSUME NEW n, n.pc \in {"reload", "notify", me.ret}, n.ret = me.ret, n.mem = me.mem,
               n.at = me.at, n.todo = me.todo
        PROVE  Done(n)
    <3> HIDE DEF me, Done
    <3>1. Place(n) = me.ret /\ n.pc \notin AtWake
      BY <2>2, <2>5 DEF Place, Saving, AtWake
    <3> QED BY <1>2, <2>2, <2>4, <2>5, <3>1
  <2>6. CASE Becomes(p, [m EXCEPT !.pc = pc])
    <3> DEFINE n == [m EXCEPT !.pc = pc]
    <3>1. Becomes(p, n)
      BY <2>6
    <3> HIDE DEF me, m, pc, Done
    <3>2. n.pc = pc /\ n.ret = m.ret /\ n.mem = m.mem /\ n.at = m.at /\ n.todo = m.todo
      BY <2>3, LocalsFields
    <3> HIDE DEF n
    <3> QED BY <2>3, <2>4, <2>5, <3>1, <3>2
  <2>7. ASSUME NEW put, Becomes(p, [m EXCEPT !.put = put, !.touched = {j}, !.pc = "reload"])
        PROVE  \E n : Becomes(p, n) /\ Done(n)
    <3> DEFINE n == [m EXCEPT !.put = put, !.touched = {j}, !.pc = "reload"]
    <3>1. Becomes(p, n)
      BY <2>7
    <3> HIDE DEF me, m, j, Done
    <3>2. n.pc = "reload" /\ n.ret = m.ret /\ n.mem = m.mem /\ n.at = m.at /\ n.todo = m.todo
      BY <2>3, LocalsFields
    <3> HIDE DEF n
    <3> QED BY <2>3, <2>5, <3>1, <3>2
  <2> HIDE DEF me, j, m, pc, Done
  <2> QED BY <2>1, <2>6, <2>7
<1>6. CASE TakeLock(p)
  <2> DEFINE w(j) == [proc |-> p, job |-> j, kind |-> "wake"]
  <2>1. PICK j \in Jobs :
          /\ Executes(p, j)
          /\ Becomes(p, [me EXCEPT !.cur = w(j), !.started = now, !.todo = @ \ {j}, !.pc = "recheck"])
    BY <1>6 DEF TakeLock
  <2> DEFINE n == [me EXCEPT !.cur = w(j), !.started = now, !.todo = @ \ {j}, !.pc = "recheck"]
  <2>2. Becomes(p, n) /\ me.pc \in {"loop", "judge", "gate"} /\ Place(me) = me.pc /\ j = Min(me.todo)
    BY <2>1, NextJob
  <2> HIDE DEF me, w, Done
  <2>3. n.pc = "recheck" /\ n.mem = me.mem /\ n.at = me.at /\ n.todo = me.todo \ {j} /\ n.started = now
    BY <1>0, LocalsFields
  <2> HIDE DEF n
  <2> QED BY <1>1, <2>2, <2>3
<1>7. CASE Spawn(p)
  <2> DEFINE n == [me EXCEPT !.pc = "wait"]
  <2>1. Becomes(p, n) /\ me.pc = "spawn" /\ Place(me) = "spawn" /\ me.pc \in AtWake
    BY <1>7 DEF Spawn, Goto, At, Place, Saving, AtWake
  <2> HIDE DEF me, Done
  <2>2. /\ n.pc = "wait" /\ n.mem = me.mem /\ n.at = me.at /\ n.todo = me.todo
        /\ n.started = me.started /\ n.cur = me.cur
    BY <1>0, LocalsFields
  <2> HIDE DEF n
  <2>3. Place(n) = "wait"
    BY <2>2 DEF Place, Saving
  <2> QED BY <1>2, <2>1, <2>2, <2>3
<1>8. CASE Unlock(p)
  <2> DEFINE n == [me EXCEPT !.cur = NoWake, !.started = 0, !.pc = "loop"]
  <2>1. Becomes(p, n) /\ me.pc = "unlock" /\ Place(me) = "unlock"
    BY <1>8 DEF Unlock, At, Place, Saving
  <2> HIDE DEF me, Done
  <2>2. n.pc = "loop" /\ n.mem = me.mem /\ n.at = me.at /\ n.todo = me.todo
    BY <1>0, LocalsFields
  <2> HIDE DEF n
  <2>3. Place(n) = "loop" /\ n.pc \notin AtWake
    BY <2>2 DEF Place, Saving, AtWake
  <2> QED BY <1>2, <2>1, <2>2, <2>3
<1> QED BY <1>3, <1>4, <1>5, <1>6, <1>7, <1>8

\* A job that is not ahead of the clock of the pass is not when it has moved on.
LEMMA OnwardPaced ==
  ASSUME NEW t \in Nat, NEW store, NEW rows, NEW me, NEW n, NEW j,
         Paced(t, store, rows, me, j), n.mem = me.mem, Onward(me, n), n.pc # "close",
         n.pc \in AtWake => n.started <= t \/ (n.started = me.started /\ n.cur = me.cur /\ me.pc \in AtWake)
  PROVE  Paced(t, store, rows, n, j)
<1>1. n.pc \in AtWake /\ n.cur.job = j => n.started <= t
  BY DEF Paced
<1>2. Place(n) \in InTurn /\ j \in n.todo /\ ~(Place(n) = "gate" /\ j = Min(n.todo)) =>
        Place(me) \in InTurn /\ j \in me.todo /\ ~(Place(me) = "gate" /\ j = Min(me.todo))
  BY DEF Onward
<1>3. n.at = me.at
  BY DEF Onward
<1> QED BY <1>1, <1>2, <1>3 DEF Paced

LEMMA TurnSkew ==
  ASSUME TypeInv, TypeInv', WriterInv, RefireInv, SkewInv, NEW p \in RunDue, Alive(p),
         \/ PassOver(p) \/ CardAnswer(p) \/ Notify(p) \/ TakeLock(p) \/ Spawn(p) \/ Unlock(p)
  PROVE  SkewInv'
<1> DEFINE me == proc[p]
<1>0. disk' = disk /\ ledger' = ledger /\ now' = now /\ stepped' = stepped /\ now \in Nat
  <2>1. disk' = disk /\ ledger' = ledger /\ now' = now /\ stepped' = stepped
    BY DEF PassOver, CardAnswer, Notify, TakeLock, Spawn, Unlock, files, world
  <2> QED BY <2>1 DEF TypeInv, TypeOK
<1>1. PICK n : /\ Becomes(p, n) /\ n.mem = me.mem /\ Onward(me, n)
               /\ n.pc \notin {"close", "done"} /\ me.pc \notin {"reload", "save"}
               /\ n.pc \in AtWake =>
                    \/ n.started = now
                    \/ n.started = me.started /\ n.cur = me.cur /\ me.pc \in AtWake
  BY TurnTurns
<1>2. ASSUME NEW j \in Jobs, Settled(j)
      PROVE  (disk[j] # NoJob => disk[j].started <= now) /\ Paced(now, disk, ledger, n, j)
  <2>1. Paced(now, disk, ledger, me, j) /\ (disk[j] # NoJob => disk[j].started <= now)
    BY <1>1, <1>2, SettledHere DEF Healing
  <2> HIDE DEF me
  <2> QED BY <1>0, <1>1, <2>1, OnwardPaced
<1>3. Place(n) = "gate" => Place(proc[p]) = "gate" /\ n.todo = proc[p].todo
  BY <1>1 DEF Onward
<1> QED BY <1>0, <1>1, <1>2, <1>3, SkewMoves

\* The merge: the start of each record is that of memory or that of jobs.json;
\* of the job that was ahead of the clock, it is that of memory.
LEMMA ReloadSkew ==
  ASSUME TypeInv, TypeInv', WriterInv, RefireInv, SeenInv, SkewInv, NEW p \in RunDue, Alive(p),
         Reload(p)
  PROVE  SkewInv'
<1> DEFINE me == proc[p]
           merged == Merge(disk, me.mem, me.touched)
           mem == WithPut(merged, me.put)
           m == [me EXCEPT !.mem = mem, !.touched = {}, !.put = NoJob]
           gone == me.put # NoJob /\ merged[me.put.job] = NoJob
           pc == IF gone THEN AfterSave(m) ELSE "save"
           n == [m EXCEPT !.pc = pc]
<1>0. /\ p \in Procs /\ me \in Locals /\ me.mem \in Stores /\ me.put \in Puts /\ disk \in Stores
      /\ me.touched \in SUBSET Jobs /\ me.pc = "reload" /\ Touching(me) /\ AtGate(me)
      /\ me.ret \in {"enter", "judge", "gate", "loop", "unlock"} /\ Place(me) = me.ret
      /\ disk' = disk /\ ledger' = ledger /\ now' = now /\ stepped' = stepped
  <2>1. disk' = disk /\ ledger' = ledger /\ now' = now /\ stepped' = stepped /\ me.pc = "reload"
    BY DEF Reload, files, world, At
  <2>2. me.ret \in {"enter", "judge", "gate", "loop", "unlock"} /\ Place(me) = me.ret
    BY <2>1, PassKnows DEF Placed, Place, Saving
  <2>3. Touching(me) /\ AtGate(me)
    BY PassKnows DEF RefireInv, Rule, SeenInv, Seen
  <2> QED BY <2>1, <2>2, <2>3, PassKnows, LocalsFields DEF TypeInv, TypeOK, Stores
<1>1. ASSUME NEW j \in Jobs
      PROVE  /\ merged[j] # NoJob => disk[j] # NoJob
             /\ merged[j] # NoJob =>
                  \/ me.mem[j] # NoJob /\ merged[j].started = me.mem[j].started
                  \/ merged[j].started = disk[j].started /\ (j \notin me.touched \/ me.mem[j] = NoJob)
             /\ disk[j] # NoJob => merged[j] # NoJob
  <2>1. merged[j] = IF j \in me.touched /\ disk[j] # NoJob /\ me.mem[j] # NoJob
                      THEN Overlay(disk[j], me.mem[j]) ELSE disk[j]
    BY DEF Merge
  <2> HIDE DEF merged
  <2>2. CASE j \in me.touched /\ disk[j] # NoJob /\ me.mem[j] # NoJob
    <3> DEFINE was == me.mem[j]
               is == disk[j]
               x == Overlay(is, was)
    <3>1. was \in Records /\ is \in Records /\ merged[j] = x
      BY <1>0, <2>1, <2>2 DEF Stores
    <3> HIDE DEF was, is
    <3>2. x.started = was.started /\ x \in Records
      BY <3>1 DEF Overlay, Records
    <3> HIDE DEF x
    <3> QED BY <2>2, <3>1, <3>2, NoJobAssumption DEF was
  <2>3. CASE ~(j \in me.touched /\ disk[j] # NoJob /\ me.mem[j] # NoJob)
    BY <2>1, <2>3
  <2> QED BY <2>2, <2>3
<1>2. Becomes(p, n)
  BY DEF Reload
<1>3. ASSUME NEW j \in Jobs
      PROVE  /\ mem[j] # NoJob => merged[j] # NoJob
             /\ mem[j] # NoJob => mem[j].started = merged[j].started
  <2>1. merged \in Stores
    BY <1>0, MergeType
  <2> HIDE DEF merged, me
  <2> QED BY <1>0, <2>1, PutSame DEF Same
<1>4. m \in Locals /\ m.ret = me.ret /\ m.mem = mem /\ m.at = me.at /\ m.todo = me.todo
  <2>1. merged \in Stores
    BY <1>0, MergeType
  <2>2. mem \in Stores
    BY <1>0, <2>1, PutType
  <2> HIDE DEF me, mem, merged, gone, pc
  <2> QED BY <1>0, <2>2, LocalsFields DEF Puts
<1>5. pc \in {"save", "notify", me.ret} /\ (~gone => pc = "save")
  BY <1>4 DEF AfterSave
<1>6. gone => me.put.job \in Jobs /\ me.touched = {me.put.job} /\ merged[me.put.job] = NoJob
  BY <1>0 DEF Touching
<1> HIDE DEF me, merged, mem, m, pc, gone
<1>7. n.pc = pc /\ n.ret = me.ret /\ n.mem = mem /\ n.at = me.at /\ n.todo = me.todo
  BY <1>4, LocalsFields
<1> HIDE DEF n
<1>8. Place(n) = Place(me) /\ n.pc \notin AtWake /\ n.pc # "close"
  BY <1>0, <1>5, <1>7 DEF Place, Saving, AtWake
<1>9. ASSUME NEW j \in Jobs, Settled(j)
      PROVE  /\ disk[j] # NoJob => disk[j].started <= now \/ Healing(n, j)
             /\ Paced(now, disk, ledger, n, j)
  <2>1. Paced(now, disk, ledger, me, j) /\ (disk[j] # NoJob => disk[j].started <= now \/ Healing(me, j))
    BY <1>9, SettledHere DEF me
  <2>2. Healing(me, j) => me.touched = {j} /\ me.mem[j] # NoJob
    BY <1>0 DEF Healing, AtGate
  <2>3. Healing(me, j) /\ disk[j] # NoJob => Healing(n, j)
    <3>1. ASSUME Healing(me, j), disk[j] # NoJob PROVE ~gone
      BY <1>1, <1>6, <2>2, <3>1
    <3> QED BY <1>5, <1>7, <1>8, <3>1 DEF Healing
  <2>4. mem[j] # NoJob =>
          \/ me.mem[j] # NoJob /\ mem[j].started = me.mem[j].started
          \/ disk[j] # NoJob /\ mem[j].started = disk[j].started /\ ~Healing(me, j)
    BY <1>1, <1>3, <2>2
  <2>5. n.mem[j] # NoJob => n.mem[j].started <= now
    BY <1>7, <2>1, <2>4 DEF Paced
  <2>6. Place(n) \in InTurn /\ j \in n.todo /\ ~(Place(n) = "gate" /\ j = Min(n.todo)) =>
          /\ n.mem[j] # NoJob => n.mem[j].started <= n.at
          /\ disk[j] # NoJob => disk[j].started <= n.at
    BY <1>7, <1>8, <2>1, <2>4 DEF Paced
  <2> QED BY <1>8, <2>1, <2>3, <2>5, <2>6 DEF Paced
<1>10. Place(n) = "gate" => Place(proc[p]) = "gate" /\ n.todo = proc[p].todo
  BY <1>7, <1>8 DEF me
<1> QED BY <1>0, <1>2, <1>9, <1>10, SkewMoves

\* The save.
LEMMA SaveSkew ==
  ASSUME TypeInv, TypeInv', WriterInv, RefireInv, SkewInv, NEW p \in RunDue, Alive(p), Save(p)
  PROVE  SkewInv'
<1> DEFINE me == proc[p]
           pc == AfterSave(me)
           n == [me EXCEPT !.pc = pc]
<1>0. /\ p \in Procs /\ me \in Locals /\ me.pc = "save" /\ Place(me) = me.ret
      /\ disk' = me.mem /\ ledger' = ledger /\ now' = now /\ stepped' = stepped /\ Becomes(p, n)
      /\ me.ret \in {"enter", "judge", "gate", "loop", "unlock"} /\ pc \in {"notify", me.ret}
  <2>1. /\ disk' = me.mem /\ ledger' = ledger /\ now' = now /\ stepped' = stepped
        /\ Becomes(p, n) /\ me.pc = "save"
    BY DEF Save, Goto, world, At
  <2>2. me.ret \in {"enter", "judge", "gate", "loop", "unlock"}
    BY <2>1, PassKnows DEF Placed, Saving
  <2> QED BY <2>1, <2>2, PassKnows DEF AfterSave, Place, Saving
<1> HIDE DEF me, pc
<1>1. n.pc = pc /\ n.ret = me.ret /\ n.mem = me.mem /\ n.at = me.at /\ n.todo = me.todo
  BY <1>0, LocalsFields
<1> HIDE DEF n
<1>2. Place(n) = Place(me) /\ n.pc \notin AtWake /\ n.pc # "close"
  BY <1>0, <1>1 DEF Place, Saving, AtWake
<1>3. ASSUME NEW j \in Jobs, Settled(j)
      PROVE  /\ disk'[j] # NoJob => disk'[j].started <= now
             /\ Paced(now, disk', ledger, n, j)
  <2>1. Paced(now, disk, ledger, me, j)
    BY <1>3, SettledHere DEF me
  <2> QED BY <1>0, <1>1, <1>2, <2>1 DEF Paced
<1>4. Place(n) = "gate" => Place(proc[p]) = "gate" /\ n.todo = proc[p].todo
  BY <1>1, <1>2 DEF me
<1> QED BY <1>0, <1>3, <1>4, SkewMoves

-----------------------------------------------------------------------------
(* The rows of the loop                                                    *)

\* A stamp makes the start what it says, or leaves it.
LEMMA StampStarts ==
  ASSUME NEW r \in Records, NEW w \in Wakes, NEW ts \in Nat,
         NEW state \in States \cup {"none"}, NEW executed \in BOOLEAN, NEW t \in Nat,
         r.started <= t, ts <= t
  PROVE  Stamp(r, w, ts, state, executed).started <= t
<1> DEFINE started == IF ts # Never /\ (executed \/ r.started = Never \/ ts > r.started)
                        THEN ts ELSE r.started
           fails == IF state \in BadStates THEN r.fails + 1
                    ELSE IF state = "success" THEN 0 ELSE r.fails
           n == [r EXCEPT !.started = started, !.wake = w, !.state = state, !.fails = fails]
<1>1. Stamp(r, w, ts, state, executed) = n
  BY DEF Stamp
<1>2. started <= t
  OBVIOUS
<1> HIDE DEF started, fails
<1>3. n.started = started
  BY DEF Records
<1> HIDE DEF n
<1> QED BY <1>1, <1>2, <1>3

\* It leaves the clock of the pass.
LEMMA StampedAt ==
  ASSUME NEW m \in Locals, NEW w, NEW ts, NEW state, NEW executed, NEW ret, NEW todo
  PROVE  LET n == Stamped(m, w, ts, state, executed, ret)
             k == [n EXCEPT !.todo = todo]
         IN n.at = m.at /\ k.at = m.at
<1> DEFINE mem == [m.mem EXCEPT ![w.job] = Stamp(@, w, ts, state, executed)]
           n == [m EXCEPT !.mem = mem, !.touched = {w.job}, !.notices = {w.job}, !.pc = "reload",
                          !.ret = ret]
<1>1. Stamped(m, w, ts, state, executed, ret) = n
  BY DEF Stamped
<1> HIDE DEF mem
<1>2. n.at = m.at
  BY LocalsFields
<1>3. LET k == [n EXCEPT !.todo = todo] IN k.at = m.at
  BY LocalsFields
<1> HIDE DEF n
<1> QED BY <1>1, <1>2, <1>3

\* A step that writes a row, of a wake that begins or ends no later than now.
LEMMA RowSkew ==
  ASSUME TypeInv, TypeInv', WriterInv, WriterInv', RefireInv, SkewInv, now' = now, stepped' = stepped,
         NEW p \in RunDue, Alive(p), NEW m, Becomes(p, m), disk' = disk, NEW row \in Rows, Write(row),
         row.event = "finished" => row.wake.kind # "skew",
         row.event = "started" => ~FinishedIn(ledger, row.wake),
         proc[p].pc \notin {"reload", "save"}, Place(m) # "gate", m.pc # "done",
         Settled(row.job) =>
           /\ row.ts <= now
           /\ \A k \in DOMAIN ledger :
                ledger[k].event = "started" /\ ledger[k].wake = row.wake => ledger[k].ts <= now,
         \A j \in Jobs : Settled(j) => Paced(now, disk, ledger', m, j)
  PROVE  SkewInv'
<1>0. /\ ledger \in Seq(Rows) /\ ledger' = Append(ledger, row) /\ OnceInv(ledger) /\ OnceInv(ledger')
      /\ now \in Nat /\ row.job \in Jobs
  <2>1. now \in Nat /\ row.job \in Jobs
    BY DEF TypeInv, TypeOK, Rows
  <2> QED BY <2>1 DEF TypeInv, TypeOK, Write, WriterInv
<1>1. /\ \A i \in DOMAIN ledger : i \in DOMAIN ledger' /\ ledger'[i] = ledger[i]
      /\ \A i \in DOMAIN ledger' :
           \/ i \in DOMAIN ledger /\ ledger'[i] = ledger[i]
           \/ ledger'[i].event # "finished" \/ ledger'[i].wake.kind # "skew"
  <2>1. /\ \A i \in DOMAIN ledger : i \in DOMAIN ledger' /\ ledger'[i] = ledger[i]
        /\ ledger'[Len(ledger')] = row
        /\ \A i \in DOMAIN ledger' : i \in DOMAIN ledger \/ i = Len(ledger')
    BY <1>0, RowMore
  <2> QED BY <2>1
<1>2. ~At(p, "gone") /\ \A q \in RunDue \ {p} : ~Alive(q) /\ Lost(proc[q])
  BY PassKnows, OthersLost DEF At, Alive
<1>3. ASSUME NEW j \in Jobs, Settled(j)
      PROVE  /\ Past(ledger', j, now)
             /\ \A i \in OpenAt(ledger') : ledger'[i].job = j => ledger'[i].ts <= now
             /\ disk[j] # NoJob => disk[j].started <= now
  <2>1. /\ Past(ledger, j, now)
        /\ \A i \in OpenAt(ledger) : ledger[i].job = j => ledger[i].ts <= now
        /\ disk[j] # NoJob => disk[j].started <= now
    BY <1>3, SettledHere DEF Healing
  <2>2. row.event = "finished" /\ row.job = j /\ row.state \notin UnstampedStates =>
          /\ row.ts <= now
          /\ \A k \in DOMAIN ledger :
               ledger[k].event = "started" /\ ledger[k].wake = row.wake => ledger[k].ts <= now
    BY <1>3
  <2>3. Past(ledger', j, now)
    BY <1>0, <2>1, <2>2, PastMore
  <2>4. ASSUME NEW i \in OpenAt(ledger'), ledger'[i].job = j PROVE ledger'[i].ts <= now
    <3>1. \/ i \in OpenAt(ledger) /\ i \in DOMAIN ledger /\ ledger'[i] = ledger[i]
          \/ ledger'[i] = row
      BY <1>0, <2>4, OpenMore
    <3> QED BY <1>3, <2>1, <2>4, <3>1
  <2> QED BY <2>1, <2>3, <2>4
<1> QED BY <1>0, <1>1, <1>2, <1>3, SkewGoesOn

\* A row that ends a wake of the job the pass is done with, or is at.
LEMMA LoopRowSkew ==
  ASSUME TypeInv, TypeInv', WriterInv, WriterInv', RefireInv, SkewInv, now' = now, stepped' = stepped,
         NEW p \in RunDue, Alive(p), disk' = disk, NEW row \in Rows, Write(row),
         row.event = "finished", row.wake.kind = "wake",
         \/ proc[p].pc \in {"loop", "judge", "gate"} /\ row.job = Min(proc[p].todo)
         \/ proc[p].pc \in AtWake,
         NEW n, Becomes(p, n), n.pc \in {"loop", "unlock", "reload"}, Place(n) \in {"loop", "unlock"},
         n.at = proc[p].at, n.todo \subseteq proc[p].todo \ {row.job},
         Settled(row.job) =>
           /\ row.ts <= now
           /\ \A k \in DOMAIN ledger :
                ledger[k].event = "started" /\ ledger[k].wake = row.wake => ledger[k].ts <= now,
         \/ n.mem = proc[p].mem
         \/ \E r : /\ n.mem = [proc[p].mem EXCEPT ![row.job] = r]
                   /\ Settled(row.job) => r.started <= now
  PROVE  SkewInv'
<1> DEFINE me == proc[p]
<1>0. me.mem \in Stores /\ row.job \in Jobs
  BY PassKnows, LocalsFields DEF Rows
<1>1. /\ Place(me) = me.pc /\ Place(me) \in InTurn /\ me.pc \notin {"reload", "save"}
      /\ Place(me) = "gate" => row.job = Min(me.todo)
      /\ n.pc \notin AtWake /\ n.pc # "close"
  BY DEF Place, Saving, InTurn, AtWake
<1>2. ASSUME NEW j \in Jobs, Settled(j) PROVE Paced(now, disk, ledger', n, j)
  <2>1. Paced(now, disk, ledger, me, j)
    BY <1>2, SettledHere
  <2>2. /\ j # row.job => n.mem[j] = me.mem[j]
        /\ n.mem[j] # NoJob => n.mem[j].started <= now
    <3>1. CASE n.mem = me.mem
      BY <2>1, <3>1 DEF Paced
    <3>2. ASSUME NEW r, n.mem = [me.mem EXCEPT ![row.job] = r], Settled(row.job) => r.started <= now
          PROVE  /\ j # row.job => n.mem[j] = me.mem[j]
                 /\ n.mem[j] # NoJob => n.mem[j].started <= now
      <4> HIDE DEF me
      <4>1. n.mem[j] = IF j = row.job THEN r ELSE me.mem[j]
        BY <1>0, <3>2 DEF Stores
      <4> QED BY <1>2, <2>1, <3>2, <4>1 DEF Paced
    <3> QED BY <3>1, <3>2
  <2>3. j \in n.todo => /\ j # row.job /\ Place(me) \in InTurn /\ j \in me.todo
                        /\ ~(Place(me) = "gate" /\ j = Min(me.todo))
    BY <1>1
  <2>4. j \in n.todo => /\ n.mem[j] # NoJob => n.mem[j].started <= n.at
                        /\ disk[j] # NoJob => disk[j].started <= n.at
    <3> SUFFICES ASSUME j \in n.todo
                 PROVE  /\ n.mem[j] # NoJob => n.mem[j].started <= n.at
                        /\ disk[j] # NoJob => disk[j].started <= n.at
      OBVIOUS
    <3>1. /\ me.mem[j] # NoJob => me.mem[j].started <= me.at
          /\ disk[j] # NoJob => disk[j].started <= me.at
      BY <2>1, <2>3 DEF Paced
    <3> QED BY <2>2, <2>3, <3>1
  <2> QED BY <1>1, <2>2, <2>4 DEF Paced
<1> QED BY <1>1, <1>2, RowSkew

\* A skip, and a lock that is held.
LEMMA TurnRowSkew ==
  ASSUME TypeInv, TypeInv', WriterInv, WriterInv', RefireInv, SkewInv, NEW p \in RunDue, Alive(p),
         SkipRow(p) \/ Overlap(p)
  PROVE  SkewInv'
<1> DEFINE me == proc[p]
           w(j) == [proc |-> p, job |-> j, kind |-> "wake"]
<1>0. /\ p \in Procs /\ me \in Locals /\ me.mem \in Stores /\ now \in Nat
      /\ disk' = disk /\ now' = now /\ stepped' = stepped
  <2>1. disk' = disk /\ now' = now /\ stepped' = stepped
    BY DEF SkipRow, Overlap, world
  <2> QED BY <2>1, PassKnows, LocalsFields DEF TypeInv, TypeOK
<1>me. me \in Locals
  BY <1>0
\* A row of the job whose turn it is.
<1>1. ASSUME NEW j \in Jobs, Due(p, j) \/ Executes(p, j), NEW state \in States,
             NEW row, row = FinishedRow(w(j), state, now)
      PROVE  /\ me.pc \in {"loop", "judge", "gate"} /\ w(j) \in Wakes /\ row \in Rows
             /\ row.event = "finished" /\ row.wake = w(j) /\ row.wake.kind = "wake" /\ row.job = j
             /\ row.job = Min(me.todo) /\ row.ts <= now
             /\ \A k \in DOMAIN ledger : ~(ledger[k].event = "started" /\ ledger[k].wake = row.wake)
  <2>1. me.pc \in {"loop", "judge", "gate"} /\ j = Min(me.todo) /\ j \in me.todo
    BY <1>1, NextJob
  <2>2. w(j) \in Wakes /\ w(j).job = j
    BY <1>0, WakeType
  <2>3. row \in Rows /\ row.event = "finished" /\ row.wake = w(j) /\ row.job = j /\ row.ts <= now
    BY <1>0, <1>1, <2>2, RowTypes DEF FinishedRow
  <2>4. \A k \in DOMAIN ledger : ~(ledger[k].event = "started" /\ ledger[k].wake = w(j))
    BY <2>1, NoRowYet
  <2> QED BY <2>1, <2>2, <2>3, <2>4
<1>2. CASE Overlap(p)
  <2>1. PICK j \in Jobs :
          /\ Executes(p, j)
          /\ Write(FinishedRow(w(j), "overlap", now))
          /\ Becomes(p, [me EXCEPT !.todo = @ \ {j}, !.pc = "loop"])
    BY <1>2 DEF Overlap, AfterWake
  <2> DEFINE row == FinishedRow(w(j), "overlap", now)
             n == [me EXCEPT !.todo = @ \ {j}, !.pc = "loop"]
  <2>2. Becomes(p, n) /\ Write(row) /\ "overlap" \in States
    BY <2>1 DEF States, UnstampedStates
  <2>3. n.pc = "loop" /\ n.mem = me.mem /\ n.at = me.at /\ n.todo = me.todo \ {j}
    <3> HIDE DEF me
    <3> QED BY <1>0, LocalsFields
  <2>4. Place(n) = "loop"
    <3> HIDE DEF n
    <3> QED BY <2>3 DEF Place, Saving
  <2>5. /\ me.pc \in {"loop", "judge", "gate"} /\ row \in Rows /\ row.event = "finished"
        /\ row.wake.kind = "wake" /\ row.job = j /\ row.job = Min(me.todo) /\ row.ts <= now
        /\ \A k \in DOMAIN ledger : ~(ledger[k].event = "started" /\ ledger[k].wake = row.wake)
    <3> HIDE DEF me, w
    <3> QED BY <1>1, <2>1, <2>2
  <2> HIDE DEF n, row, w
  <2> QED BY <1>0, <2>2, <2>3, <2>4, <2>5, LoopRowSkew
<1>3. CASE SkipRow(p)
  <2> DEFINE executed == FALSE
  <2>1. PICK j \in Jobs :
          /\ Due(p, j)
          /\ Write(FinishedRow(w(j), "skipped", now))
          /\ Becomes(p, [Stamped(me, w(j), now, "skipped", executed, "loop") EXCEPT !.todo = @ \ {j}])
    BY <1>3 DEF SkipRow
  <2> DEFINE v == w(j)
             row == FinishedRow(v, "skipped", now)
             m == Stamped(me, v, now, "skipped", executed, "loop")
             todo == m.todo \ {j}
             n == [m EXCEPT !.todo = todo]
             r == Stamp(me.mem[j], v, now, "skipped", executed)
  <2>2. /\ Write(row) /\ "skipped" \in States /\ executed \in BOOLEAN /\ v.job = j
        /\ me.mem[j] # NoJob
    BY <2>1 DEF States, Due
  <2>3. Becomes(p, n)
    <3>1. Becomes(p, [m EXCEPT !.todo = @ \ {j}])
      BY <2>1
    <3> HIDE DEF m
    <3> QED BY <3>1
  <2>4. /\ me.pc \in {"loop", "judge", "gate"} /\ row \in Rows /\ row.event = "finished" /\ v \in Wakes
        /\ row.wake.kind = "wake" /\ row.job = j /\ row.job = Min(me.todo) /\ row.ts <= now
        /\ \A k \in DOMAIN ledger : ~(ledger[k].event = "started" /\ ledger[k].wake = row.wake)
    <3> HIDE DEF me, w, executed
    <3> QED BY <1>1, <2>1, <2>2
  <2> HIDE DEF executed, v, todo
  <2>5. m.todo = me.todo /\ n.pc = "reload" /\ n.ret = "loop" /\ n.todo = todo /\ n.at = me.at /\ n.mem = m.mem
    <3> HIDE DEF me
    <3>1. m.todo = me.todo /\ n.pc = "reload" /\ n.ret = "loop" /\ n.todo = todo
      BY <1>me, StampedFields
    <3>2. n.at = me.at
      BY <1>me, StampedAt
    <3>3. n.mem = m.mem
      BY <1>me, StampedRest
    <3> HIDE DEF m, n
    <3> QED BY <3>1, <3>2, <3>3
  <2>6. m.mem = [me.mem EXCEPT ![j] = r]
    <3> HIDE DEF me
    <3>1. m.mem = [me.mem EXCEPT ![v.job] = Stamp(me.mem[v.job], v, now, "skipped", executed)]
      BY <1>me, StampedMemory
    <3> HIDE DEF m
    <3> QED BY <2>2, <3>1
  <2>7. Settled(j) => r.started <= now
    <3> SUFFICES ASSUME Settled(j) PROVE r.started <= now
      OBVIOUS
    <3>1. me.mem[j].started <= now
      BY <2>2, SettledHere DEF Paced
    <3>2. me.mem[j] \in Records /\ "skipped" \in States \cup {"none"}
      BY <1>0, <2>2 DEF Stores
    <3> HIDE DEF me
    <3> QED BY <1>0, <2>2, <2>4, <3>1, <3>2, StampStarts
  <2>8. Place(n) = "loop" /\ n.todo = me.todo \ {j} /\ n.mem = [me.mem EXCEPT ![row.job] = r]
    <3> HIDE DEF n, m, r
    <3> QED BY <2>4, <2>5, <2>6 DEF Place, Saving, todo
  <2>9. Settled(row.job) => r.started <= now
    BY <2>4, <2>7
  <2> HIDE DEF m, n, row, w, r
  <2> QED BY <1>0, <2>2, <2>3, <2>4, <2>5, <2>8, <2>9, LoopRowSkew
<1> QED BY <1>2, <1>3

-----------------------------------------------------------------------------
(* The rows of a wake                                                      *)

\* What a pass at its wake has of the job, while the job is settled.
LEMMA WakeSettled ==
  ASSUME TypeInv, WriterInv, RefireInv, NEW p \in RunDue, proc[p].pc \in AtWake,
         Settled(proc[p].cur.job)
  PROVE  /\ proc[p].started <= now /\ proc[p].mem[proc[p].cur.job].started <= now
         /\ disk[proc[p].cur.job] # NoJob => disk[proc[p].cur.job].started <= now
<1> DEFINE me == proc[p]
           j == me.cur.job
<1>1. Alive(p) /\ me.mem[j] # NoJob /\ ~Healing(me, j)
  BY WakeKnows, NoJobAssumption DEF Healing, AtWake
<1>2. Paced(now, disk, ledger, me, j) /\ (disk[j] # NoJob => disk[j].started <= now)
  BY <1>1, SettledHere
<1> QED BY <1>1, <1>2 DEF Paced

\* The row that ends the wake at hand, and stamps its start.
LEMMA WakeRowSkew ==
  ASSUME TypeInv, TypeInv', WriterInv, WriterInv', RefireInv, SkewInv, now' = now, stepped' = stepped,
         NEW p \in RunDue, proc[p].pc \in AtWake, disk' = disk, NEW state \in States,
         NEW executed \in BOOLEAN, NEW w, w = proc[p].cur, Write(FinishedRow(w, state, now)),
         Becomes(p, Stamped(proc[p], w, proc[p].started, state, executed, "unlock")),
         \A k \in DOMAIN ledger :
           ledger[k].event = "started" /\ ledger[k].wake = w => ledger[k].ts = proc[p].started
  PROVE  SkewInv'
<1> DEFINE me == proc[p]
           j == w.job
           row == FinishedRow(w, state, now)
           r == Stamp(me.mem[j], w, me.started, state, executed)
           n == Stamped(me, w, me.started, state, executed, "unlock")
<1>1. /\ Alive(p) /\ me \in Locals /\ me.mem \in Stores /\ me.started \in Nat
      /\ w \in Wakes /\ j \in Jobs /\ me.mem[j] \in Records /\ now \in Nat
      /\ state \in States \cup {"none"}
  BY WakeKnows
<1>2. w.kind = "wake" /\ j \notin me.todo
  BY WakeTaken
<1>3. /\ row \in Rows /\ row.event = "finished" /\ row.wake = w /\ row.job = j /\ row.ts <= now
      /\ Write(row) /\ Becomes(p, n)
  BY <1>1, RowTypes DEF FinishedRow
<1>4. Settled(j) => /\ r.started <= now /\ row.ts <= now
                    /\ \A k \in DOMAIN ledger :
                         ledger[k].event = "started" /\ ledger[k].wake = w => ledger[k].ts <= now
  <2> SUFFICES ASSUME Settled(j)
               PROVE  /\ r.started <= now
                      /\ \A k \in DOMAIN ledger :
                           ledger[k].event = "started" /\ ledger[k].wake = w => ledger[k].ts <= now
    BY <1>3
  <2>1. me.started <= now /\ me.mem[j].started <= now
    BY WakeSettled
  <2>2. r.started <= now
    <3> HIDE DEF me, j
    <3> QED BY <1>1, <2>1, StampStarts
  <2> QED BY <2>1, <2>2
<1>5. n.pc = "reload" /\ n.ret = "unlock" /\ n.todo = me.todo /\ n.at = me.at
  <2> HIDE DEF me
  <2>1. n.pc = "reload" /\ n.ret = "unlock" /\ n.todo = me.todo
    BY <1>1, StampedFields
  <2>2. n.at = me.at
    BY <1>1, StampedAt
  <2> QED BY <2>1, <2>2
<1>6. n.mem = [me.mem EXCEPT ![j] = r]
  <2> HIDE DEF me
  <2> QED BY <1>1, StampedMemory
<1> HIDE DEF n, r, row
<1>7. Place(n) = "unlock"
  BY <1>5 DEF Place, Saving
<1>8. n.mem = [proc[p].mem EXCEPT ![row.job] = r] /\ (Settled(row.job) => r.started <= now)
  BY <1>3, <1>4, <1>6
<1> HIDE DEF j
<1>9. n.todo \subseteq proc[p].todo \ {row.job} /\ n.at = proc[p].at
  BY <1>2, <1>3, <1>5
<1>10. Settled(row.job) =>
         /\ row.ts <= now
         /\ \A k \in DOMAIN ledger :
              ledger[k].event = "started" /\ ledger[k].wake = row.wake => ledger[k].ts <= now
  BY <1>3, <1>4
<1>11. row.wake.kind = "wake"
  BY <1>2, <1>3
<1> HIDE DEF me
<1> QED BY <1>1, <1>3, <1>5, <1>7, <1>8, <1>9, <1>10, <1>11, LoopRowSkew

\* The record is re-read under the lock.
LEMMA RecheckSkew ==
  ASSUME TypeInv, TypeInv', WriterInv, WriterInv', RefireInv, SkewInv, NEW p \in RunDue, Recheck(p)
  PROVE  SkewInv'
<1> DEFINE me == proc[p]
           w == me.cur
           j == w.job
           executed == FALSE
           k == [me EXCEPT !.pc = "unlock"]
           mem == [me.mem EXCEPT ![j] = disk[j]]
           n == [me EXCEPT !.mem = mem, !.pc = "begin"]
           woken == FinishedRow(w, "overlap", now)
<1>0. me.pc = "recheck" /\ me.pc \in AtWake /\ disk' = disk /\ now' = now /\ stepped' = stepped
  BY DEF Recheck, At, AtWake, world
<1>1. /\ Alive(p) /\ me \in Locals /\ me.mem \in Stores /\ me.started \in Nat
      /\ w \in Wakes /\ j \in Jobs /\ Place(me) = me.pc /\ now \in Nat
  BY <1>0, WakeKnows
<1>2. /\ w.kind = "wake" /\ j \notin me.todo
      /\ \A i \in DOMAIN ledger : ~(ledger[i].event = "started" /\ ledger[i].wake = w)
  BY <1>0, WakeTaken
<1>3. \/ /\ Write(FinishedRow(w, "cancelled", now))
         /\ Becomes(p, Stamped(me, w, me.started, "cancelled", executed, "unlock"))
      \/ Write(woken) /\ Becomes(p, k)
      \/ disk[j] # NoJob /\ ledger' = ledger /\ Becomes(p, n)
  BY DEF Recheck, Goto
<1>4. CASE /\ Write(FinishedRow(w, "cancelled", now))
           /\ Becomes(p, Stamped(me, w, me.started, "cancelled", executed, "unlock"))
  <2>1. "cancelled" \in States /\ executed \in BOOLEAN /\ w = proc[p].cur /\ proc[p].pc \in AtWake
    BY <1>0 DEF States
  <2>2. \A i \in DOMAIN ledger :
          ledger[i].event = "started" /\ ledger[i].wake = w => ledger[i].ts = proc[p].started
    BY <1>2
  <2>3. Becomes(p, Stamped(proc[p], w, proc[p].started, "cancelled", executed, "unlock"))
    BY <1>4
  <2> HIDE DEF executed, me, w, j
  <2> QED BY <1>0, <1>4, <2>1, <2>2, <2>3, WakeRowSkew
<1>5. CASE Write(woken) /\ Becomes(p, k)
  <2>1. k.pc = "unlock" /\ k.mem = me.mem /\ k.at = me.at /\ k.todo = me.todo
    <3> HIDE DEF me
    <3> QED BY <1>1, LocalsFields
  <2>2. /\ woken \in Rows /\ woken.event = "finished" /\ woken.wake = w /\ woken.job = j
        /\ woken.ts <= now
    <3>1. "overlap" \in States
      BY DEF States, UnstampedStates
    <3> QED BY <1>1, <3>1, RowTypes DEF FinishedRow
  <2> HIDE DEF k, woken
  <2>3. Place(k) = "unlock"
    BY <2>1 DEF Place, Saving
  <2>4. /\ proc[p].pc \in AtWake /\ k.mem = proc[p].mem /\ k.at = proc[p].at
        /\ k.todo \subseteq proc[p].todo \ {woken.job} /\ woken.wake.kind = "wake"
        /\ \A i \in DOMAIN ledger : ~(ledger[i].event = "started" /\ ledger[i].wake = woken.wake)
    BY <1>0, <1>2, <2>1, <2>2
  <2> HIDE DEF me, w, j
  <2> QED BY <1>0, <1>1, <1>5, <2>1, <2>2, <2>3, <2>4, LoopRowSkew
<1>6. CASE disk[j] # NoJob /\ ledger' = ledger /\ Becomes(p, n)
  <2>1. \A i \in Jobs : mem[i] = IF i = j THEN disk[j] ELSE me.mem[i]
    <3> HIDE DEF me, j
    <3> QED BY <1>1 DEF Stores
  <2>2. ASSUME NEW i \in Jobs, Settled(i)
        PROVE  Paced(now, disk, ledger, me, i) /\ (disk[i] # NoJob => disk[i].started <= now)
    BY <1>0, <1>1, <2>2, SettledHere DEF Healing
  <2> HIDE DEF me, mem, j, w
  <2>3. /\ n.pc = "begin" /\ n.mem = mem /\ n.at = me.at /\ n.todo = me.todo
        /\ n.started = me.started /\ n.cur = me.cur
    BY <1>1, LocalsFields
  <2> HIDE DEF n
  <2>4. Place(n) = "begin" /\ Place(me) \in InTurn
    BY <1>0, <1>1, <2>3 DEF Place, Saving, InTurn
  <2>5. ASSUME NEW i \in Jobs, Settled(i) PROVE Paced(now, disk, ledger, n, i)
    <3>1. Paced(now, disk, ledger, me, i) /\ (disk[i] # NoJob => disk[i].started <= now)
      BY <2>2, <2>5
    <3>2. n.mem[i] # NoJob => n.mem[i].started <= now
      BY <2>1, <2>3, <3>1 DEF Paced
    <3>3. i \in n.todo => /\ n.mem[i] # NoJob => n.mem[i].started <= n.at
                          /\ disk[i] # NoJob => disk[i].started <= n.at
      <4>1. i \in n.todo => /\ i # j /\ i \in me.todo /\ Place(me) \in InTurn
                            /\ Place(me) # "gate"
        BY <1>0, <1>1, <1>2, <2>3, <2>4
      <4>2. i # j => n.mem[i] = me.mem[i]
        BY <2>1, <2>3
      <4> QED BY <2>3, <3>1, <4>1, <4>2 DEF Paced
    <3>4. i = n.cur.job => n.started <= now
      BY <1>0, <2>3, <3>1 DEF Paced
    <3> QED BY <2>3, <3>2, <3>3, <3>4 DEF Paced
  <2>6. \A i \in Jobs : Settled(i) => (disk[i] # NoJob => disk[i].started <= now)
    BY <2>2
  <2> QED BY <1>0, <1>1, <1>6, <2>4, <2>5, <2>6, SkewMoves
<1> QED BY <1>3, <1>4, <1>5, <1>6

\* The started row, no later than now while the job is settled.
LEMMA BeginSkew ==
  ASSUME TypeInv, TypeInv', WriterInv, WriterInv', RefireInv, SkewInv, NEW p \in RunDue, Begin(p)
  PROVE  SkewInv'
<1> DEFINE me == proc[p]
           w == me.cur
           row == StartedRow(w, me.started)
           n == [me EXCEPT !.pc = "spawn"]
<1>0. /\ me.pc = "begin" /\ me.pc \in AtWake /\ disk' = disk /\ now' = now /\ stepped' = stepped
      /\ Write(row) /\ Becomes(p, n)
  BY DEF Begin, At, AtWake, world, Goto
<1>1. /\ Alive(p) /\ me \in Locals /\ me.started \in Nat /\ w \in Wakes /\ now \in Nat
      /\ Place(me) = me.pc
  BY <1>0, WakeKnows
<1>2. /\ ~FinishedIn(ledger, w)
      /\ \A i \in DOMAIN ledger : ~(ledger[i].event = "started" /\ ledger[i].wake = w)
  BY <1>0, WakeTaken DEF FinishedIn
<1>3. row \in Rows /\ row.event = "started" /\ row.wake = w /\ row.ts = me.started /\ row.job = w.job
  BY <1>1, RowTypes DEF StartedRow
<1>4. Settled(row.job) => row.ts <= now
  BY <1>0, <1>3, WakeSettled
<1>5. ASSUME NEW j \in Jobs, Settled(j) PROVE Paced(now, disk, ledger, me, j)
  BY <1>1, <1>5, SettledHere
<1> HIDE DEF me, w, row
<1>6. /\ n.pc = "spawn" /\ n.mem = me.mem /\ n.started = me.started /\ n.cur = me.cur
      /\ n.at = me.at /\ n.todo = me.todo
  BY <1>1, LocalsFields
<1> HIDE DEF n
<1>7. Place(n) = "spawn" /\ Place(me) \in InTurn /\ Place(me) # "gate"
  BY <1>0, <1>1, <1>6 DEF Place, Saving, InTurn
<1>8. \A j \in Jobs : Settled(j) => Paced(now, disk, ledger', n, j)
  BY <1>0, <1>5, <1>6, <1>7 DEF Paced
<1>9. Settled(row.job) =>
        /\ row.ts <= now
        /\ \A k \in DOMAIN ledger :
             ledger[k].event = "started" /\ ledger[k].wake = row.wake => ledger[k].ts <= now
  BY <1>2, <1>3, <1>4
<1>10. proc[p].pc \notin {"reload", "save"} /\ (row.event = "started" => ~FinishedIn(ledger, row.wake))
       /\ row.event # "finished"
  BY <1>0, <1>2, <1>3 DEF me
<1> QED BY <1>0, <1>1, <1>3, <1>6, <1>7, <1>8, <1>9, <1>10, RowSkew

\* The finished row, and the stamp of the wake's start.
LEMMA FinishSkew ==
  ASSUME TypeInv, TypeInv', WriterInv, WriterInv', RefireInv, SeenInv, SkewInv, NEW p \in RunDue,
         Finish(p)
  PROVE  SkewInv'
<1> DEFINE me == proc[p]
           w == me.cur
           executed == TRUE
<1>0. me.pc = "wait" /\ me.pc \in AtWake /\ disk' = disk /\ now' = now /\ stepped' = stepped /\ p \in Procs
  BY PassAssumption DEF Finish, At, AtWake, world
<1>1. PICK state \in Outcomes(w) :
        /\ Write(FinishedRow(w, state, now))
        /\ Becomes(p, Stamped(me, w, me.started, state, executed, "unlock"))
  BY DEF Finish
<1>2. state \in States /\ executed \in BOOLEAN /\ w = proc[p].cur
  BY <1>1 DEF Outcomes, States, BadStates
<1>3. \A k \in DOMAIN ledger :
        ledger[k].event = "started" /\ ledger[k].wake = w => ledger[k].ts = proc[p].started
  BY <1>0 DEF SeenInv, Seen, AtItsWake
<1>4. Becomes(p, Stamped(proc[p], w, proc[p].started, state, executed, "unlock"))
      /\ proc[p].pc \in AtWake
  BY <1>0, <1>1
<1> HIDE DEF me, w, executed
<1> QED BY <1>0, <1>1, <1>2, <1>3, <1>4, WakeRowSkew

-----------------------------------------------------------------------------
(* reconcile                                                               *)

\* reconcile closes the one wake that is open, and stamps what its started row
\* says.
LEMMA CloseSkew ==
  ASSUME TypeInv, TypeInv', WriterInv, WriterInv', Alone, RefireInv, SkewInv, NEW p \in RunDue,
         CloseOrphan(p)
  PROVE  SkewInv'
<1> DEFINE me == proc[p]
           i == Min(ToJudge(me))
           w == ledger[i].wake
           j == w.job
           ts == ledger[i].ts
           executed == FALSE
           row == FinishedRow(w, "orphaned", now)
           r == Stamp(me.mem[j], w, ts, "orphaned", executed)
           mem == [me.mem EXCEPT ![j] = r]
           m == [me EXCEPT !.scan = i + 1]
           n == [m EXCEPT !.mem = mem, !.touched = @ \cup {j}, !.notices = @ \cup {j}]
<1>0. /\ me.pc = "close" /\ disk' = disk /\ now' = now /\ stepped' = stepped
      /\ ToJudge(me) # {} /\ Alive(p)
  BY DEF CloseOrphan, At, world, Alive
<1>1. /\ me \in Locals /\ me.mem \in Stores /\ me.rows \in Nat /\ me.rows <= Len(ledger)
      /\ ledger \in Seq(Rows) /\ OnceInv(ledger) /\ Kept(ledger) /\ p \in Procs /\ now \in Nat
  BY <1>0, CloseKnows DEF TypeInv, TypeOK
<1>2. /\ i \in DOMAIN ledger /\ ledger[i].event = "started" /\ w \in Wakes /\ j \in Jobs
      /\ ts \in Nat /\ ~FinishedIn(ledger, w) /\ w.kind = "wake" /\ ledger[i].job = j
  <2>1. i \in ToJudge(me)
    BY <1>0, <1>1, ToJudgeType
  <2>2. ~FinishedIn(ledger, w)
    BY <1>0, <2>1 DEF WriterInv, CloseInv
  <2>3. i \in DOMAIN ledger /\ ledger[i].event = "started" /\ w \in Wakes /\ ts \in Nat
    BY <1>1, <2>1, ToJudgeType
  <2> QED BY <1>1, <2>2, <2>3 DEF Wakes, Kept
<1>3. ~WakeLives(w)
  BY <1>0, <1>2, OpenIsDead
<1>4. /\ Write(row)
      /\ me.mem[j] = NoJob => Becomes(p, m)
      /\ me.mem[j] # NoJob => Becomes(p, n)
  <2>1. n = [m EXCEPT !.mem[j] = Stamp(@, w, ts, "orphaned", FALSE),
                      !.touched = @ \cup {j}, !.notices = @ \cup {j}]
    <3>1. m.mem = me.mem /\ m \in Locals
      <4> HIDE DEF i, me
      <4>1. i + 1 \in Nat
        BY <1>1, <1>2
      <4> QED BY <1>1, <4>1, LocalsFields
    <3>2. [m.mem EXCEPT ![j] = Stamp(@, w, ts, "orphaned", FALSE)] = mem
      BY <3>1
    <3> HIDE DEF m, me, mem, j, w, ts
    <3> QED BY <3>2
  <2> HIDE DEF n
  <2> QED BY <1>3, <2>1 DEF CloseOrphan
<1>5. "orphaned" \in States /\ "orphaned" \in States \cup {"none"} /\ executed \in BOOLEAN
  BY DEF States, BadStates
<1>6. /\ m.pc = "close" /\ m.mem = me.mem /\ m.rows = me.rows
      /\ n.pc = "close" /\ n.mem = mem /\ n.rows = me.rows
  <2> HIDE DEF me, i, mem, j
  <2>1. m.pc = "close" /\ m.mem = me.mem /\ m.rows = me.rows
    BY <1>0, <1>1, LocalsFields
  <2>2. n.pc = "close" /\ n.mem = mem /\ n.rows = me.rows
    BY <1>0, <1>1, LocalsFields
  <2> QED BY <2>1, <2>2
<1>7. /\ row \in Rows /\ row.event = "finished" /\ row.wake = w /\ row.job = j
      /\ row.ts <= now /\ ledger' = Append(ledger, row)
  <2> HIDE DEF w
  <2> QED BY <1>1, <1>2, <1>4, <1>5, RowTypes DEF Write, FinishedRow
<1>8. w = ledger[i].wake /\ ts = ledger[i].ts
  OBVIOUS
<1> HIDE DEF me, i, w, j, ts, row, executed, m, n
<1>9. Settled(j) => ts <= now
  <2>1. i \in OpenAt(ledger)
    BY <1>2, <1>8 DEF OpenAt
  <2> QED BY <1>2, <1>8, <2>1 DEF Settled
<1>10. Settled(row.job) =>
         /\ row.ts <= now
         /\ \A k \in DOMAIN ledger :
              ledger[k].event = "started" /\ ledger[k].wake = row.wake => ledger[k].ts <= now
  <2>1. \A k \in DOMAIN ledger : ledger[k].event = "started" /\ ledger[k].wake = w => k = i
    BY <1>1, <1>2, <1>8 DEF OnceInv
  <2> QED BY <1>7, <1>8, <1>9, <2>1
<1>11. ASSUME NEW k \in Jobs, Settled(k)
       PROVE  /\ me.mem[k] # NoJob => me.mem[k].started <= now
              /\ Past(SubSeq(ledger', 1, me.rows), k, now)
  <2>1. Paced(now, disk, ledger, me, k)
    BY <1>0, <1>11, SettledHere DEF me
  <2>2. SubSeq(ledger', 1, me.rows) = SubSeq(ledger, 1, me.rows)
    BY <1>1, <1>7, ReadKept
  <2> QED BY <1>0, <2>1, <2>2 DEF Paced
<1> DEFINE Closed(x) == /\ x.pc = "close" /\ x.rows = me.rows
                        /\ \A k \in Jobs : Settled(k) => (x.mem[k] # NoJob => x.mem[k].started <= now)
<1>12. ASSUME NEW x, Closed(x), Becomes(p, x) PROVE SkewInv'
  <2>1. x.pc \notin AtWake /\ Place(x) = "close" /\ Place(x) \notin InTurn
    BY <1>12 DEF AtWake, InTurn, Place, Saving
  <2>2. \A k \in Jobs : Settled(k) => Paced(now, disk, ledger', x, k)
    BY <1>11, <1>12, <2>1 DEF Paced
  <2>3. proc[p].pc \notin {"reload", "save"} /\ x.pc # "done" /\ row.wake.kind = "wake"
    BY <1>0, <1>2, <1>7, <1>12 DEF me
  <2> HIDE DEF Closed
  <2> QED BY <1>0, <1>4, <1>7, <1>10, <1>12, <2>1, <2>2, <2>3, RowSkew
<1>13. CASE me.mem[j] = NoJob
  <2>1. Closed(m)
    BY <1>6, <1>11
  <2> QED BY <1>4, <1>12, <1>13, <2>1
<1>14. CASE me.mem[j] # NoJob
  <2>1. Settled(j) => r.started <= now
    <3> SUFFICES ASSUME Settled(j) PROVE r.started <= now
      OBVIOUS
    <3>1. me.mem[j] \in Records
      BY <1>1, <1>2, <1>14 DEF Stores
    <3> QED BY <1>1, <1>2, <1>5, <1>9, <1>11, <1>14, <3>1, StampStarts DEF r
  <2> HIDE DEF r
  <2>2. \A k \in Jobs : mem[k] = IF k = j THEN r ELSE me.mem[k]
    BY <1>1 DEF Stores
  <2> HIDE DEF mem
  <2>3. Closed(n)
    BY <1>6, <1>11, <2>1, <2>2
  <2> QED BY <1>4, <1>12, <1>14, <2>3
<1> QED BY <1>13, <1>14

\* Recovery makes no start later than the rows it reads say.
LEMMA RecoverPast ==
  ASSUME NEW mem \in Stores, NEW rows \in Seq(Rows), OnceInv(rows), NEW j \in Jobs,
         mem[j] # NoJob, NEW t \in Nat, mem[j].started <= t, Past(rows, j, t)
  PROVE  RecoverStamps(mem, rows)[j] \in Records /\ RecoverStamps(mem, rows)[j].started <= t
<1> DEFINE was == mem[j]
           r == RecoverStamps(mem, rows)[j]
           i == Max(StampingAt(rows, j))
           executed == FALSE
           stamped == Stamp(was, rows[i].wake, StartOf(rows, i), rows[i].state, executed)
<1>1. was \in Records /\ r \in Records
  BY RecoverMoves
<1>2. r = IF StampingAt(rows, j) # {} /\ Behind(was, rows, i) THEN stamped ELSE was
  BY DEF RecoverStamps
<1>3. executed \in BOOLEAN
  OBVIOUS
<1> HIDE DEF r, executed
<1>4. ASSUME StampingAt(rows, j) # {} PROVE stamped.started <= t
  <2>1. i \in StampingAt(rows, j) /\ \A x \in StampingAt(rows, j) : x <= i
    <3>1. StampingAt(rows, j) \in SUBSET (1..Len(rows)) /\ Len(rows) \in Nat
      BY DEF StampingAt
    <3> QED BY <1>4, <3>1, MaxIn
  <2> HIDE DEF i
  <2>2. i \in DOMAIN rows /\ Newest(rows, j, i) /\ rows[i].event = "finished" /\ rows[i] \in Rows
    BY <2>1 DEF StampingAt, Newest
  <2>3. rows[i].wake \in Wakes /\ rows[i].state \in States \cup {"none"}
    BY <2>2 DEF Rows
  <2>4. StartOf(rows, i) \in Nat /\ StartOf(rows, i) <= t
    BY <2>2, StartOfType DEF Past
  <2>5. was.started <= t
    OBVIOUS
  <2> HIDE DEF was
  <2> QED BY <1>1, <1>3, <2>3, <2>4, <2>5, StampStarts
<1> HIDE DEF stamped
<1>5. r.started <= t
  BY <1>2, <1>4
<1> QED BY <1>1, <1>5 DEF r

\* The end of reconcile.
LEMMA RepairSkew ==
  ASSUME TypeInv, TypeInv', WriterInv, RefireInv, SkewInv, NEW p \in RunDue, Repair(p)
  PROVE  SkewInv'
<1> DEFINE me == proc[p]
           rows == SnapshotOf(me)
           recovered == RecoverStamps(me.mem, rows)
           judged == [j \in Jobs |-> JudgeReceipt(recovered[j], receipt[j])]
           failed == {j \in Jobs : ReceiptJudges(recovered[j], receipt[j]) /\ ~receipt[j].ok}
           touched == me.touched \cup {j \in Jobs : judged[j] # me.mem[j]}
           notices == me.notices \cup failed
           pc == IF touched = {} THEN "enter" ELSE "reload"
           n == [me EXCEPT !.mem = judged, !.touched = touched, !.notices = notices,
                           !.ret = "enter", !.rows = 0, !.scan = 0, !.pc = pc]
<1>0. /\ me.pc = "close" /\ disk' = disk /\ ledger' = ledger /\ now' = now /\ stepped' = stepped
      /\ Alive(p)
  BY DEF Repair, At, files, world, Alive
<1>1. /\ me \in Locals /\ me.mem \in Stores /\ me.rows \in Nat /\ me.rows <= Len(ledger)
      /\ ledger \in Seq(Rows) /\ OnceInv(ledger) /\ now \in Nat
      /\ \A j \in Jobs : receipt[j] \in Receipts \cup {NoReceipt}
  BY <1>0, CloseKnows DEF TypeInv, TypeOK
<1>2. Becomes(p, n)
  <2>1. [me EXCEPT !.mem = judged, !.touched = touched, !.notices = @ \cup failed,
                   !.ret = "enter", !.rows = 0, !.scan = 0, !.pc = pc] = n
    <3> HIDE DEF judged, touched, failed, pc
    <3> QED BY <1>1
  <2> HIDE DEF n
  <2> QED BY <2>1 DEF Repair
<1>3. rows \in Seq(Rows) /\ OnceInv(rows) /\ rows = SubSeq(ledger, 1, me.rows)
  <2>1. rows = SubSeq(ledger, 1, me.rows)
    BY DEF SnapshotOf
  <2> HIDE DEF rows, me
  <2>2. /\ rows \in Seq(Rows) /\ DOMAIN rows = 1..me.rows
        /\ \A k \in DOMAIN rows : k \in DOMAIN ledger /\ rows[k] = ledger[k]
    BY <1>1, <2>1, SnapshotType DEF TypeInv
  <2> QED BY <1>1, <2>1, <2>2 DEF OnceInv
<1>4. ASSUME NEW j \in Jobs, Settled(j)
      PROVE  /\ disk[j] # NoJob => disk[j].started <= now
             /\ me.mem[j] # NoJob => recovered[j] \in Records /\ recovered[j].started <= now
  <2>1. /\ me.mem[j] # NoJob => me.mem[j].started <= now
        /\ Past(SubSeq(ledger, 1, me.rows), j, now)
        /\ disk[j] # NoJob => disk[j].started <= now
    BY <1>0, <1>4, SettledHere DEF Paced, Healing
  <2> HIDE DEF me, rows
  <2> QED BY <1>1, <1>3, <2>1, RecoverPast
<1>5. \A j \in Jobs : me.mem[j] = NoJob => recovered[j] = NoJob
  BY DEF RecoverStamps
<1>6. \A j \in Jobs : judged[j] = JudgeReceipt(recovered[j], receipt[j])
  OBVIOUS
<1> HIDE DEF me, rows, recovered, judged, failed, touched
<1>7. \A j \in Jobs : Settled(j) => (judged[j] # NoJob => judged[j].started <= now)
  <2>1. ASSUME NEW j \in Jobs, me.mem[j] = NoJob PROVE judged[j] = NoJob
    BY <1>1, <1>5, <1>6, <2>1, JudgeSame
  <2>2. ASSUME NEW j \in Jobs, me.mem[j] # NoJob, Settled(j) PROVE judged[j].started <= now
    <3> DEFINE r == recovered[j]
               c == receipt[j]
               x == judged[j]
    <3>1. r \in Records /\ r # NoJob /\ r.started <= now
          /\ c \in Receipts \cup {NoReceipt} /\ x = JudgeReceipt(r, c)
      BY <1>1, <1>4, <1>6, <2>2, NoJobAssumption
    <3> HIDE DEF r, c, x
    <3>2. x.started = r.started
      BY <3>1, JudgeSame DEF Same
    <3> QED BY <3>1, <3>2 DEF x
  <2> QED BY <2>1, <2>2
<1>8. pc \in {"enter", "reload"}
  OBVIOUS
<1> HIDE DEF pc, notices
<1>9. n.pc = pc /\ n.mem = judged /\ n.ret = "enter"
  BY <1>1, LocalsFields
<1> HIDE DEF n
<1>10. /\ n.pc \notin AtWake /\ n.pc # "close" /\ Place(n) = "enter" /\ Place(n) \notin InTurn
       /\ Place(n) # "gate"
  BY <1>8, <1>9 DEF AtWake, InTurn, Place, Saving
<1>11. \A j \in Jobs : Settled(j) => Paced(now, disk, ledger, n, j)
  BY <1>7, <1>9, <1>10 DEF Paced
<1> QED BY <1>0, <1>2, <1>4, <1>10, <1>11, SkewMoves

-----------------------------------------------------------------------------
(* A clock-skew row                                                        *)

\* The start of a wake that was executed, or of a clock-skew row, is stamped as
\* it is.
LEMMA StampNow ==
  ASSUME NEW r \in Records, NEW w, NEW ts, ts # Never, NEW state
  PROVE  Stamp(r, w, ts, state, TRUE).started = ts
BY DEF Stamp, Records

\* The job a pass finds ahead of its clock was not settled: the clock stepped
\* back once more than the job had rows.  With the row it is: the row is the
\* newest that stamps, no wake is open, and the pass stamps its own reading.
LEMMA SkewRowSkew ==
  ASSUME TypeInv, TypeInv', WriterInv, WriterInv', RefireInv, SkewInv, NEW p \in RunDue, Alive(p),
         SkewRow(p)
  PROVE  SkewInv'
<1> DEFINE me == proc[p]
           executed == TRUE
           w(j) == [proc |-> p, job |-> j, kind |-> "skew"]
<1>0. /\ p \in Procs /\ me \in Locals /\ me.mem \in Stores /\ now \in Nat
      /\ disk' = disk /\ now' = now /\ stepped' = stepped /\ stepped \in Nat
      /\ ledger \in Seq(Rows) /\ Kept(ledger) /\ RowOf(ledger, p, me)
      /\ \A q \in RunDue \ {p} : ~Alive(q) /\ Lost(proc[q])
  <2>1. disk' = disk /\ now' = now /\ stepped' = stepped
    BY DEF SkewRow, world
  <2>2. p \in Procs /\ me \in Locals /\ me.mem \in Stores /\ RowOf(ledger, p, me)
        /\ \A q \in RunDue \ {p} : ~Alive(q) /\ Lost(proc[q])
    BY PassKnows, OthersLost, LocalsFields
  <2> QED BY <2>1, <2>2 DEF TypeInv, TypeOK, RefireInv
<1>me. me \in Locals
  BY <1>0
<1>1. PICK j \in Jobs :
        /\ Turn(p, j) /\ me.mem[j] # NoJob /\ Skewed(me.mem[j], me.at)
        /\ Write(FinishedRow(w(j), "error", now))
        /\ Becomes(p, Stamped(me, w(j), now, "error", executed, "gate"))
  BY DEF SkewRow
<1> DEFINE v == w(j)
           row == FinishedRow(v, "error", now)
           n == Stamped(me, v, now, "error", executed, "gate")
           r == Stamp(me.mem[j], v, now, "error", executed)
           last == Len(ledger')
<1>2. /\ Becomes(p, n) /\ v \in Wakes /\ v.proc = p /\ v.job = j /\ v.kind = "skew"
      /\ "error" \in States /\ "error" \in States \cup {"none"} /\ "error" \notin UnstampedStates
      /\ executed \in BOOLEAN /\ executed
  BY <1>0, <1>1, WakeType DEF States, BadStates, UnstampedStates
<1>3. /\ row \in Rows /\ row.event = "finished" /\ row.wake = v /\ row.job = j /\ row.ts = now
      /\ row.state = "error" /\ ledger' = Append(ledger, row)
  <2>1. ledger' = Append(ledger, row)
    BY <1>1 DEF Write
  <2> HIDE DEF v
  <2> QED BY <1>0, <1>2, <2>1, RowTypes DEF FinishedRow
<1>4. j \in me.todo /\ j = Min(me.todo) /\ Place(me) \in {"loop", "judge"} /\ me.pc \in {"loop", "judge"}
  BY <1>1, NextJob
<1> HIDE DEF executed, v
<1>5. n.pc = "reload" /\ n.ret = "gate" /\ n.todo = me.todo /\ n.at = me.at
  <2> HIDE DEF me
  <2>1. n.pc = "reload" /\ n.ret = "gate" /\ n.todo = me.todo
    BY <1>me, StampedFields
  <2>2. n.at = me.at
    BY <1>me, StampedAt
  <2> QED BY <2>1, <2>2
<1>6. n.mem = [me.mem EXCEPT ![j] = r]
  <2> HIDE DEF me
  <2>1. n.mem = [me.mem EXCEPT ![v.job] = Stamp(me.mem[v.job], v, now, "error", executed)]
    BY <1>me, StampedMemory
  <2> HIDE DEF n
  <2> QED BY <1>2, <2>1
<1>7. r.started = now
  <2>1. me.mem[j] \in Records /\ now # Never
    <3>1. now # 0
      BY DEF TypeInv, TypeOK
    <3> QED BY <1>0, <1>1, <3>1 DEF Stores, Never
  <2> HIDE DEF me
  <2> QED BY <2>1, StampNow DEF executed
<1> HIDE DEF r, n, row
<1>8. \A k \in Jobs : n.mem[k] = IF k = j THEN r ELSE me.mem[k]
  <2> HIDE DEF me
  <2> QED BY <1>0, <1>6 DEF Stores
<1>9. Place(n) = "gate" /\ n.pc \notin AtWake /\ n.pc # "close" /\ n.pc # "done" /\ Healing(n, j)
  BY <1>4, <1>5 DEF Place, Saving, AtWake, Healing
<1>10. /\ \A i \in DOMAIN ledger : i \in DOMAIN ledger' /\ ledger'[i] = ledger[i]
       /\ ledger'[last] = row /\ last \in DOMAIN ledger'
       /\ \A i \in DOMAIN ledger' : i \in DOMAIN ledger \/ i = last
  BY <1>0, <1>3, RowMore
<1>11. /\ proc'[p] = n /\ ~At(p, "gone") /\ ~At(p, "gone")'
       /\ \A q \in Procs \ {p} : proc'[q] = proc[q]
  <2>1. ~At(p, "gone")
    BY DEF Alive, At
  <2> QED BY <1>0, <1>2, <1>5, <1>9, <2>1, OthersStay DEF At
\* The wakes are over, and the row is the newest that stamps.
<1>12. OpenAt(ledger') = {}
  <2>1. ~Lost(me) /\ me.pc \notin {"rows", "close"}
    BY <1>1, <1>4 DEF Lost
  <2>2. InLoop(disk, ledger, me)
    BY <2>1 DEF RefireInv, Rule
  <2>3. me.pc \notin {"spawn", "wait"}
    BY <1>4
  <2>4. OpenAt(ledger) = {}
    BY <2>2, <2>3 DEF InLoop
  <2> QED BY <1>0, <1>2, <1>3, <2>4, EndMore
<1>13. Past(ledger', j, now)
  <2> SUFFICES ASSUME NEW i \in DOMAIN ledger', Newest(ledger', j, i) PROVE StartOf(ledger', i) <= now
    BY DEF Past
  <2>1. i = last /\ ledger'[i] = row
    BY <1>0, <1>2, <1>3, NewestMore
  <2>2. ~\E k \in DOMAIN ledger' : ledger'[k].event = "started" /\ ledger'[k].wake = ledger'[i].wake
    BY <1>0, <1>2, <1>3, <1>10, <2>1 DEF Kept
  <2>3. StartOf(ledger', i) = now
    BY <1>3, <2>1, <2>2 DEF StartOf
  <2> QED BY <1>0, <2>3
<1> HIDE DEF last
<1>14. Settled(j)'
  <2>1. Paced(now, disk, ledger', n, j)
    BY <1>0, <1>4, <1>5, <1>7, <1>8, <1>9 DEF Paced
  <2>2. ASSUME NEW q \in RunDue PROVE Paced(now, disk, ledger', proc'[q], j)
    <3>1. CASE q = p
      BY <1>11, <2>1, <3>1
    <3>2. CASE q # p
      <4>1. proc'[q] = proc[q] /\ Lost(proc[q]) /\ proc[q].pc \in {"start", "done", "gone"}
        BY <1>0, <1>11, <3>2, PassAssumption DEF Alive
      <4> QED BY <4>1 DEF Paced, Lost, AtWake, InTurn, Place, Saving
    <3> QED BY <3>1, <3>2
  <2>3. \E q \in RunDue : Healing(proc'[q], j)
    BY <1>9, <1>11
  <2> QED BY <1>0, <1>12, <1>13, <2>2, <2>3 DEF Settled
\* It had fewer rows than the clock stepped.
<1>15. Cardinality(Slips(j)') <= stepped
  <2>1. Cardinality(Slips(j)) # stepped
    <3> SUFFICES ASSUME Settled(j) PROVE FALSE
      BY DEF SkewInv
    <3>1. Paced(now, disk, ledger, me, j)
      BY SettledHere
    <3>2. me.mem[j].started <= me.at
      BY <1>1, <1>4, <3>1 DEF Paced, InTurn
    <3>3. me.mem[j] \in Records
      BY <1>0, <1>1 DEF Stores
    <3>4. me.mem[j].started > me.at + Tolerance
      BY <1>1 DEF Skewed
    <3>5. me.mem[j].started \in Nat /\ me.at \in Nat /\ Tolerance \in Nat
      BY <1>me, <3>3, RecordsAssumption DEF Records, Locals
    <3> HIDE DEF me
    <3> QED BY <3>2, <3>4, <3>5
  <2>2. Slips(j)' \subseteq Slips(j) \cup {last}
    <3>1. \A i \in DOMAIN ledger' : ledger'[i].event = "finished" => ledger'[i].wake.proc \in Procs
      BY DEF TypeInv, TypeOK, Rows, Wakes
    <3> QED BY <1>10, <1>11, <3>1 DEF Slips, At
  <2>3. IsFiniteSet(Slips(j)) /\ Cardinality(Slips(j)) \in Nat /\ Cardinality(Slips(j)) <= stepped
    BY SlipsFinite DEF SkewInv
  <2>4. IsFiniteSet(Slips(j) \cup {last}) /\ Cardinality(Slips(j) \cup {last}) <= Cardinality(Slips(j)) + 1
        /\ Cardinality(Slips(j) \cup {last}) \in Nat
    <3>1. /\ IsFiniteSet(Slips(j) \cup {last})
          /\ Cardinality(Slips(j) \cup {last}) =
               IF last \in Slips(j) THEN Cardinality(Slips(j)) ELSE Cardinality(Slips(j)) + 1
      BY <2>3, FS_AddElement
    <3> QED BY <2>3, <3>1
  <2>5. IsFiniteSet(Slips(j)') /\ Cardinality(Slips(j)') <= Cardinality(Slips(j) \cup {last})
    BY <2>2, <2>4, FS_Subset
  <2>6. Cardinality(Slips(j)') \in Nat
    BY <2>5, FS_CardinalityType
  <2> QED BY <1>0, <2>1, <2>3, <2>4, <2>5, <2>6
\* The other jobs.
<1>16. ASSUME NEW k \in Jobs \ {j}, Settled(k) PROVE Settled(k)'
  <2>1. /\ Past(ledger, k, now) /\ Paced(now, disk, ledger, me, k)
        /\ disk[k] # NoJob => disk[k].started <= now
    BY <1>4, <1>16, SettledHere DEF Healing
  <2>2. Past(ledger', k, now)
    <3> SUFFICES ASSUME NEW i \in DOMAIN ledger', Newest(ledger', k, i) PROVE StartOf(ledger', i) <= now
      BY DEF Past
    <3>1. i \in DOMAIN ledger /\ Newest(ledger, k, i) /\ ledger'[i] = ledger[i]
      BY <1>0, <1>3, <1>16, NewestMore
    <3>2. OnceInv(ledger) /\ OnceInv(ledger')
      BY DEF WriterInv
    <3>3. StartOf(ledger', i) = StartOf(ledger, i)
      BY <1>0, <1>3, <3>1, <3>2, StartOfMore
    <3> QED BY <2>1, <3>1, <3>3 DEF Past
  <2>3. Paced(now, disk, ledger', n, k)
    <3>1. n.mem[k] = me.mem[k] /\ Place(me) \in InTurn /\ Place(me) # "gate"
      BY <1>4, <1>8, <1>16 DEF InTurn
    <3> HIDE DEF me
    <3> QED BY <1>5, <1>9, <2>1, <3>1 DEF Paced
  <2>4. ASSUME NEW q \in RunDue PROVE Paced(now, disk, ledger', proc'[q], k)
    <3>1. CASE q = p
      BY <1>11, <2>3, <3>1
    <3>2. CASE q # p
      <4>1. proc'[q] = proc[q] /\ Lost(proc[q]) /\ proc[q].pc \in {"start", "done", "gone"}
        BY <1>0, <1>11, <3>2, PassAssumption DEF Alive
      <4> QED BY <1>16, <4>1 DEF Paced, Lost, AtWake, InTurn, Place, Saving
    <3> QED BY <3>1, <3>2
  <2> QED BY <1>0, <1>12, <2>1, <2>2, <2>4 DEF Settled
<1>17. ASSUME NEW k \in Jobs
       PROVE  /\ Cardinality(Slips(k)') <= stepped'
              /\ Cardinality(Slips(k)') = stepped' => Settled(k)'
  <2>1. CASE k = j
    BY <1>0, <1>14, <1>15, <2>1
  <2>2. CASE k # j
    <3>1. Slips(k)' \subseteq Slips(k)
      <4>1. \A i \in DOMAIN ledger' : ledger'[i].event = "finished" => ledger'[i].wake.proc \in Procs
        BY DEF TypeInv, TypeOK, Rows, Wakes
      <4> QED BY <1>3, <1>10, <1>11, <2>2, <4>1 DEF Slips, At
    <3>2. /\ Cardinality(Slips(k)) <= stepped /\ (Cardinality(Slips(k)) = stepped => Settled(k))
          /\ IsFiniteSet(Slips(k)) /\ Cardinality(Slips(k)) \in Nat
      BY SlipsFinite DEF SkewInv
    <3>3. IsFiniteSet(Slips(k)') /\ Cardinality(Slips(k)') <= Cardinality(Slips(k))
      BY <3>1, <3>2, FS_Subset
    <3>4. Cardinality(Slips(k)') \in Nat
      BY <3>3, FS_CardinalityType
    <3> QED BY <1>0, <1>16, <2>2, <3>2, <3>3, <3>4
  <2> QED BY <2>1, <2>2
<1>18. ASSUME NEW q \in RunDue, Place(proc'[q]) = "gate"
       PROVE  \E i \in DOMAIN ledger' : TellsSkew(ledger', i, q, Min(proc'[q].todo))
  <2>1. CASE q = p
    <3>1. Min(proc'[q].todo) = j
      BY <1>4, <1>5, <1>11, <2>1
    <3> QED BY <1>2, <1>3, <1>10, <2>1, <3>1 DEF TellsSkew
  <2>2. CASE q # p
    <3>1. proc'[q] = proc[q]
      BY <1>11, <2>2, PassAssumption
    <3>2. PICK i \in DOMAIN ledger : TellsSkew(ledger, i, q, Min(proc[q].todo))
      BY <1>18, <3>1 DEF SkewInv
    <3> QED BY <1>10, <3>1, <3>2 DEF TellsSkew
  <2> QED BY <2>1, <2>2
<1> QED BY <1>17, <1>18 DEF SkewInv

-----------------------------------------------------------------------------
(* The theorem                                                             *)

\* No row is written at first, and no job was ever woken.
LEMMA InitSkewInv == Init => SkewInv
<1> SUFFICES ASSUME Init PROVE SkewInv
  OBVIOUS
<1>1. /\ DOMAIN ledger = {} /\ stepped = 0 /\ now = 1
      /\ \A j \in Jobs : disk[j] # NoJob => disk[j].started = 0
  BY DEF Init, NewRecord, Never
<1>2. ASSUME NEW p \in RunDue
      PROVE  /\ Place(proc[p]) \in {"start", "done"} /\ proc[p].pc \in {"start", "done"}
             /\ \A j \in Jobs : proc[p].mem[j] = NoJob
  <2>1. PICK pc \in {"start", "done"} : proc[p] = Fresh(pc)
    BY PassAssumption DEF Init
  <2> QED BY <2>1 DEF Fresh, Place, Saving
<1>3. ASSUME NEW j \in Jobs PROVE Slips(j) = {} /\ Settled(j)
  <2>1. \A p \in RunDue : Paced(now, disk, ledger, proc[p], j)
    BY <1>2 DEF Paced, InTurn, AtWake
  <2>2. Past(ledger, j, now) /\ OpenAt(ledger) = {} /\ Slips(j) = {}
    BY <1>1 DEF Past, OpenAt, Slips
  <2> QED BY <1>1, <2>1, <2>2 DEF Settled
<1>4. Cardinality({}) = 0
  BY FS_EmptySet
<1>5. \A p \in RunDue : Place(proc[p]) # "gate"
  BY <1>2
<1>6. ASSUME NEW j \in Jobs PROVE Cardinality(Slips(j)) <= stepped /\ Settled(j)
  <2>1. Slips(j) = {} /\ Settled(j)
    BY <1>3
  <2>2. Cardinality(Slips(j)) = 0
    BY <1>4, <2>1
  <2>3. stepped = 0
    BY <1>1
  <2> QED BY <2>1, <2>2, <2>3
<1> QED BY <1>5, <1>6 DEF SkewInv

\* What lies behind one reading lies behind a later one.
LEMMA PastLater ==
  ASSUME NEW rows \in Seq(Rows), OnceInv(rows), NEW j, NEW t \in Nat, NEW u \in Nat, t <= u,
         Past(rows, j, t)
  PROVE  Past(rows, j, u)
<1> SUFFICES ASSUME NEW i \in DOMAIN rows, Newest(rows, j, i) PROVE StartOf(rows, i) <= u
  BY DEF Past
<1>1. StartOf(rows, i) <= t
  BY DEF Past
<1>2. StartOf(rows, i) \in Nat
  BY StartOfType
<1> QED BY <1>1, <1>2

\* A step of no invocation: the clock goes on, or steps back, and then each job
\* may have a row more.
LEMMA ClockSkew ==
  ASSUME TypeInv, WriterInv, RefireInv, SkewInv, disk' = disk, ledger' = ledger, proc' = proc,
         \/ now' \in {now, now + 1} /\ stepped' = stepped
         \/ stepped' = stepped + 1
  PROVE  SkewInv'
<1>1. \A j \in Jobs : Slips(j)' = Slips(j)
  BY DEF Slips, At
<1>2. \A j \in Jobs : /\ Cardinality(Slips(j)) \in Nat /\ Cardinality(Slips(j)) <= stepped
                      /\ Cardinality(Slips(j)) = stepped => Settled(j)
  BY SlipsFinite DEF SkewInv
<1>3. now \in Nat /\ stepped \in Nat
  BY DEF TypeInv, TypeOK
<1>4. \A p \in RunDue : Place(proc'[p]) = "gate" =>
        \E i \in DOMAIN ledger' : TellsSkew(ledger', i, p, Min(proc'[p].todo))
  BY DEF SkewInv
<1>5. CASE stepped' = stepped + 1
  <2>1. \A j \in Jobs : Cardinality(Slips(j)') <= stepped' /\ Cardinality(Slips(j)') # stepped'
    BY <1>1, <1>2, <1>3, <1>5
  <2> QED BY <1>4, <2>1 DEF SkewInv
<1>6. CASE now' \in {now, now + 1} /\ stepped' = stepped
  <2>1. ASSUME NEW j \in Jobs, Settled(j) PROVE Settled(j)'
    <3>1. now \in Nat /\ now' \in Nat /\ now <= now' /\ \A x \in Nat : x <= now => x <= now'
      BY <1>3, <1>6
    <3>2. /\ ledger \in Seq(Rows) /\ disk \in Stores /\ OnceInv(ledger)
          /\ \A p \in RunDue : proc[p] \in Locals
      BY PassAssumption DEF TypeInv, TypeOK, Stores, WriterInv
    <3>3. \A i \in DOMAIN ledger : ledger[i].ts \in Nat
      BY <3>2 DEF Rows
    <3>4. /\ disk[j] # NoJob => disk[j].started \in Nat
          /\ \A p \in RunDue : proc[p].started \in Nat
          /\ \A p \in RunDue : proc[p].mem[j] # NoJob => proc[p].mem[j].started \in Nat
      BY <3>2 DEF Stores, Records, Locals
    <3>5. /\ Past(ledger, j, now)
          /\ \A i \in OpenAt(ledger) : ledger[i].job = j => ledger[i].ts <= now
          /\ disk[j] # NoJob => disk[j].started <= now \/ \E p \in RunDue : Healing(proc[p], j)
          /\ \A p \in RunDue : Paced(now, disk, ledger, proc[p], j)
      BY <2>1 DEF Settled
    <3>6. Past(ledger, j, now')
      BY <3>1, <3>2, <3>5, PastLater
    <3>7. ASSUME NEW p \in RunDue PROVE Paced(now', disk, ledger, proc[p], j)
      <4> DEFINE m == proc[p]
                 rows == SubSeq(ledger, 1, m.rows)
      <4>1. Paced(now, disk, ledger, m, j)
        BY <3>5
      <4>2. ASSUME m.pc = "close" PROVE Past(rows, j, now')
        <5>1. m.rows \in Nat /\ m.rows <= Len(ledger) /\ TypeOK
          BY <4>2, CloseKnows DEF TypeInv
        <5>2. /\ rows \in Seq(Rows) /\ DOMAIN rows = 1..m.rows
              /\ \A k \in DOMAIN rows : k \in DOMAIN ledger /\ rows[k] = ledger[k]
          BY <5>1, SnapshotType
        <5>3. Past(rows, j, now)
          BY <4>1, <4>2 DEF Paced
        <5> HIDE DEF rows
        <5>4. OnceInv(rows)
          BY <3>2, <5>2 DEF OnceInv
        <5> QED BY <3>1, <5>2, <5>3, <5>4, PastLater
      <4>3. m.started \in Nat /\ (m.mem[j] # NoJob => m.mem[j].started \in Nat)
        BY <3>4
      <4>4. m.mem[j] # NoJob => m.mem[j].started <= now'
        BY <3>1, <4>1, <4>3 DEF Paced
      <4>5. m.pc \in AtWake /\ m.cur.job = j => m.started <= now'
        BY <3>1, <4>1, <4>3 DEF Paced
      <4> QED BY <4>1, <4>2, <4>4, <4>5 DEF Paced
    <3> QED BY <3>1, <3>3, <3>4, <3>5, <3>6, <3>7 DEF Settled, OpenAt
  <2> QED BY <1>1, <1>2, <1>3, <1>4, <1>6, <2>1 DEF SkewInv
<1> QED BY <1>5, <1>6

\* Every step keeps the invariant.
LEMMA SkewStep ==
  ASSUME TypeInv, TypeInv', WriterInv, WriterInv', Reliable, RefireInv, SeenInv, SkewInv,
         [Next]_vars
  PROVE  SkewInv'
<1>0. Alone
  BY DEF Reliable
<1>1. ASSUME NEW p \in Procs, Start(p) \/ Step(p) \/ Die(p) PROVE SkewInv'
  <2>1. p \in RunDue /\ proc[p].pc \notin Ended
    <3>1. p \in Given.cast /\ proc[p].pc \notin Ended
      BY <1>0, <1>1, ActorIs DEF Alone, Quiet, WriterInv
    <3> QED BY <1>0, <3>1 DEF Alone
  <2>2. p \notin Operator /\ p \notin Run /\ p \notin Reconciler /\ Placed(p, proc[p])
    BY <2>1, PassAssumption DEF WriterInv, PlaceInv
  <2>3. CASE StartPass(p)
    BY <2>1, <2>3, EndSkew
  <2>4. CASE ~StartPass(p)
    <3>1. Step(p) \/ Die(p)
      BY <1>1, <2>2, <2>4 DEF Start, StartRun, StartReconcile, StartAdd, StartSet, StartRemove
    <3>2. Alive(p)
      <4>1. proc[p].pc # "start"
        BY <3>1 DEF Step, Load, Reload, Save, Notify, CardAnswer, ReadRows, CloseOrphan, Repair,
          EnterLoop, PassOver, SkewRow, SkipRow, EndPass, TakeLock, Overlap, Recheck, Begin, Spawn,
          Finish, Unlock, Fail, CheckRemove, RemovedRowWritten, Turn, Due, Executes, At, Die, Alive
      <4> QED BY <2>1, <4>1 DEF Alive, Ended
    <3>3. ~CheckRemove(p) /\ ~RemovedRowWritten(p) /\ ~Fail(p)
      BY <2>1, <2>2 DEF Placed, CheckRemove, RemovedRowWritten, At, Fail, Reliable
    <3>4. CASE Load(p) \/ ReadRows(p) \/ EnterLoop(p)
      BY <2>1, <3>2, <3>4, ReadSkew
    <3>5. CASE Reload(p) \/ Save(p)
      BY <2>1, <3>2, <3>5, ReloadSkew, SaveSkew
    <3>6. CASE CloseOrphan(p) \/ Repair(p)
      BY <1>0, <2>1, <3>6, CloseSkew, RepairSkew
    <3>7. CASE PassOver(p) \/ CardAnswer(p) \/ Notify(p) \/ TakeLock(p) \/ Spawn(p) \/ Unlock(p)
      BY <2>1, <3>2, <3>7, TurnSkew
    <3>8. CASE SkewRow(p) \/ SkipRow(p) \/ Overlap(p)
      BY <2>1, <3>2, <3>8, SkewRowSkew, TurnRowSkew
    <3>9. CASE Recheck(p) \/ Begin(p) \/ Finish(p)
      BY <2>1, <3>9, RecheckSkew, BeginSkew, FinishSkew
    <3>10. CASE Die(p) \/ EndPass(p)
      BY <2>1, <3>2, <3>10, DieSkew, EndSkew
    <3> QED BY <3>1, <3>3, <3>4, <3>5, <3>6, <3>7, <3>8, <3>9, <3>10 DEF Step
  <2> QED BY <2>3, <2>4
<1>2. CASE \/ \E p \in RunDue : AgePass(p)
           \/ \E w \in Wakes : ChildExit(w) \/ Age(w)
           \/ Tick \/ StepBack \/ UNCHANGED vars
  <2>1. /\ disk' = disk /\ ledger' = ledger /\ proc' = proc
        /\ \/ now' \in {now, now + 1} /\ stepped' = stepped
           \/ stepped' = stepped + 1
    BY <1>2 DEF AgePass, ChildExit, Age, Tick, StepBack, vars, files, locks, world
  <2> QED BY <2>1, ClockSkew
<1> QED BY <1>1, <1>2 DEF Next

\* In every behaviour of passes, however many, on a disk that refuses nothing:
\* the clock-skew rows of a job that were written by passes that ran to their
\* end are no more than the steps of the host clock backwards, whatever died
\* before them (the skew branch of cmd_run_due, _stamp and the save behind it).
THEOREM SkewIsOfSteps == Spec => [](Reliable => SkewIsToldOnce)
<1> DEFINE Inv ==
      /\ TypeInv /\ SeenInv
      /\ Reliable => WriterInv /\ RefireInv /\ SkewInv
<1>1. Init => Inv
  BY InitTypeInv, InitSeenInv, InitWriterInv, InitRefireInv, InitSkewInv
<1>2. ASSUME Inv, [Next]_vars PROVE Inv'
  <2>1. setting' = setting /\ TypeInv' /\ SeenInv'
    BY <1>2, WorldTypes, TypeStep, SeenStep
  <2>2. Reliable' => Reliable
    BY <2>1 DEF Reliable, Alone, Given
  <2>3. Reliable => Alone /\ Quiet
    BY DEF Reliable, Alone, Quiet
  <2>4. Reliable' => WriterInv' /\ RefireInv'
    BY <1>2, <2>2, <2>3, WriterStep, RefireStep
  <2>5. Reliable' => SkewInv'
    BY <1>2, <2>1, <2>2, <2>4, SkewStep
  <2> QED BY <2>1, <2>4, <2>5
<1>3. Inv => (Reliable => SkewIsToldOnce)
  <2> SUFFICES ASSUME Inv, Reliable, NEW j \in Jobs
               PROVE  Cardinality({i \in DOMAIN ledger :
                        /\ ledger[i].event = "finished" /\ ledger[i].job = j
                        /\ ledger[i].wake.kind = "skew" /\ At(ledger[i].wake.proc, "done")}) <= stepped
    BY DEF SkewIsToldOnce
  <2> DEFINE told == {i \in DOMAIN ledger :
                        /\ ledger[i].event = "finished" /\ ledger[i].job = j
                        /\ ledger[i].wake.kind = "skew" /\ At(ledger[i].wake.proc, "done")}
  <2>1. told \in SUBSET Slips(j)
    BY DEF Slips, At
  <2>2. IsFiniteSet(Slips(j)) /\ Cardinality(Slips(j)) \in Nat /\ Cardinality(Slips(j)) <= stepped
        /\ stepped \in Nat
    BY SlipsFinite DEF SkewInv, TypeInv, TypeOK
  <2> HIDE DEF told
  <2>3. IsFiniteSet(told) /\ Cardinality(told) <= Cardinality(Slips(j))
    BY <2>1, <2>2, FS_Subset
  <2>4. Cardinality(told) \in Nat
    BY <2>3, FS_CardinalityType
  <2>5. Cardinality(told) <= stepped
    BY <2>2, <2>3, <2>4
  <2> QED BY <2>5 DEF told
<1> HIDE DEF Inv
<1> QED BY <1>1, <1>2, <1>3, PTL DEF Spec

=============================================================================
